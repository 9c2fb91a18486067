---------------------------- MODULE MediaSamples ----------------------------
(****************************************************************************)
(* Byte streams for TLC, laid out from lists of records.  Sizes are scaled  *)
(* by the constants of TideFormat, the layout rules are the format's own.   *)
(****************************************************************************)
EXTENDS TideFormat, TLC

CONSTANT PREFIX_SIZE   \* bytes of a record before its payload

\* A record by its type, payload size and body; EXCEPT makes it malformed.
Rec(type, payload, body) ==
  [type |-> type, varints |-> TRUE, prefix_size |-> PREFIX_SIZE,
   header_size |-> PREFIX_SIZE, alignment_log2 |-> 0, payload_size |-> payload,
   integrity |-> "OK", body |-> body, kids |-> [size |-> 0, frame |-> <<>>]]

\* What reading at an offset where no record starts would give.
NoFrame == [Rec("UNKNOWN", 0, <<>>) EXCEPT !.varints = FALSE]

\* What is read rel bytes after the start of record r, inner bytes into its
\* children.
ReadIn(r, rel, inner) ==
  IF rel = 0 THEN r
  ELSE IF inner \in 0..(r.kids.size - 1) THEN r.kids.frame[inner] ELSE NoFrame
Within(r, rel) == ReadIn(r, rel, rel - r.header_size - TIDE_GROUP_META_SIZE)

\* f as a table: TLC computes its values once.
Tabulated(f) == f @@ <<>>

\* Where the records start when one follows another; the last value is their size.
Starts(recs) ==
  LET start[i \in 1..(Len(recs) + 1)] ==
        IF i = 1 THEN 0 ELSE start[i-1] + CrcEnd(recs[i-1], 0)
  IN  start

\* The number of the record that holds offset o.
Holder(start, o) == CHOOSE i \in DOMAIN start : start[i] <= o /\ o < start[i+1]
ReadAt(recs, start, i, o) == Within(recs[i], o - start[i])

LaidAt(recs, start, total) ==
  [size |-> total,
   frame |-> Tabulated([o \in 0..(total - 1) |-> ReadAt(recs, start, Holder(start, o), o)])]
LaidFrom(recs, start) == LaidAt(recs, start, start[Len(recs) + 1])

\* The records one after another.
Laid(recs) == LaidFrom(recs, Starts(recs))

GroupOf(kids) ==
  [Rec("GROUP", TIDE_GROUP_META_SIZE + kids.size, [child_bytes |-> kids.size])
    EXCEPT !.kids = kids]
Group(recs) == GroupOf(Laid(recs))

\* A sample: a header, records, and how many bytes are missing at the end.
Stream(header, recs, cut) == [header |-> header, recs |-> recs, cut |-> cut]

GoodHeader == [fails |-> {}, max_record_hint |-> 0]
Good(recs) == Stream(GoodHeader, recs, 0)

\* A footer's file_length is given relative to its end.
Placed(r, o) ==
  IF r.type = "FOOTER" THEN [r EXCEPT !.body.file_length = @ + CrcEnd(r, o)] ELSE r

InFile(records, o) ==
  Placed(IF o \in DOMAIN records THEN records[o] ELSE NoFrame, o + TIDE_HEADER_SIZE)

\* The bytes of sample s, whose records are laid out as given.
BytesOf(s, records) ==
  [size |-> TIDE_HEADER_SIZE + records.size - s.cut, header |-> s.header,
   frame |-> Tabulated([o \in 0..(TIDE_HEADER_SIZE + records.size) |->
               InFile(records.frame, o - TIDE_HEADER_SIZE)])]

\* The byte streams of the samples.
LayOut(samples) ==
  Tabulated([m \in DOMAIN samples |-> BytesOf(samples[m], Laid(samples[m].recs))])

------------------------------------------------------------------------------
t1 == <<1, 0>>
t2 == <<2, 0>>
Desc(t) == Rec("STREAM_DESC", 1, [layout |-> TRUE, time_base_valid |-> TRUE, track |-> t])
Pkt(t) == Rec("PACKET", 1, [layout |-> TRUE, duration |-> 1, track |-> t])
Skip == Rec("SKIPPABLE", 0, <<>>)
Footer == Rec("FOOTER", 1, [layout |-> TRUE, file_length |-> 0,
                            index_directory_offset |-> 0, digest |-> TRUE])

\* A table with the given count and entries, on track t where it has one.
Table(type, t, count, entries) ==
  Rec(type, 1, [layout |-> TRUE, track |-> t, count |-> count, entries |-> entries,
                prefix_offset |-> TIDE_HEADER_SIZE])
Range2(seq, from, n) == [packet_seq |-> seq, duration |-> 0, range_offset |-> from, range_size |-> n]
Edit(from, n) == [output_start |-> from, output_duration |-> n, rate_valid |-> TRUE]
Seek(t, pts) == [track |-> t, pts |-> pts, group_offset |-> TIDE_HEADER_SIZE,
                 record_offset |-> TIDE_HEADER_SIZE]
Dir(g, from, to) == [generation |-> g, start_time |-> from, end_time |-> to,
                     offset |-> TIDE_HEADER_SIZE]
Gap(t, epoch) == Rec("DISCONTINUITY", 1, [layout |-> TRUE, epoch |-> epoch, track |-> t])

=============================================================================
