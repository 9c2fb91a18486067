------------------------------ MODULE MCDecoder ------------------------------
(****************************************************************************)
(* The decoder on sample byte streams.                                      *)
(****************************************************************************)
EXTENDS DecoderReference, MediaSamples

MCLimits ==
  [max_record_size |-> 40, max_payload_size |-> 30, max_single_alloc |-> 30,
   max_aggregate_alloc |-> 60, max_depth |-> 2, max_tracks |-> 2, max_edit_entries |-> 2,
   max_packet_table_entries |-> 2]

D == Desc(t1)
P == Pkt(t1)

\* Well-formed streams, with groups, padding and a truncated end.
Intact ==
  "plain"   :> Good(<<D, P, Footer>>) @@
  "nested"  :> Good(<<D, Group(<<P, Group(<<P>>)>>), Group(<<>>), P>>) @@
  "scoped"  :> Good(<<Group(<<D, Skip>>), P, Desc(t2), Pkt(t2)>>) @@
  "padded"  :> Good(<<[D EXCEPT !.alignment_log2 = 2], [P EXCEPT !.alignment_log2 = 1], Skip>>) @@
  "cut"     :> Stream(GoodHeader, <<D, Group(<<P>>), P>>, 1) @@
  "empty"   :> Good(<<>>)

\* One malformed record or header each, after and around good ones.
Malformed ==
  "unframed"  :> Good(<<D, [P EXCEPT !.varints = FALSE], P>>) @@
  "prefix"    :> Good(<<D, [P EXCEPT !.header_size = @ + 1]>>) @@
  "aligned"   :> Good(<<D, [Skip EXCEPT !.alignment_log2 = 4], P>>) @@
  "overflow"  :> Stream(GoodHeader, <<D, Rec("SKIPPABLE", U64_MAX, <<>>)>>, U64_MAX - 2) @@
  "oversize"  :> Good(<<D, Rec("SKIPPABLE", 31, <<>>)>>) @@
  "crc"       :> Good(<<D, Group(<<P, [P EXCEPT !.integrity = "INTEGRITY"]>>), P>>) @@
  "padding"   :> Good(<<D, [P EXCEPT !.integrity = "FORMAT"], P>>) @@
  "unknown"   :> Good(<<D, Group(<<P, Rec("UNKNOWN", 0, <<>>)>>), P>>) @@
  "child"     :> Good(<<D, [Group(<<P, P>>) EXCEPT !.payload_size = @ - 1,
                                                   !.body.child_bytes = @ - 1], P>>) @@
  "length"    :> Good(<<D, [Group(<<P>>) EXCEPT !.body.child_bytes = @ + 1]>>) @@
  "short"     :> Good(<<Rec("GROUP", 0, [child_bytes |-> 0])>>) @@
  "deep"      :> Good(<<D, Group(<<Group(<<P, Group(<<P>>)>>)>>)>>) @@
  "orphan"    :> Good(<<Group(<<D>>), Pkt(t2), P>>) @@
  "again"     :> Good(<<D, Group(<<P, D>>), P>>) @@
  "crowd"     :> Good(<<D, Desc(t2), Desc(<<2, 1>>), P>>) @@
  "base"      :> Good(<<[D EXCEPT !.body.time_base_valid = FALSE], P>>) @@
  "desc"      :> Good(<<[D EXCEPT !.body.layout = FALSE], P>>) @@
  "negative"  :> Good(<<D, [P EXCEPT !.body.duration = -1]>>) @@
  "magic"     :> Stream([fails |-> {"magic", "crc"}, max_record_hint |-> 0], <<D>>, 0) @@
  "hint"      :> Stream([fails |-> {"crc"}, max_record_hint |-> 41], <<D>>, 0)

\* The other record types, accepted and rejected.
Table1(type, count, entries) == Good(<<D, Group(<<Table(type, t1, count, entries)>>), P>>)
Indexed ==
  "table"     :> Table1("PACKET_TABLE", 2, <<Range2(1, 0, 2), Range2(2, 2, 1)>>) @@
  "overlap"   :> Table1("PACKET_TABLE", 2, <<Range2(1, 0, 2), Range2(2, 1, 1)>>) @@
  "tablebig"  :> Table1("PACKET_TABLE", 3, <<>>) @@
  "trailing"  :> Table1("PACKET_TABLE", 1, <<Range2(1, 0, 2), Range2(2, 2, 1)>>) @@
  "edits"     :> Table1("EDIT_LIST", 2, <<Edit(-1, 2), Edit(1, 0)>>) @@
  "editsback" :> Table1("EDIT_LIST", 2, <<Edit(0, 2), Edit(1, 1)>>) @@
  "editsfew"  :> Table1("EDIT_LIST", 2, <<Edit(0, 2)>>) @@
  "editslost" :> Good(<<D, Table("EDIT_LIST", t2, 0, <<>>), P>>) @@
  "gap"       :> Good(<<Gap(<<0, 0>>, 1), D, Gap(t1, 2), P>>) @@
  "gapepoch"  :> Good(<<D, Gap(t1, 0)>>) @@
  "gaplost"   :> Good(<<D, Gap(t2, 1)>>) @@
  "seek"      :> Table1("SEEK_INDEX", 2, <<Seek(t1, -1), Seek(t1, 3)>>) @@
  "seekback"  :> Table1("SEEK_INDEX", 2, <<Seek(t1, 3), Seek(t1, 2)>>) @@
  "seekhead"  :> Good(<<Table("SEEK_INDEX", t1, 1, <<Seek(t1, 0)>>)>>) @@
  "check"     :> Table1("CHECKPOINT", 1, <<t1>>) @@
  "checklost" :> Table1("CHECKPOINT", 2, <<t1, t2>>) @@
  "dir"       :> Table1("INDEX_DIRECTORY", 2, <<Dir(1, 0, 2), Dir(2, 2, 2)>>) @@
  "dirback"   :> Table1("INDEX_DIRECTORY", 2, <<Dir(1, 0, 2), Dir(1, 2, 2)>>) @@
  "footlen"   :> Good(<<D, [Footer EXCEPT !.body.file_length = 1]>>) @@
  "footdir"   :> Good(<<D, [Footer EXCEPT !.body.index_directory_offset = 1]>>) @@
  "footsum"   :> Good(<<D, [Footer EXCEPT !.body.digest = FALSE]>>)

\* Streams for callbacks and allocations that fail.
FaultSamples ==
  "short"     :> Good(<<D, Group(<<P, Desc(t2), Pkt(t2)>>), P>>) @@
  "torn"      :> Stream(GoodHeader, <<Group(<<Group(<<D, P>>)>>), P, Skip>>, 1) @@
  "deeper"    :> Good(<<D, Group(<<Group(<<P, Group(<<P>>)>>)>>)>>) @@
  "broken"    :> Good(<<D, Group(<<P, [P EXCEPT !.integrity = "INTEGRITY"]>>), P>>) @@
  "twice"     :> Good(<<D, Group(<<D>>), P>>) @@
  "many"      :> Good(<<D, Desc(t2), Desc(<<1, 1>>)>>) @@
  "tall"      :> Stream(GoodHeader, <<D, Rec("SKIPPABLE", 70, <<>>)>>, 0) @@
  "nomagic"   :> Stream([fails |-> {"magic"}, max_record_hint |-> 0], <<D>>, 0)

\* Streams on which the decoder and its documents disagree.
ContestedSamples ==
  "appended"  :> Good(<<D, Footer, P>>) @@
  "inside"    :> Good(<<D, Group(<<P, [P EXCEPT !.integrity = "INTEGRITY"]>>)>>) @@
  "notide"    :> Stream([fails |-> {"magic"}, max_record_hint |-> 0], <<D>>, 0)

\* The values of Media; their parts are definitions of their own because TLC
\* evaluates those once, and what a cfg assigns to a constant at every use.
IntactBytes == LayOut(Intact)
MalformedBytes == LayOut(Malformed)
IndexedBytes == LayOut(Indexed)
FaultBytes == LayOut(FaultSamples)
ContestedBytes == LayOut(ContestedSamples)

AllStreams == IntactBytes @@ MalformedBytes @@ IndexedBytes
Faulty == FaultBytes
Contested == ContestedBytes

=============================================================================
