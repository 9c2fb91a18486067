----------------------------- MODULE MCWorkflow -----------------------------
(****************************************************************************)
(* Jobs over sample files and over what the jobs before them left.          *)
(****************************************************************************)
EXTENDS Workflow, MediaSamples

MCLimits ==
  [max_record_size |-> 40, max_payload_size |-> 30, max_single_alloc |-> 9,
   max_aggregate_alloc |-> 33, max_depth |-> 2, max_tracks |-> 2, max_edit_entries |-> 2,
   max_packet_table_entries |-> 2]

\* Descriptors and packets as tide_stream_info and tide_packet_info hold them: bytes
\* is the size of the config or payload, data its content.
Info(t) == [layout |-> TRUE, time_base_valid |-> TRUE, track |-> t, bytes |-> 0,
            data |-> "config"]
Item(t, n, data) == [layout |-> TRUE, duration |-> 0, track |-> t, bytes |-> n, data |-> data]

S(t) == Rec("STREAM_DESC", StreamPayloadSize(Info(t)), Info(t))
K(t, n, data) == Rec("PACKET", PacketPayloadSize(Item(t, n, data)), Item(t, n, data))

\* "big" holds a packet the parser accepts and the muxer does not, "long" more bytes
\* than the muxer's buffer may have, "idle" a descriptor without packets.
Samples ==
  "plain" :> Good(<<S(t1), K(t1, 0, "x"), K(t1, 1, "y"), Footer>>) @@
  "group" :> Good(<<S(t1), S(t2), Group(<<K(t2, 1, "x")>>), Skip, K(t1, 1, "y")>>) @@
  "idle"  :> Stream(GoodHeader, <<S(t2), S(t1), K(t1, 1, "y"), K(t1, 1, "z")>>, 1) @@
  "big"   :> Good(<<S(t1), K(t1, 1, "x"), K(t1, 8, "b"), K(t1, 1, "z")>>) @@
  "long"  :> Good(<<S(t1), K(t1, 4, "x"), K(t1, 4, "y"), K(t1, 4, "z")>>) @@
  "torn"  :> Good(<<S(t1), [K(t1, 1, "x") EXCEPT !.integrity = "INTEGRITY"]>>) @@
  "stub"  :> Stream(GoodHeader, <<>>, 1)
SampleBytes == LayOut(Samples)
Files == SampleBytes

\* The commands, from the input to another path and onto the input itself.
Command(c, in, out) ==
  [command |-> c, in |-> in, out |-> out, strict |-> FALSE, selected_track |-> 0,
   write_footer |-> TRUE, base_valid |-> TRUE]
Reader(in, strict, track) ==
  [Command("read", in, in) EXCEPT !.strict = strict, !.selected_track = track]
Writer(footer, valid) ==
  [Command("write", "b", "b") EXCEPT !.write_footer = footer, !.base_valid = valid]

OnInput ==
  {Command(c, "a", out) : c \in {"remux", "repair"}, out \in {"a", "b"}}
    \cup {Command("inspect", "a", "a"), Command("remux", "b", "a")}
    \cup {Reader("a", TRUE, 0), Reader("a", FALSE, 1)}
    \cup {Writer(TRUE, TRUE), Writer(FALSE, TRUE), Writer(TRUE, FALSE)}
OnOutput == {Command("repair", "b", "a"), Command("remux", "b", "a")}

SomeDescriptors == {Info(t1), [Info(t2) EXCEPT !.time_base_valid = FALSE]}
SomePackets ==
  {Item(t1, 1, "x"), Item(t1, 5, "w"), Item(t1, 8, "b"), [Item(t1, 0, "y") EXCEPT !.duration = -1]}

\* A packet that fits the muxer's buffer once, and the second time only in part.
LargePackets == {Item(t1, 5, "w")}

=============================================================================
