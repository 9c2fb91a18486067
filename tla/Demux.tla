------------------------------- MODULE Demux -------------------------------
(****************************************************************************)
(* The demuxer of src/demux/demux.c, on top of tide_parse_tide_bytes: it    *)
(* copies every descriptor and every selected packet of a source when it is *)
(* opened and hands the packets out one by one.                             *)
(****************************************************************************)
EXTENDS ByteBuffer, ParseBytes

VARIABLE demux  \* struct tide_demux; open says whether the handle is not NULL

NoDemux == [open |-> FALSE, streams |-> <<>>, packets |-> <<>>, cursor |-> 0]

\* What the callbacks of parse p were called for, in order: cb "stream" for
\* on_demux_stream, "packet" for on_demux_packet.
Delivered(bytes, p, cb) ==
  LET called == Kept(p.events, {i \in DOMAIN p.events : p.events[i].cb = cb})
  IN  [i \in DOMAIN called |-> bytes.frame[called[i].at].body]

\* Mutant: a packet of another track is kept.
KeptPackets(packets, selected_track) == packets

\* tide_demux_add_packet drops the packets of other tracks; 0 selects them all.
SelectedPackets(packets, selected_track) ==
  Kept(packets, {i \in DOMAIN packets : selected_track \in {0, packets[i].track[1]}})

\* A source that ends inside a record is opened too, unless strict.
Opens(status, strict) == status = "OK" \/ (status = "PARTIAL" /\ ~strict)

\* The descriptors of a source that tide_add_track may fail to keep.
MayLose(bytes) ==
  IF AllocationsFail
  THEN SUBSET {o \in 0..(bytes.size - 1) : bytes.frame[o].type = "STREAM_DESC"}
  ELSE {{}}

\* Parse p passed over a descriptor.
Dropped(bytes, p) ==
  \E i \in DOMAIN p.events :
    /\ bytes.frame[p.events[i].at].type = "STREAM_DESC"
    /\ \A j \in DOMAIN p.events : p.events[j] # [cb |-> "stream", at |-> p.events[i].at]

\* tide_demux_open returns the status of parse p.
tide_demux_open(bytes, p, strict, selected_track) ==
  /\ ~demux.open
  /\ demux' = IF ~Opens(p.status, strict) THEN demux
              ELSE [open |-> TRUE, cursor |-> 0,
                    streams |-> Delivered(bytes, p, "stream"),
                    packets |-> SelectedPackets(Delivered(bytes, p, "packet"),
                                                selected_track)]

\* An allocation of its own failed, and it returns RESOURCE: what was copied before
\* is freed.
tide_demux_open_fails ==
  ~demux.open /\ AllocationsFail /\ UNCHANGED demux

\* The packet under the cursor moves to the caller.
AtEnd == demux.cursor >= Len(demux.packets)
tide_demux_next ==
  /\ demux.open /\ ~AtEnd
  /\ demux' = [demux EXCEPT !.cursor = @ + 1]
NextPacket == demux.packets[demux.cursor + 1]

\* Releases the packets that were not handed out.  Closing NULL does nothing.
tide_demux_close == demux' = NoDemux

=============================================================================
