--------------------------- MODULE WorkflowProofs ---------------------------
(****************************************************************************)
(* Proofs about whole jobs: where a job's steps lead, of which type its     *)
(* state is, that it frees what it opened, and how the records that a muxer *)
(* writes lie in a file and what they hold.                                 *)
(****************************************************************************)
EXTENDS Workflow, ParseProofs

------------------------------------------------------------------------------
(* Sizes *)

\* The size of a varint is a positive number: tide_uleb128_size ends.
LEMMA VarintSize ==
  ASSUME NEW v \in Nat
  PROVE  tide_uleb128_size[v] \in Nat /\ tide_uleb128_size[v] > 0
<1> DEFINE R == Nat \ {0}
           B == [f \in [Nat -> R] |->
                   [x \in Nat |-> IF x < VARINT_BASE THEN 1 ELSE 1 + f[x \div VARINT_BASE]]]
           M == [x \in Nat |-> x]
<1>1. \A x \in Nat : x >= VARINT_BASE => x \div VARINT_BASE \in Nat /\ x \div VARINT_BASE < x
  BY VarintAssumption
<1>2. B \in [[Nat -> R] -> [Nat -> R]]
  <2> SUFFICES ASSUME NEW f \in [Nat -> R], NEW x \in Nat
               PROVE  (IF x < VARINT_BASE THEN 1 ELSE 1 + f[x \div VARINT_BASE]) \in R
    OBVIOUS
  <2>1. CASE x < VARINT_BASE
    BY <2>1
  <2>2. CASE x >= VARINT_BASE
    BY <1>1, <2>2
  <2> QED BY <2>1, <2>2, VarintAssumption
<1>3. M \in [Nat -> Nat] /\ R # {}
  OBVIOUS
<1>4. Descends(B, M, Nat, R)
  <2> SUFFICES ASSUME NEW f \in [Nat -> R], NEW g \in [Nat -> R], NEW x \in Nat,
                      \A y \in Nat : M[y] < M[x] => f[y] = g[y]
               PROVE  B[f][x] = B[g][x]
    BY Zenon DEF Descends
  <2>1. x >= VARINT_BASE => f[x \div VARINT_BASE] = g[x \div VARINT_BASE]
    BY <1>1
  <2>2. (IF x < VARINT_BASE THEN 1 ELSE 1 + f[x \div VARINT_BASE])
          = (IF x < VARINT_BASE THEN 1 ELSE 1 + g[x \div VARINT_BASE])
    BY <2>1, VarintAssumption
  <2> QED BY <2>2
<1>5. PICK f \in [Nat -> R] : f = B[f]
  <2> HIDE DEF B, M, R
  <2>1. HasSolution(B, Nat, R)
    BY <1>2, <1>3, <1>4, RecursiveFunction, Zenon
  <2> QED BY <2>1 DEF HasSolution
<1>6. f = [x \in Nat |-> IF x < VARINT_BASE THEN 1 ELSE 1 + f[x \div VARINT_BASE]]
  BY <1>5
<1> DEFINE size == tide_uleb128_size
<1>7. size = [x \in Nat |-> IF x < VARINT_BASE THEN 1 ELSE 1 + size[x \div VARINT_BASE]]
  BY <1>6, Zenon DEF tide_uleb128_size
<1>8. \A x \in Nat : size[x] = IF x < VARINT_BASE THEN 1 ELSE 1 + size[x \div VARINT_BASE]
  <2> HIDE DEF size
  <2> QED BY <1>7
<1> DEFINE X == {x \in Nat : size[x] \notin R}
<1> SUFFICES ASSUME v \in X PROVE FALSE
  OBVIOUS
<1>9. PICK x \in X : \A y \in X : x <= y
  BY LeastNumber, Zenon
<1>10. x >= VARINT_BASE => size[x \div VARINT_BASE] \in R
  BY <1>1, <1>9
<1> HIDE DEF size
<1> QED BY <1>8, <1>9, <1>10, VarintAssumption

------------------------------------------------------------------------------
(* The control of a job *)

Location == {"idle", "source", "scan", "prefix", "demux", "create", "streams",
             "packets", "calls", "close", "finish"}

\* The muxer is open exactly between the calls that create and close it, and a reader
\* has none.
MuxOpenAt(l, command) ==
  l \in {"streams", "calls", "close"} \/ (l = "packets" /\ command # "read")

Control ==
  /\ job \in Jobs /\ pc \in Location
  /\ mux.open = MuxOpenAt(pc, job.command)
  /\ pc \in {"create", "streams", "calls", "close"} => job.command # "read"
  /\ pc = "idle" => ~demux.open /\ ~source.open

\* No call has happened and nothing is open.
LEMMA ControlInit ==
  Init => Control
<1> SUFFICES ASSUME Init PROVE Control
  OBVIOUS
<1>1. job \in Jobs
  BY WorkflowAssumption DEF Init, Jobs
<1> QED BY <1>1, Zenon DEF Init, Control, Location, MuxOpenAt, NoMux, NoDemux, NoSource

------------------------------------------------------------------------------
(* The types of the data *)

\* The descriptors and packets that can be met.
FoundAs(type) ==
  UNION {{Media[m].frame[o].body : o \in {o \in 0..Media[m].size : Media[m].frame[o].type = type}} :
         m \in DOMAIN Media}
StreamItems == Descriptors \cup FoundAs("STREAM_DESC")
PacketItems == Packets \cup FoundAs("PACKET")
Items == StreamItems \cup PacketItems

\* Those that a reader accepts in a record of the given type.
ItemTypes == {"STREAM_DESC", "PACKET"}
ItemsAs(type) == IF type = "STREAM_DESC" THEN StreamItems ELSE PacketItems
Readable(type) == {item \in ItemsAs(type) : ReadsAs(type, item)}

FooterBody == [layout: {TRUE}, file_length: Nat, index_directory_offset: {0}, digest: {TRUE}]

\* The records a muxer writes, with bodies of the given kind.
RecordsWith(types, bodies) ==
  [type: types, varints: {TRUE}, prefix_size: Nat, header_size: Nat,
   alignment_log2: {MUX_ALIGNMENT_LOG2}, payload_size: Nat, integrity: {"OK"},
   sequence: Nat, body: bodies]
ItemRecords == RecordsWith({"STREAM_DESC"}, Readable("STREAM_DESC"))
                 \cup RecordsWith({"PACKET"}, Readable("PACKET"))
FooterRecords == RecordsWith({"FOOTER"}, FooterBody)

Entries == [at: Nat, parts: 1..4, record: ItemRecords \cup FooterRecords]

Files == [media: DOMAIN Media \cup {"written", "absent"}, records: Seq(Entries),
          size: Nat, holds: Seq(Items)]

\* A file is a sample, was written or is not there.
IsFile(f) ==
  /\ f \in Files
  /\ f.media \in DOMAIN Media => f.size = Media[f.media].size
  /\ f.media = "absent" => f = NoFile

Muxers == [open: BOOLEAN, path: Path \cup {"none"}, write_footer: BOOLEAN, sequence: Nat,
           size: Nat, records: Seq(Entries)]

Demuxers == [open: BOOLEAN, streams: Seq(Readable("STREAM_DESC")),
             packets: Seq(Readable("PACKET")), cursor: Nat]

\* What the calls of a job have to know of the data they are given.
Typed ==
  /\ jobs \in 0..MAX_JOBS /\ calls \in 0..MAX_CALLS
  /\ status \in Status /\ returned \in Status
  /\ DOMAIN disk = Path /\ \A p \in Path : IsFile(disk[p])
  /\ mux \in Muxers /\ (mux.open => mux.path \in Path) /\ accepted \in Seq(Items)
  /\ demux \in Demuxers
  /\ source.open \in BOOLEAN /\ source = [open |-> source.open, file |-> source.file]
  /\ IsFile(source.file) /\ valid_prefix \in 0..source.file.size
  /\ pc \in {"scan", "prefix", "demux"} => source.file.media # "absent"
  /\ pc = "source" => valid_prefix = 0
  /\ index \in Nat /\ got \in Seq(Items)

\* What is known of an item, and of one that a reader accepts.
LEMMA ItemFields ==
  /\ \A item \in StreamItems : IsStreamInfo(item)
  /\ \A item \in PacketItems : IsPacketInfo(item)
  /\ \A item \in Items : item.bytes \in Nat /\ item.track \in Track
  /\ \A type \in ItemTypes : ItemsAs(type) \subseteq Items /\ Readable(type) \subseteq Items
<1>1. \A item \in StreamItems : IsStreamInfo(item)
  BY ItemsAssumption DEF StreamItems, FoundAs
<1>2. \A item \in PacketItems : IsPacketInfo(item)
  BY ItemsAssumption DEF PacketItems, FoundAs
<1>3. \A item \in Items : item.bytes \in Nat /\ item.track \in Track
  BY <1>1, <1>2 DEF Items, IsStreamInfo, IsPacketInfo
<1>4. \A type \in ItemTypes : ItemsAs(type) \subseteq Items /\ Readable(type) \subseteq Items
  BY DEF ItemTypes, ItemsAs, Readable, Items
<1> QED BY <1>1, <1>2, <1>3, <1>4

\* The records a muxer writes for items.
LEMMA ItemRecordFields ==
  ASSUME NEW r \in ItemRecords
  PROVE  /\ r.type \in ItemTypes /\ r.body \in Readable(r.type) /\ r.body \in Items
         /\ r \in RecordsWith(ItemTypes, Items)
<1>1. PICK type \in ItemTypes : r \in RecordsWith({type}, Readable(type))
  BY DEF ItemRecords, ItemTypes
<1>2. r.type = type /\ r.body \in Readable(type)
  BY <1>1 DEF RecordsWith
<1>3. r.body \in Items
  BY <1>1, <1>2, ItemFields
<1>4. r \in RecordsWith(ItemTypes, Items)
  BY <1>1, <1>2, <1>3, Zenon DEF RecordsWith
<1> QED BY <1>1, <1>2, <1>3, <1>4

\* A muxer lays out frames.
LEMMA RecordIsFrame ==
  ASSUME NEW r \in ItemRecords \cup FooterRecords
  PROVE  IsFrame(r) /\ IsFrame([r EXCEPT !.integrity = "INTEGRITY"])
<1> DEFINE t == [r EXCEPT !.integrity = "INTEGRITY"]
<1>1. r \in RecordsWith(ItemTypes, Items) \cup FooterRecords
  BY ItemRecordFields
<1>2. /\ r.type \in {"STREAM_DESC", "PACKET", "FOOTER"} /\ r.varints \in BOOLEAN
      /\ r.prefix_size \in Nat /\ r.header_size \in Nat /\ r.payload_size \in Nat
      /\ r.alignment_log2 = MUX_ALIGNMENT_LOG2 /\ r.integrity = "OK"
      /\ r.type = "STREAM_DESC" => r.body \in Items
  BY <1>1, Zenon DEF ItemTypes, FooterRecords, RecordsWith
<1>3. /\ t.type = r.type /\ t.varints = r.varints /\ t.prefix_size = r.prefix_size
      /\ t.header_size = r.header_size /\ t.alignment_log2 = r.alignment_log2
      /\ t.payload_size = r.payload_size /\ t.integrity = "INTEGRITY" /\ t.body = r.body
  BY <1>1 DEF ItemTypes, FooterRecords, RecordsWith
<1>4. r.type = "STREAM_DESC" => r.body.track \in Track
  BY <1>2, ItemFields
<1>5. MUX_ALIGNMENT_LOG2 \in Nat /\ {"STREAM_DESC", "PACKET", "FOOTER"} \subseteq RecordType
  BY MuxAssumption DEF RecordType, SimpleType
<1> HIDE DEF t
<1>6. IsFrame(r) /\ IsFrame(t)
  BY <1>2, <1>3, <1>4, <1>5 DEF IsFrame
<1> QED BY <1>6 DEF t

\* What is read where no record was written is a frame too.
LEMMA NoRecordIsFrame ==
  IsFrame(NoRecord) /\ NoRecord.type = "UNKNOWN"
<1>1. tide_uleb128_size[0] \in Nat
  BY VarintSize
<1> QED BY <1>1, MuxAssumption, SizesAssumption DEF NoRecord, Record, IsFrame, RecordType

\* The items in data are known.
HoldsItems(data) ==
  \A o \in 0..data.size : \A type \in ItemTypes :
    data.frame[o].type = type => data.frame[o].body \in ItemsAs(type)

\* The first n bytes of a file are a stream of frames, with the items in them.
LEMMA FileData ==
  ASSUME NEW f, IsFile(f), f.media # "absent", NEW n \in 0..f.size,
         NEW bytes, bytes = FileBytes([f EXCEPT !.size = n])
  PROVE  IsData(bytes) /\ bytes.size = n /\ HoldsItems(bytes)
<1> DEFINE g == [f EXCEPT !.size = n]
<1>1. /\ g.size = n /\ g.media = f.media /\ g.records = f.records /\ n \in Nat
      /\ f.records \in Seq(Entries) /\ f.size \in Nat
  BY DEF IsFile, Files
<1> HIDE DEF g
<1>2. CASE f.media = "written"
  <2>1. bytes.size = n /\ bytes.frame = [o \in 0..n |-> FrameAt(f.records, o)]
    BY <1>1, <1>2 DEF FileBytes, g
  <2>2. ASSUME NEW o \in 0..n
        PROVE  /\ IsFrame(FrameAt(f.records, o))
               /\ FrameAt(f.records, o).type \in ItemTypes =>
                    FrameAt(f.records, o).body \in ItemsAs(FrameAt(f.records, o).type)
    <3>1. CASE \E i \in DOMAIN f.records : f.records[i].at = o
      <4> DEFINE i == CHOOSE i \in DOMAIN f.records : f.records[i].at = o
      <4>1. i \in DOMAIN f.records
        BY <3>1, Zenon
      <4>2. FrameAt(f.records, o) = ReadBack(f.records[i])
        BY <3>1 DEF FrameAt
      <4> HIDE DEF i
      <4>3. f.records[i] \in Entries
        BY <1>1, <4>1
      <4>4. f.records[i].record \in ItemRecords \cup FooterRecords
        BY <4>3 DEF Entries
      <4> DEFINE r == f.records[i].record
      <4> HIDE DEF r
      <4>5. FrameAt(f.records, o) \in {r, [r EXCEPT !.integrity = "INTEGRITY"]}
        BY <4>2 DEF ReadBack, r
      <4>6. r.type \in ItemTypes => r.body \in ItemsAs(r.type)
        <5>1. ASSUME r \in FooterRecords PROVE r.type \notin ItemTypes
          BY <5>1 DEF FooterRecords, RecordsWith, ItemTypes
        <5>2. ASSUME r \in ItemRecords PROVE r.body \in ItemsAs(r.type)
          BY <5>2, ItemRecordFields DEF Readable
        <5> QED BY <4>4, <5>1, <5>2 DEF r
      <4>7. LET t == [r EXCEPT !.integrity = "INTEGRITY"]
            IN  t.type = r.type /\ t.body = r.body
        <5>1. r \in RecordsWith(ItemTypes, Items) \cup FooterRecords
          BY <4>4, ItemRecordFields DEF r
        <5> QED BY <5>1 DEF FooterRecords, RecordsWith
      <4>8. IsFrame(r) /\ IsFrame([r EXCEPT !.integrity = "INTEGRITY"])
        BY <4>4, RecordIsFrame DEF r
      <4> QED BY <4>5, <4>6, <4>7, <4>8, Zenon
    <3>2. CASE ~\E i \in DOMAIN f.records : f.records[i].at = o
      <4>1. FrameAt(f.records, o) = NoRecord
        BY <3>2 DEF FrameAt
      <4> QED BY <4>1, NoRecordIsFrame DEF ItemTypes
    <3> QED BY <3>1, <3>2
  <2>3. \A o \in 0..n : bytes.frame[o] = FrameAt(f.records, o)
    BY <2>1
  <2> QED BY <1>1, <2>1, <2>2, <2>3 DEF IsData, HoldsItems
<1>3. CASE f.media # "written"
  <2> DEFINE m == f.media
  <2>1. m \in DOMAIN Media
    BY <1>3 DEF IsFile, Files
  <2>2. f.size = Media[m].size
    BY <2>1 DEF IsFile
  <2>3. bytes.size = n /\ bytes.frame = Media[m].frame
    BY <1>1, <1>3 DEF FileBytes, g
  <2>4. \A o \in 0..n : o \in 0..Media[m].size
    BY <1>1, <2>2
  <2>5. \A o \in 0..n : IsFrame(Media[m].frame[o])
    BY <2>1, <2>4, MediaAssumption
  <2>6. \A o \in 0..n : \A type \in ItemTypes :
          Media[m].frame[o].type = type => Media[m].frame[o].body \in ItemsAs(type)
    BY <2>1, <2>4 DEF ItemTypes, ItemsAs, StreamItems, PacketItems, FoundAs
  <2> HIDE DEF m
  <2> QED BY <1>1, <2>3, <2>5, <2>6 DEF IsData, HoldsItems
<1> QED BY <1>2, <1>3

\* A whole stream, parsed.
LEMMA ParseTyped ==
  ASSUME NEW data, IsData(data), NEW lost
  PROVE  /\ ParseLosing(data, data.size, lost) \in Parsed
         /\ Sound(data, ParseLosing(data, data.size, lost))
<1> DEFINE n == data.size
           header == tide_validate_header(data.header, n)
           parsed == IF header # "OK" THEN [Unparsed(0) EXCEPT !.status = header]
                     ELSE ParseRecords(data, n, lost)
<1>1. n \in Nat
  BY DEF IsData
<1>2. header \in Status /\ (header = "OK" => TIDE_HEADER_SIZE <= n)
  BY <1>1, HeaderStatuses
<1> HIDE DEF header
<1>3. \A m \in 0..n : Unparsed(m) \in Parsed /\ Sound(data, Unparsed(m))
  <2> SUFFICES ASSUME NEW m \in 0..n PROVE Unparsed(m) \in Parsed /\ Sound(data, Unparsed(m))
    OBVIOUS
  <2>1. Unparsed(m) \in Parsed
    BY <1>1, EmptySeq DEF Unparsed, Parsed, Status
  <2>2. Unparsed(m).events = <<>> /\ Unparsed(m).valid_prefix = m /\ Len(<<>>) = 0
    BY DEF Unparsed
  <2> QED BY <1>1, <2>1, <2>2 DEF Sound
<1>4. parsed \in Parsed /\ Sound(data, parsed)
  <2>1. CASE header # "OK"
    <3>1. parsed = WithStatus(Unparsed(0), header)
      BY <2>1 DEF WithStatus
    <3>2. Unparsed(0) \in Parsed /\ Sound(data, Unparsed(0))
      BY <1>1, <1>3
    <3>3. parsed \in Parsed
      <4>1. ASSUME NEW p \in Parsed, NEW s \in Status PROVE WithStatus(p, s) \in Parsed
        BY Zenon DEF WithStatus, Parsed
      <4> QED BY <1>2, <3>1, <3>2, <4>1, Zenon
    <3>4. parsed.events = Unparsed(0).events /\ parsed.valid_prefix = Unparsed(0).valid_prefix
      BY <3>1 DEF WithStatus, Unparsed
    <3> HIDE DEF parsed
    <3> QED BY <3>2, <3>3, <3>4 DEF Sound
  <2>2. CASE header = "OK"
    <3> DEFINE a == [cursor |-> TIDE_HEADER_SIZE, end |-> n, depth |-> 0,
                     seen |-> Unparsed(TIDE_HEADER_SIZE)]
    <3>1. TIDE_HEADER_SIZE \in 0..n
      BY <1>1, <1>2, <2>2, SizesAssumption
    <3>2. a \in Calls(data) /\ Sound(data, a.seen)
      BY <1>1, <1>3, <3>1 DEF Calls
    <3>3. parsed = tide_parse_records(data, lost)[a]
      BY <2>2 DEF ParseRecords
    <3> HIDE DEF a, parsed
    <3> QED BY <3>2, <3>3, ParseUnfolds, ParseSound
  <2> QED BY <2>1, <2>2
<1> DEFINE p == ParseLosing(data, n, lost)
<1>5. p = IF parsed.status = "TRUNCATED" THEN WithStatus(parsed, "PARTIAL") ELSE parsed
  BY DEF ParseLosing, WithStatus, header
<1> HIDE DEF parsed, p
<1>6. "PARTIAL" \in Status
  BY DEF Status
<1>7. p \in Parsed
  BY <1>4, <1>5, <1>6, ParsedFields, Zenon DEF WithStatus
<1>8. p.events = parsed.events /\ p.valid_prefix = parsed.valid_prefix
  BY <1>4, <1>5 DEF WithStatus, Parsed
<1> QED BY <1>4, <1>7, <1>8 DEF Sound, p

\* What the callbacks deliver are items.
LEMMA DeliveredItems ==
  ASSUME NEW data, NEW p \in Parsed, Sound(data, p), HoldsItems(data)
  PROVE  /\ Delivered(data, p, "stream") \in Seq(Readable("STREAM_DESC"))
         /\ Delivered(data, p, "packet") \in Seq(Readable("PACKET"))
<1> DEFINE Right(cb, type) == \/ cb = "stream" /\ type = "STREAM_DESC"
                              \/ cb = "packet" /\ type = "PACKET"
<1>0. SUFFICES ASSUME NEW cb, NEW type, Right(cb, type)
               PROVE  Delivered(data, p, cb) \in Seq(Readable(type))
  <2>1. Right("stream", "STREAM_DESC") /\ Right("packet", "PACKET")
    OBVIOUS
  <2> HIDE DEF Right
  <2> QED BY <2>1
<1> DEFINE chosen == {i \in DOMAIN p.events : p.events[i].cb = cb}
           called == Kept(p.events, chosen)
           Q == {e \in EventsOf : EventSound(data, e) /\ e.cb = cb}
<1>1. p.events \in Seq(EventsOf)
  BY ParsedFields, Zenon
<1>2. \A i \in 1..Len(p.events) : i \in chosen => p.events[i] \in Q
  BY <1>1 DEF Sound
<1>3. called \in Seq(Q)
  <2> HIDE DEF chosen, Q
  <2> QED BY <1>1, <1>2, KeptChosen
<1>4. \A e \in Q : data.frame[e.at].body \in Readable(type)
  BY <1>0 DEF EventSound, HoldsItems, Readable, ItemTypes
<1>5. Delivered(data, p, cb) = [i \in DOMAIN called |-> data.frame[called[i].at].body]
  BY DEF Delivered
<1> HIDE DEF called, Q
<1>6. Len(called) \in Nat /\ DOMAIN called = 1..Len(called)
      /\ \A i \in 1..Len(called) : called[i] \in Q
  BY <1>3, ElementOfSeq, LenProperties
<1>7. Delivered(data, p, cb) \in [1..Len(called) -> Readable(type)]
  BY <1>4, <1>5, <1>6
<1> QED BY <1>6, <1>7

\* Opening a demuxer on the first n bytes of a file.
LEMMA DemuxTyped ==
  ASSUME NEW f, IsFile(f), f.media # "absent", NEW n \in 0..f.size,
         NEW bytes, bytes = FileBytes([f EXCEPT !.size = n]), NEW lost, NEW p,
         p = ParseLosing(bytes, bytes.size, lost), demux \in Demuxers,
         NEW strict, NEW selected, tide_demux_open(bytes, p, strict, selected)
  PROVE  p \in Parsed /\ p.valid_prefix <= n /\ demux' \in Demuxers
<1>1. IsData(bytes) /\ bytes.size = n /\ HoldsItems(bytes)
  BY FileData
<1>2. p \in Parsed /\ Sound(bytes, p)
  BY <1>1, ParseTyped
<1> DEFINE streams == Delivered(bytes, p, "stream")
           all == Delivered(bytes, p, "packet")
           packets == SelectedPackets(all, selected)
<1>3. streams \in Seq(Readable("STREAM_DESC")) /\ all \in Seq(Readable("PACKET"))
  BY <1>1, <1>2, DeliveredItems
<1>4. packets \in Seq(Readable("PACKET"))
  <2> HIDE DEF all
  <2> QED BY <1>3, KeptSeq DEF SelectedPackets
<1> HIDE DEF streams, packets, all
<1>5. demux' = demux \/ demux' = [open |-> TRUE, cursor |-> 0, streams |-> streams,
                                 packets |-> packets]
  BY DEF tide_demux_open, streams, all, packets
<1>6. demux' \in Demuxers
  <2>1. [open |-> TRUE, cursor |-> 0, streams |-> streams, packets |-> packets] \in Demuxers
    BY <1>3, <1>4 DEF Demuxers
  <2> QED BY <1>5, <2>1, Zenon
<1> QED BY <1>1, <1>2, <1>6 DEF Sound

------------------------------------------------------------------------------
(* The calls of the muxer *)

\* What tide_write_record lays out, and where its parts end.
LEMMA RecordLaidOut ==
  ASSUME NEW type, NEW sequence \in Nat, NEW n \in Nat, NEW body, NEW r,
         r = Record(type, sequence, n, body)
  PROVE  /\ r.type = type /\ r.sequence = sequence /\ r.payload_size = n /\ r.body = body
         /\ r.header_size \in Nat \ {0} /\ r.header_size = r.prefix_size
         /\ \A types, bodies : type \in types /\ body \in bodies =>
                               r \in RecordsWith(types, bodies)
<1>1. /\ tide_uleb128_size[n] \in Nat /\ tide_uleb128_size[n] > 0
      /\ tide_uleb128_size[sequence] \in Nat
  BY VarintSize
<1> DEFINE h == RECORD_FIXED_SIZE + tide_uleb128_size[n] + tide_uleb128_size[sequence]
<1>2. h \in Nat \ {0}
  BY <1>1, SizesAssumption
<1>3. r = [type |-> type, varints |-> TRUE, prefix_size |-> h, header_size |-> h,
           alignment_log2 |-> MUX_ALIGNMENT_LOG2, payload_size |-> n, integrity |-> "OK",
           sequence |-> sequence, body |-> body]
  BY DEF Record
<1> HIDE DEF h
<1> QED BY <1>2, <1>3 DEF RecordsWith

\* Where the parts of a record end.
LEMMA PartsEnd ==
  ASSUME NEW r \in ItemRecords \cup FooterRecords
  PROVE  /\ Extent(r, 0) = 0 /\ Extent(r, 1) = r.header_size
         /\ Extent(r, 2) = r.header_size + r.payload_size
         /\ Extent(r, 4) = CrcEnd(r, 0)
         /\ \A k \in 0..4 : Extent(r, k) \in Nat
         /\ \A k \in 0..3 : Extent(r, k) <= Extent(r, k + 1)
         /\ Extent(r, 3) < Extent(r, 4)
<1>1. r.header_size \in Nat /\ r.payload_size \in Nat /\ r.alignment_log2 = MUX_ALIGNMENT_LOG2
  <2>1. r \in RecordsWith(ItemTypes, Items) \cup FooterRecords
    BY ItemRecordFields
  <2> QED BY <2>1, Zenon DEF FooterRecords, RecordsWith
<1>2. Alignment(r) \in {1, 2, 4, 8, 16}
  BY <1>1, MuxAssumption DEF Alignment, Pow2
<1> DEFINE u == UnpaddedSize(r)
           v == tide_align_u64(u, Alignment(r))
<1>3. u \in Nat /\ u = r.header_size + r.payload_size
  BY <1>1 DEF UnpaddedSize
<1>4. v \in Nat /\ u <= v
  <2> HIDE DEF u
  <2> QED BY <1>2, <1>3, AlignAbove, Zenon
<1>5. PaddingEnd(r, 0) = v /\ CrcEnd(r, 0) = v + RECORD_CRC_SIZE
  <2>1. PaddingEnd(r, 0) = 0 + v /\ CrcEnd(r, 0) = PaddingEnd(r, 0) + RECORD_CRC_SIZE
    BY DEF PaddingEnd, CrcEnd
  <2> HIDE DEF v
  <2> QED BY <1>4, <2>1
<1> HIDE DEF v
<1>6. PartEnds(r) = <<r.header_size, u, v, v + RECORD_CRC_SIZE>>
  BY <1>5 DEF PartEnds
<1> HIDE DEF u
<1>7. /\ Extent(r, 0) = 0 /\ Extent(r, 1) = r.header_size /\ Extent(r, 2) = u
      /\ Extent(r, 3) = v /\ Extent(r, 4) = v + RECORD_CRC_SIZE
  BY <1>6 DEF Extent
<1>8. \A k \in 0..4 : k = 0 \/ k = 1 \/ k = 2 \/ k = 3 \/ k = 4
  OBVIOUS
<1>9. \A k \in 0..4 : Extent(r, k) \in Nat
  BY <1>1, <1>3, <1>4, <1>7, <1>8, SizesAssumption
<1>10. \A k \in 0..3 : Extent(r, k) <= Extent(r, k + 1)
  <2>1. \A k \in 0..3 : k = 0 \/ k = 1 \/ k = 2 \/ k = 3
    OBVIOUS
  <2>2. /\ Extent(r, 0) <= Extent(r, 0 + 1) /\ Extent(r, 1) <= Extent(r, 1 + 1)
        /\ Extent(r, 2) <= Extent(r, 2 + 1) /\ Extent(r, 3) <= Extent(r, 3 + 1)
    BY <1>1, <1>3, <1>4, <1>7, SizesAssumption
  <2> QED BY <2>1, <2>2
<1> QED BY <1>3, <1>4, <1>5, <1>7, <1>9, <1>10, SizesAssumption

\* The muxer once k parts of r are in its buffer.
RecordAdded(m, r, k) ==
  /\ m \in Muxers /\ m.open = mux.open /\ m.path = mux.path
  /\ m.write_footer = mux.write_footer
  /\ m.sequence = mux.sequence + 1 /\ m.size = mux.size + Extent(r, k)
  /\ k = 0 => m.records = mux.records
  /\ k # 0 => m.records = Append(mux.records, [at |-> mux.size, parts |-> k, record |-> r])

\* This is what WithRecord makes of it.
LEMMA WithRecordTyped ==
  ASSUME mux \in Muxers, NEW r \in ItemRecords \cup FooterRecords, NEW k \in 0..4,
         NEW m, m = WithRecord(r, k)
  PROVE  RecordAdded(m, r, k)
<1>1. /\ mux.sequence \in Nat /\ mux.size \in Nat /\ mux.records \in Seq(Entries)
      /\ Extent(r, k) \in Nat
  BY PartsEnd DEF Muxers
<1> DEFINE e == [at |-> mux.size, parts |-> k, record |-> r]
           rs == IF k = 0 THEN mux.records ELSE Append(mux.records, e)
           x == Extent(r, k)
<1>2. k # 0 => e \in Entries
  BY <1>1 DEF Entries
<1>3. rs \in Seq(Entries)
  <2> HIDE DEF e
  <2> QED BY <1>1, <1>2, AppendProperties, Zenon
<1>4. m = [mux EXCEPT !.sequence = mux.sequence + 1, !.size = mux.size + x, !.records = rs]
  BY DEF WithRecord
<1> DEFINE q == mux.sequence + 1
           z == mux.size + x
<1>5. q \in Nat /\ z \in Nat
  BY <1>1
<1> HIDE DEF rs, x, q, z
<1>6. /\ m.open = mux.open /\ m.path = mux.path /\ m.write_footer = mux.write_footer
      /\ m.sequence = q /\ m.size = z /\ m.records = rs
  BY <1>4 DEF Muxers, q, z
<1>7. m \in Muxers
  BY <1>3, <1>4, <1>5, Zenon DEF Muxers, q, z
<1> QED BY <1>6, <1>7 DEF RecordAdded, rs, x, q, z

\* tide_mux_add_stream and tide_mux_write_packet refuse an item or write it in a
\* record of the given type.
ItemCall(type, item) ==
  /\ \/ InvalidItem
     \/ item \in Readable(type) /\ \E n \in Nat : WriteItem(type, item, n)
  /\ UNCHANGED disk

\* What they are passed is laid out as they need it.
Passed(type, item) == type \in ItemTypes /\ item \in ItemsAs(type) /\ item.layout

\* The calls of the muxer are such calls.
LEMMA CallsWriteItems ==
  ASSUME NEW item
  PROVE  /\ tide_mux_add_stream(item) /\ Passed("STREAM_DESC", item) =>
              mux.open /\ ItemCall("STREAM_DESC", item)
         /\ tide_mux_write_packet(item) /\ Passed("PACKET", item) =>
              mux.open /\ ItemCall("PACKET", item)
<1>1. ASSUME tide_mux_add_stream(item), Passed("STREAM_DESC", item)
      PROVE  mux.open /\ ItemCall("STREAM_DESC", item)
  <2>1. item \in StreamItems /\ item.layout
    BY <1>1 DEF Passed, ItemsAs
  <2>2. IsStreamInfo(item)
    BY <2>1, ItemFields
  <2>3. StreamPayloadSize(item) \in Nat
    BY <2>2, VarintSize, MuxAssumption DEF StreamPayloadSize, IsStreamInfo
  <2>4. mux.open /\ UNCHANGED disk
    BY <1>1 DEF tide_mux_add_stream
  <2>5. \/ InvalidItem
        \/ item.time_base_valid /\ WriteItem("STREAM_DESC", item, StreamPayloadSize(item))
    BY <1>1 DEF tide_mux_add_stream
  <2>6. item.time_base_valid => item \in Readable("STREAM_DESC")
    BY <2>1, <2>2 DEF Readable, ItemsAs, ReadsAs, StreamDescStatus, IsStreamInfo
  <2> QED BY <2>3, <2>4, <2>5, <2>6, Zenon DEF ItemCall
<1>2. ASSUME tide_mux_write_packet(item), Passed("PACKET", item)
      PROVE  mux.open /\ ItemCall("PACKET", item)
  <2>1. item \in PacketItems /\ item.layout
    BY <1>2 DEF Passed, ItemsAs
  <2>2. IsPacketInfo(item)
    BY <2>1, ItemFields
  <2>3. PacketPayloadSize(item) \in Nat
    BY <2>2, VarintSize, MuxAssumption DEF PacketPayloadSize, IsPacketInfo
  <2>4. mux.open /\ UNCHANGED disk
    BY <1>2 DEF tide_mux_write_packet
  <2>5. \/ InvalidItem
        \/ item.duration >= 0 /\ WriteItem("PACKET", item, PacketPayloadSize(item))
    BY <1>2 DEF tide_mux_write_packet
  <2>6. item.duration >= 0 => item \in Readable("PACKET")
    BY <2>1, <2>2 DEF Readable, ItemsAs, ReadsAs, IsPacketInfo
  <2> QED BY <2>3, <2>4, <2>5, <2>6, Zenon DEF ItemCall
<1> QED BY <1>1, <1>2

\* An item that was read may be passed on.
LEMMA ReadableItems ==
  ASSUME NEW type \in ItemTypes, NEW item \in Readable(type)
  PROVE  item \in Items /\ Passed(type, item)
<1>1. item \in ItemsAs(type) /\ item \in Items
  BY ItemFields DEF Readable
<1>2. item.layout
  BY DEF Readable, ReadsAs, StreamDescStatus, ItemTypes
<1> QED BY <1>1, <1>2 DEF Passed

\* So may what the caller of a "write" job has.
LEMMA WriteCallItem ==
  ASSUME WriteCall
  PROVE  \E type \in ItemTypes, item \in Items :
           mux.open /\ Passed(type, item) /\ ItemCall(type, item)
<1>1. CASE \E s \in Descriptors : tide_mux_add_stream(s)
  <2>1. PICK s \in Descriptors : tide_mux_add_stream(s)
    BY <1>1
  <2>2. Passed("STREAM_DESC", s) /\ s \in Items
    BY ItemsAssumption DEF Passed, ItemTypes, ItemsAs, StreamItems, Items
  <2>3. mux.open /\ ItemCall("STREAM_DESC", s)
    BY <2>1, <2>2, CallsWriteItems, Zenon
  <2> QED BY <2>2, <2>3 DEF Passed
<1>2. CASE \E p \in Packets : tide_mux_write_packet(p)
  <2>1. PICK p \in Packets : tide_mux_write_packet(p)
    BY <1>2
  <2>2. Passed("PACKET", p) /\ p \in Items
    BY ItemsAssumption DEF Passed, ItemTypes, ItemsAs, PacketItems, Items
  <2>3. mux.open /\ ItemCall("PACKET", p)
    BY <2>1, <2>2, CallsWriteItems, Zenon
  <2> QED BY <2>2, <2>3, Zenon DEF Passed
<1> QED BY <1>1, <1>2 DEF WriteCall

\* k parts of a record with the item are appended.
ItemAppended(type, item, r, k) ==
  /\ r \in ItemRecords /\ r = Record(type, mux.sequence, r.payload_size, item)
  /\ r.type = type /\ r.sequence = mux.sequence /\ r.body = item
  /\ WithinLimit(0, r.payload_size, limits.max_single_alloc)
  /\ k \in tide_write_record(r, mux.size, limits.max_aggregate_alloc)
  /\ k \in 0..4 /\ mux' = WithRecord(r, k)
  /\ returned' = IF k = 4 THEN "OK" ELSE "RESOURCE"
  /\ accepted' = IF k = 4 THEN Append(accepted, item) ELSE accepted

\* What such a call does: nothing, or it appends some of a record.
LEMMA ItemCallEffect ==
  ASSUME mux \in Muxers, NEW type \in ItemTypes, NEW item, ItemCall(type, item)
  PROVE  /\ disk' = disk
         /\ \/ /\ mux' = mux /\ accepted' = accepted
               /\ returned' \in {"INVALID_ARGUMENT", "RESOURCE"}
            \/ \E r, k : ItemAppended(type, item, r, k)
<1>1. disk' = disk
  BY DEF ItemCall
<1>2. CASE InvalidItem
  BY <1>1, <1>2, Zenon DEF InvalidItem
<1>3. ASSUME NEW n \in Nat, item \in Readable(type), WriteItem(type, item, n)
      PROVE  \/ /\ mux' = mux /\ accepted' = accepted /\ returned' = "RESOURCE"
             \/ \E r, k : ItemAppended(type, item, r, k)
  <2> DEFINE r == Record(type, mux.sequence, n, item)
  <2>1. mux.sequence \in Nat
    BY DEF Muxers
  <2>2. r \in RecordsWith({type}, Readable(type)) /\ r.type = type /\ r.payload_size = n
        /\ r.sequence = mux.sequence /\ r.body = item
    BY <1>3, <2>1, RecordLaidOut
  <2>3. r = Record(type, mux.sequence, r.payload_size, item)
    BY <2>2
  <2>4. \/ /\ mux' = mux /\ accepted' = accepted /\ returned' = "RESOURCE"
        \/ /\ WithinLimit(0, n, limits.max_single_alloc)
           /\ \E k \in tide_write_record(r, mux.size, limits.max_aggregate_alloc) :
                /\ mux' = WithRecord(r, k)
                /\ returned' = IF k = 4 THEN "OK" ELSE "RESOURCE"
                /\ accepted' = IF k = 4 THEN Append(accepted, item) ELSE accepted
    BY <1>3 DEF WriteItem
  <2> HIDE DEF r
  <2>5. tide_write_record(r, mux.size, limits.max_aggregate_alloc) \subseteq 0..4
    BY DEF tide_write_record
  <2>6. r \in ItemRecords
    BY <2>2 DEF ItemRecords, ItemTypes
  <2> QED BY <2>2, <2>3, <2>4, <2>5, <2>6 DEF ItemAppended
<1> QED BY <1>1, <1>2, <1>3, Zenon DEF ItemCall

\* Such a call keeps the muxer's types.
LEMMA ItemCallTyped ==
  ASSUME mux \in Muxers, accepted \in Seq(Items), NEW type \in ItemTypes, NEW item \in Items,
         ItemCall(type, item)
  PROVE  /\ mux' \in Muxers /\ mux'.open = mux.open /\ mux'.path = mux.path
         /\ accepted' \in Seq(Items) /\ returned' \in Status /\ disk' = disk
<1>1. disk' = disk
  BY ItemCallEffect
<1>2. ASSUME NEW r, NEW k, ItemAppended(type, item, r, k)
      PROVE  /\ mux' \in Muxers /\ mux'.open = mux.open /\ mux'.path = mux.path
             /\ accepted' \in Seq(Items) /\ returned' \in Status
  <2>1. r \in ItemRecords /\ k \in 0..4 /\ mux' = WithRecord(r, k)
    BY <1>2 DEF ItemAppended
  <2>2. mux' \in Muxers /\ mux'.open = mux.open /\ mux'.path = mux.path
    BY <2>1, WithRecordTyped, Zenon DEF RecordAdded
  <2>3. accepted' = accepted \/ accepted' = Append(accepted, item)
    BY <1>2 DEF ItemAppended
  <2>4. Append(accepted, item) \in Seq(Items)
    BY AppendProperties
  <2>5. returned' \in {"OK", "RESOURCE"}
    BY <1>2 DEF ItemAppended
  <2> QED BY <2>2, <2>3, <2>4, <2>5, Zenon DEF Status
<1>3. CASE mux' = mux /\ accepted' = accepted /\ returned' \in {"INVALID_ARGUMENT", "RESOURCE"}
  BY <1>1, <1>3 DEF Status
<1> QED BY <1>1, <1>2, <1>3, ItemCallEffect

\* The footer is a record, and a finished file is the muxer's with one or none.
LEMMA FooterTyped ==
  ASSUME mux \in Muxers
  PROVE  /\ FinalLength \in Nat /\ FooterRecord \in FooterRecords
         /\ FooterRecord.sequence = mux.sequence
         /\ FooterRecord = Record("FOOTER", mux.sequence, FOOTER_PAYLOAD_SIZE, FooterRecord.body)
         /\ FooterRecord.body.file_length = FinalLength
         /\ FinalLength = mux.size + Extent(FooterRecord, 4)
<1> DEFINE trial == Record("FOOTER", mux.sequence, FOOTER_PAYLOAD_SIZE, <<>>)
           b == [layout |-> TRUE, file_length |-> FinalLength, index_directory_offset |-> 0,
                 digest |-> TRUE]
           r == Record("FOOTER", mux.sequence, FOOTER_PAYLOAD_SIZE, b)
<1>1. mux.sequence \in Nat /\ mux.size \in Nat /\ FOOTER_PAYLOAD_SIZE \in Nat
  BY MuxAssumption, Zenon DEF Muxers
<1>2. CrcEnd(trial, 0) = CrcEnd(r, 0)
  BY DEF Record, CrcEnd, PaddingEnd, UnpaddedSize, Alignment
<1>3. \A bodies : b \in bodies => r \in RecordsWith({"FOOTER"}, bodies)
  <2> HIDE DEF b
  <2> QED BY <1>1, RecordLaidOut
<1>4. r.sequence = mux.sequence /\ r.body = b
  <2> HIDE DEF b
  <2> QED BY <1>1, RecordLaidOut
<1>5. FooterRecord = r
  BY Zenon DEF FooterRecord
<1>6. FinalLength = mux.size + CrcEnd(r, 0)
  BY <1>2 DEF FinalLength
<1>7. CrcEnd(r, 0) \in Nat
  <2>1. r.header_size \in Nat /\ r.payload_size \in Nat /\ r.alignment_log2 = MUX_ALIGNMENT_LOG2
    <3>1. r \in RecordsWith({"FOOTER"}, {b})
      BY <1>3, Zenon
    <3> HIDE DEF r
    <3> QED BY <3>1 DEF RecordsWith
  <2> HIDE DEF r
  <2>2. Alignment(r) \in {1, 2, 4, 8, 16} /\ UnpaddedSize(r) \in Nat
    BY <2>1, MuxAssumption DEF Alignment, Pow2, UnpaddedSize
  <2>3. tide_align_u64(UnpaddedSize(r), Alignment(r)) \in Nat
    BY <2>2, AlignAbove, Zenon
  <2> QED BY <2>3, SizesAssumption DEF CrcEnd, PaddingEnd
<1>8. FinalLength \in Nat
  <2> HIDE DEF r
  <2> QED BY <1>1, <1>6, <1>7
<1>9. b \in FooterBody
  BY <1>8 DEF FooterBody
<1>10. r \in FooterRecords
  <2> HIDE DEF r, b
  <2> QED BY <1>3, <1>9 DEF FooterRecords
<1>11. Extent(r, 4) = CrcEnd(r, 0)
  <2> HIDE DEF r
  <2> QED BY <1>10, PartsEnd
<1>12. b.file_length = FinalLength
  OBVIOUS
<1> HIDE DEF b
<1>13. FooterRecord = Record("FOOTER", mux.sequence, FOOTER_PAYLOAD_SIZE, FooterRecord.body)
  BY <1>4, <1>5
<1> HIDE DEF r
<1> QED BY <1>4, <1>5, <1>6, <1>8, <1>10, <1>11, <1>12, <1>13, Zenon

\* What tide_mux_close hands to fwrite.
LEMMA FinishedTyped ==
  ASSUME mux \in Muxers
  PROVE  Finished \in Muxers /\ Finished.path = mux.path
<1>1. FooterRecord \in ItemRecords \cup FooterRecords
  BY FooterTyped
<1>2. PICK r, k, m : r = FooterRecord /\ k = 4 /\ m = WithRecord(r, k)
  BY Zenon
<1>3. r \in ItemRecords \cup FooterRecords /\ k \in 0..4
  BY <1>1, <1>2
<1>4. m \in Muxers /\ m.path = mux.path
  BY <1>2, <1>3, WithRecordTyped, Zenon DEF RecordAdded
<1> QED BY <1>2, <1>4, Zenon DEF Finished

\* A file is written to disk.
LEMMA FlushedTyped ==
  ASSUME DOMAIN disk = Path, \A p \in Path : IsFile(disk[p]), mux \in Muxers,
         mux.path \in Path, accepted \in Seq(Items), NEW n \in Nat, Flushed(Finished, n)
  PROVE  /\ DOMAIN disk' = Path /\ \A p \in Path : IsFile(disk'[p])
         /\ disk'[mux.path] = WrittenFile(Finished.records, n, accepted)
         /\ \A p \in Path \ {mux.path} : disk'[p] = disk[p]
<1> DEFINE w == WrittenFile(Finished.records, n, accepted)
<1>1. Finished \in Muxers /\ Finished.path = mux.path
  BY FinishedTyped
<1>2. IsFile(w)
  <2>1. Finished.records \in Seq(Entries)
    BY <1>1 DEF Muxers
  <2>2. w \in Files /\ w.media = "written"
    BY <2>1, Zenon DEF WrittenFile, Files
  <2> HIDE DEF w
  <2> QED BY <2>2, ItemsAssumption DEF IsFile
<1>3. disk' = [disk EXCEPT ![mux.path] = w]
  BY <1>1 DEF Flushed
<1> HIDE DEF w
<1>4. /\ DOMAIN disk' = Path /\ disk'[mux.path] = w
      /\ \A p \in Path \ {mux.path} : disk'[p] = disk[p]
  BY <1>3
<1> QED BY <1>2, <1>4 DEF w

\* A file is truncated.
LEMMA TruncatedTyped ==
  ASSUME DOMAIN disk = Path, \A p \in Path : IsFile(disk[p]), NEW path \in Path,
         Truncated(path)
  PROVE  /\ DOMAIN disk' = Path /\ \A p \in Path : IsFile(disk'[p])
         /\ disk'[path] = WrittenFile(<<>>, 0, <<>>)
         /\ \A p \in Path \ {path} : disk'[p] = disk[p]
<1> DEFINE w == WrittenFile(<<>>, 0, <<>>)
<1>1. w \in Files /\ w.media = "written"
  BY EmptySeq DEF WrittenFile, Files
<1>2. disk' = [disk EXCEPT ![path] = w]
  BY DEF Truncated
<1> HIDE DEF w
<1>3. IsFile(w)
  BY <1>1, ItemsAssumption DEF IsFile
<1>4. /\ DOMAIN disk' = Path /\ disk'[path] = w
      /\ \A p \in Path \ {path} : disk'[p] = disk[p]
  BY <1>2
<1> QED BY <1>3, <1>4 DEF w

------------------------------------------------------------------------------
(* Control and types are kept by every step *)

Sane == Control /\ Typed

\* The types are right at first.
LEMMA TypedInit ==
  Init => Typed
<1> SUFFICES ASSUME Init PROVE Typed
  OBVIOUS
<1>1. IsFile(NoFile)
  BY EmptySeq, ItemsAssumption DEF NoFile, IsFile, Files
<1>2. ASSUME NEW m \in DOMAIN Media PROVE IsFile(Sample(m))
  <2>1. Media[m].size \in Nat
    BY MediaAssumption
  <2>2. /\ Sample(m).media = m /\ Sample(m).records = <<>> /\ Sample(m).size = Media[m].size
        /\ Sample(m).holds = <<>>
        /\ Sample(m) = [media |-> m, records |-> <<>>, size |-> Media[m].size, holds |-> <<>>]
    <3>1. PICK n, e : n = Media[m].size /\ e = <<>>
      OBVIOUS
    <3>2. NoFile = [media |-> "absent", records |-> e, size |-> 0, holds |-> e]
      BY <3>1 DEF NoFile
    <3>3. Sample(m) = [[media |-> "absent", records |-> e, size |-> 0, holds |-> e]
                         EXCEPT !.media = m, !.size = n]
      BY <3>1, <3>2 DEF Sample
    <3>4. Sample(m) = [media |-> m, records |-> e, size |-> n, holds |-> e]
      BY <3>3, Zenon
    <3> QED BY <3>1, <3>4
  <2> QED BY <2>1, <2>2, EmptySeq, ItemsAssumption, Zenon DEF IsFile, Files
<1>3. PICK file \in {Sample(m) : m \in DOMAIN Media} \cup {NoFile} :
        disk = [p \in Path |-> IF p = INPUT THEN file ELSE NoFile]
  BY DEF Init
<1>4. IsFile(file)
  BY <1>1, <1>2
<1>5. DOMAIN disk = Path /\ \A p \in Path : IsFile(disk[p])
  BY <1>1, <1>3, <1>4, Zenon
<1>6. NoMux \in Muxers /\ NoDemux \in Demuxers /\ ~NoMux.open
  BY EmptySeq DEF NoMux, NoDemux, Muxers, Demuxers
<1>7. /\ source = [open |-> FALSE, file |-> NoFile] /\ NoFile.size = 0
      /\ valid_prefix \in 0..source.file.size
  BY DEF Init, NoSource, NoFile
<1>8. /\ jobs \in 0..MAX_JOBS /\ calls \in 0..MAX_CALLS /\ status \in Status
      /\ returned \in Status /\ index \in Nat
  BY WorkflowAssumption DEF Init, Status
<1>9. mux \in Muxers /\ ~mux.open /\ demux \in Demuxers /\ accepted \in Seq(Items)
      /\ got \in Seq(Items) /\ pc = "idle"
  BY <1>6, EmptySeq DEF Init
<1> QED BY <1>1, <1>5, <1>7, <1>8, <1>9, Zenon DEF Typed

\* A job starts.
LEMMA SaneStart ==
  ASSUME Sane, NEW j \in Jobs, Start(j)
  PROVE  Sane'
<1>1. /\ pc = "idle" /\ jobs < MAX_JOBS /\ job' = j /\ jobs' = jobs + 1
      /\ pc' = IF j.command = "write" THEN "create" ELSE "source"
      /\ source' = NoSource /\ valid_prefix' = 0 /\ index' = 0 /\ calls' = 0
      /\ status' = "OK" /\ got' = <<>> /\ returned' = "OK" /\ accepted' = <<>>
      /\ disk' = disk /\ mux' = mux /\ demux' = demux
  BY DEF Start
<1>2. Control'
  BY <1>1, Zenon DEF Sane, Control, Location, MuxOpenAt
<1>3. IsFile(NoFile)
  BY EmptySeq, ItemsAssumption DEF NoFile, IsFile, Files
<1>4. /\ source' = [open |-> FALSE, file |-> NoFile] /\ NoFile.size = 0
      /\ valid_prefix' \in 0..source'.file.size
  BY <1>1 DEF NoSource, NoFile
<1>5. jobs' \in 0..MAX_JOBS /\ calls' \in 0..MAX_CALLS /\ index' \in Nat
  BY <1>1, WorkflowAssumption DEF Sane, Typed
<1>6. status' \in Status /\ returned' \in Status
  BY <1>1 DEF Status
<1>7. accepted' \in Seq(Items) /\ got' \in Seq(Items) /\ pc' \in {"create", "source"}
  BY <1>1, EmptySeq, Zenon
<1>8. Typed'
  BY <1>1, <1>3, <1>4, <1>5, <1>6, <1>7 DEF Sane, Typed
<1> QED BY <1>2, <1>8 DEF Sane

\* A call that leaves the files and the muxer alone.
LEMMA SaneGoes ==
  ASSUME Sane, NEW l \in Location \ {"idle", "source"}, NEW s \in Status, Goes(l, s),
         UNCHANGED muxVars, mux.open = MuxOpenAt(l, job.command),
         l \in {"create", "streams", "calls", "close"} => job.command # "read",
         calls' \in 0..MAX_CALLS, demux' \in Demuxers, got' \in Seq(Items), index' \in Nat,
         source'.open \in BOOLEAN, source' = [open |-> source'.open, file |-> source'.file],
         IsFile(source'.file), valid_prefix' \in 0..source'.file.size,
         l \in {"scan", "prefix", "demux"} => source'.file.media # "absent"
  PROVE  Sane'
<1>1. Control'
  BY DEF Sane, Control, Goes, muxVars
<1>2. Typed'
  BY DEF Sane, Typed, Goes, muxVars
<1> QED BY <1>1, <1>2 DEF Sane

\* It opens its source,
LEMMA SaneSource ==
  ASSUME Sane, tide_source_from_file
  PROVE  Sane'
<1>1. /\ pc = "source" /\ AfterSource \in {"scan", "demux"}
      /\ UNCHANGED muxVars /\ demux' = demux /\ calls' = calls
      /\ valid_prefix' = valid_prefix /\ index' = index /\ got' = got
  BY Zenon DEF tide_source_from_file, AfterSource
<1>2. ~mux.open /\ job \in Jobs
  BY <1>1, Zenon DEF Sane, Control, MuxOpenAt
<1>3. /\ calls' \in 0..MAX_CALLS /\ demux' \in Demuxers /\ got' \in Seq(Items)
      /\ index' \in Nat /\ IsFile(source.file) /\ valid_prefix' \in 0..source.file.size
      /\ valid_prefix' = 0
      /\ source.open \in BOOLEAN /\ source = [open |-> source.open, file |-> source.file]
  BY <1>1 DEF Sane, Typed
<1>4. /\ \A l \in {"scan", "demux", "finish"} :
           /\ l \in Location \ {"idle", "source"} /\ mux.open = MuxOpenAt(l, job.command)
           /\ l \notin {"create", "streams", "calls", "close"}
      /\ {"OK", "IO", "RESOURCE"} \subseteq Status
  BY <1>2 DEF Location, MuxOpenAt, Status, Muxers, Sane, Typed
<1>5. CASE /\ disk[job.in] # NoFile /\ source' = [open |-> TRUE, file |-> disk[job.in]]
           /\ Goes(AfterSource, "OK")
  <2>1. IsFile(disk[job.in])
    BY <1>2, WorkflowAssumption, Zenon DEF Sane, Typed, Job
  <2>2. disk[job.in].media # "absent"
    BY <1>5, <2>1, Zenon DEF IsFile
  <2>3. disk[job.in].size \in Nat
    BY <2>1 DEF IsFile, Files
  <2> QED BY <1>1, <1>3, <1>4, <1>5, <2>1, <2>2, <2>3, SaneGoes
<1>6. ASSUME NEW s \in {"IO", "RESOURCE"}, Goes("finish", s), UNCHANGED source
      PROVE  Sane'
  BY <1>1, <1>3, <1>4, <1>6, SaneGoes, Zenon
<1> QED BY <1>5, <1>6, Zenon DEF tide_source_from_file

\* scans it for a repair,
LEMMA SaneScan ==
  ASSUME Sane, tide_repair_scan
  PROVE  Sane'
<1>1. /\ pc = "scan" /\ UNCHANGED muxVars /\ demux' = demux /\ calls' = calls
      /\ source' = source /\ index' = index /\ got' = got
  BY DEF tide_repair_scan
<1>2. /\ ~mux.open /\ IsFile(source.file) /\ source.file.media # "absent"
      /\ calls' \in 0..MAX_CALLS /\ demux' \in Demuxers /\ got' \in Seq(Items)
      /\ index' \in Nat /\ valid_prefix \in 0..source.file.size
      /\ source'.open \in BOOLEAN /\ source' = [open |-> source'.open, file |-> source'.file]
  BY <1>1, Zenon DEF Sane, Control, MuxOpenAt, Typed
<1>3. /\ \A l \in {"prefix", "finish"} :
           /\ l \in Location \ {"idle", "source"} /\ mux.open = MuxOpenAt(l, job.command)
           /\ l \notin {"create", "streams", "calls", "close"}
      /\ "RESOURCE" \in Status
  BY <1>2 DEF Location, MuxOpenAt, Status, Muxers, Sane, Typed
<1>4. CASE Goes("finish", "RESOURCE") /\ UNCHANGED valid_prefix
  BY <1>1, <1>2, <1>3, <1>4, SaneGoes, Zenon
<1>5. ASSUME NEW lost, NEW bytes, bytes = FileBytes(source.file),
             NEW p, p = ParseLosing(bytes, bytes.size, lost),
             valid_prefix' = p.valid_prefix, NEW l \in {"prefix", "finish"}, Goes(l, p.status)
      PROVE  Sane'
  <2>1. source.file = [source.file EXCEPT !.size = source.file.size]
        /\ source.file.size \in 0..source.file.size /\ source.file.size \in Nat
    BY <1>2 DEF IsFile, Files
  <2>2. IsData(bytes) /\ bytes.size = source.file.size
    BY <1>2, <1>5, <2>1, FileData
  <2>3. p \in Parsed /\ Sound(bytes, p)
    BY <1>5, <2>2, ParseTyped
  <2>4. p.status \in Status /\ p.valid_prefix \in 0..source.file.size
    <3>1. p.status \in Status /\ p.valid_prefix \in Nat
      BY <2>3, ParsedFields, Zenon
    <3>2. p.valid_prefix <= bytes.size
      BY <2>3 DEF Sound
    <3> QED BY <2>1, <2>2, <3>1, <3>2
  <2> QED BY <1>1, <1>2, <1>3, <1>5, <2>4, SaneGoes, Zenon
<1>6. \/ Goes("finish", "RESOURCE") /\ UNCHANGED valid_prefix
      \/ \E lost : LET bytes == FileBytes(source.file)
                       p == ParseLosing(bytes, bytes.size, lost)
                   IN  valid_prefix' = p.valid_prefix
                       /\ \E l \in {"prefix", "finish"} : Goes(l, p.status)
  BY DEF tide_repair_scan
<1> QED BY <1>4, <1>5, <1>6, Zenon

\* takes the prefix that is whole,
LEMMA SanePrefix ==
  ASSUME Sane, RepairPrefix
  PROVE  Sane'
<1>1. /\ pc = "prefix" /\ UNCHANGED muxVars /\ demux' = demux /\ calls' = calls
      /\ source' = source /\ index' = index /\ got' = got /\ valid_prefix' = valid_prefix
  BY DEF RepairPrefix
<1>2. /\ ~mux.open /\ IsFile(source'.file) /\ source'.file.media # "absent"
      /\ calls' \in 0..MAX_CALLS /\ demux' \in Demuxers /\ got' \in Seq(Items)
      /\ index' \in Nat /\ valid_prefix' \in 0..source'.file.size
      /\ source'.open \in BOOLEAN /\ source' = [open |-> source'.open, file |-> source'.file]
  BY <1>1, Zenon DEF Sane, Control, MuxOpenAt, Typed
<1>3. PICK l \in {"demux", "finish"}, s \in {"INVALID_ARGUMENT", "RESOURCE", "OK"} : Goes(l, s)
  BY DEF RepairPrefix
<1>4. /\ l \in Location \ {"idle", "source"} /\ mux.open = MuxOpenAt(l, job.command)
      /\ l \notin {"create", "streams", "calls", "close"} /\ s \in Status
  BY <1>2 DEF Location, MuxOpenAt, Status, Muxers, Sane, Typed
<1> QED BY <1>1, <1>2, <1>3, <1>4, SaneGoes, Zenon

\* opens its demuxer
LEMMA SaneOpenDemux ==
  ASSUME Sane, OpenDemux
  PROVE  Sane'
<1>1. /\ pc = "demux" /\ UNCHANGED muxVars /\ calls' = calls /\ source' = source
      /\ index' = index /\ got' = got /\ valid_prefix' = valid_prefix
  BY DEF OpenDemux
<1>2. /\ ~mux.open /\ IsFile(source'.file) /\ source'.file.media # "absent"
      /\ calls' \in 0..MAX_CALLS /\ demux \in Demuxers /\ got' \in Seq(Items)
      /\ index' \in Nat /\ valid_prefix' \in 0..source'.file.size
      /\ source'.open \in BOOLEAN /\ source' = [open |-> source'.open, file |-> source'.file]
  BY <1>1, Zenon DEF Sane, Control, MuxOpenAt, Typed
<1>3. CASE tide_demux_open_fails /\ Goes("finish", "RESOURCE")
  <2>1. demux' = demux
    BY <1>3, Zenon DEF tide_demux_open_fails
  <2>2. "finish" \in Location \ {"idle", "source"} /\ mux.open = MuxOpenAt("finish", job.command)
        /\ "RESOURCE" \in Status
    BY <1>2 DEF Location, MuxOpenAt, Status, Muxers, Sane, Typed
  <2> QED BY <1>1, <1>2, <1>3, <2>1, <2>2, SaneGoes, Zenon
<1>4. ASSUME NEW lost, NEW bytes, bytes = FileBytes([source.file EXCEPT !.size = DemuxSize]),
             NEW p, p = ParseLosing(bytes, bytes.size, lost),
             tide_demux_open(bytes, p, job.strict, job.selected_track),
             Goes(AfterDemux(p.status)[1], AfterDemux(p.status)[2])
      PROVE  Sane'
  <2>1. DemuxSize \in 0..source.file.size
    BY <1>1, <1>2 DEF DemuxSize, IsFile, Files
  <2>2. p \in Parsed /\ demux' \in Demuxers
    BY <1>1, <1>2, <1>4, <2>1, DemuxTyped, Zenon
  <2> DEFINE l == AfterDemux(p.status)[1]
             s == AfterDemux(p.status)[2]
  <2>3. /\ l \in {"create", "packets", "finish"} /\ s \in {"OK", p.status}
        /\ l = "create" => job.command # "read"
        /\ l = "packets" => job.command = "read"
    BY DEF AfterDemux
  <2>4. p.status \in Status /\ "OK" \in Status
    BY <2>2, ParsedFields, Zenon DEF Status
  <2> HIDE DEF l, s
  <2>5. l \in Location \ {"idle", "source"} /\ mux.open = MuxOpenAt(l, job.command) /\ s \in Status
    BY <1>2, <2>3, <2>4 DEF Location, MuxOpenAt, Muxers, Sane, Typed
  <2>6. Goes(l, s)
    BY <1>4, Zenon DEF l, s
  <2> QED BY <1>1, <1>2, <2>2, <2>3, <2>5, <2>6, SaneGoes, Zenon
<1> QED BY <1>3, <1>4 DEF OpenDemux

\* A call on the muxer that leaves the rest of the job alone.
LEMMA SaneMux ==
  ASSUME Sane, NEW l \in Location \ {"idle", "source", "scan", "prefix", "demux"}, NEW s \in Status,
         Goes(l, s), mux' \in Muxers, mux'.open = MuxOpenAt(l, job.command),
         mux'.open => mux'.path \in Path,
         l \in {"create", "streams", "calls", "close"} => job.command # "read",
         returned' \in Status, accepted' \in Seq(Items),
         DOMAIN disk' = Path, \A p \in Path : IsFile(disk'[p]),
         demux' \in Demuxers, calls' \in 0..MAX_CALLS, index' \in Nat, got' \in Seq(Items),
         source' = source, valid_prefix' = valid_prefix
  PROVE  Sane'
<1>1. Control'
  BY Zenon DEF Sane, Control, Goes
<1>2. Typed'
  BY DEF Sane, Typed, Goes
<1> QED BY <1>1, <1>2 DEF Sane

\* and creates its muxer.
LEMMA SaneCreate ==
  ASSUME Sane, CreateMux
  PROVE  Sane'
<1>1. /\ pc = "create" /\ tide_mux_create(job.out, job.write_footer, job.base_valid)
      /\ demux' = demux /\ calls' = calls /\ source' = source
      /\ valid_prefix' = valid_prefix /\ index' = index /\ got' = got
  BY DEF CreateMux
<1>2. PICK l : l = IF returned' # "OK" THEN "finish"
                   ELSE IF job.command = "write" THEN "calls" ELSE "streams"
  OBVIOUS
<1>3. Goes(l, returned')
  BY <1>2 DEF CreateMux
<1>4. /\ job.out \in Path /\ job.write_footer \in BOOLEAN /\ job.command # "read" /\ ~mux.open
      /\ mux \in Muxers /\ DOMAIN disk = Path /\ \A p \in Path : IsFile(disk[p])
      /\ demux' \in Demuxers /\ calls' \in 0..MAX_CALLS /\ index' \in Nat /\ got' \in Seq(Items)
  BY <1>1, WorkflowAssumption, Zenon DEF Sane, Control, Typed, MuxOpenAt, Job
<1>5. DOMAIN disk' = Path /\ \A p \in Path : IsFile(disk'[p])
  <2>1. disk' = disk \/ Truncated(job.out)
    BY <1>1 DEF tide_mux_create
  <2> QED BY <1>4, <2>1, TruncatedTyped, Zenon
<1>6. accepted' \in Seq(Items) /\ returned' \in {"OK", "IO", "RESOURCE", "INVALID_ARGUMENT"}
  BY <1>1, EmptySeq, Zenon DEF tide_mux_create
<1> DEFINE fresh == [open |-> TRUE, path |-> job.out, write_footer |-> job.write_footer,
                     sequence |-> 0, size |-> TIDE_HEADER_SIZE, records |-> <<>>]
<1>7. (returned' = "OK" /\ mux' = fresh) \/ (returned' # "OK" /\ mux' = mux)
  BY <1>1, Zenon DEF tide_mux_create
<1>8. fresh \in Muxers /\ fresh.open /\ fresh.path \in Path
  BY <1>4, SizesAssumption, EmptySeq, Zenon DEF Muxers
<1> HIDE DEF fresh
<1>9. /\ mux' \in Muxers /\ mux'.open = MuxOpenAt(l, job.command) /\ (mux'.open => mux'.path \in Path)
      /\ l \in Location \ {"idle", "source", "scan", "prefix", "demux"}
  BY <1>2, <1>4, <1>7, <1>8, Zenon DEF Location, MuxOpenAt, Muxers
<1>10. returned' \in Status
  BY <1>6 DEF Status
<1> QED BY <1>1, <1>3, <1>4, <1>5, <1>6, <1>9, <1>10, SaneMux, Zenon

\* The job writes an item.
LEMMA SaneItem ==
  ASSUME Sane, mux.open, NEW type \in ItemTypes, NEW item \in Items, ItemCall(type, item),
         NEW l \in {"streams", "packets", "calls", "close"}, NEW s \in Status, Goes(l, s),
         demux' \in Demuxers, calls' \in 0..MAX_CALLS, index' \in Nat, got' \in Seq(Items),
         source' = source, valid_prefix' = valid_prefix
  PROVE  Sane'
<1>1. /\ mux \in Muxers /\ accepted \in Seq(Items) /\ DOMAIN disk = Path
      /\ mux.path \in Path /\ job.command # "read"
      /\ \A p \in Path : IsFile(disk[p])
  BY Zenon DEF Sane, Typed, Control, MuxOpenAt
<1>2. /\ mux' \in Muxers /\ mux'.open = mux.open /\ mux'.path = mux.path
      /\ accepted' \in Seq(Items) /\ returned' \in Status /\ disk' = disk
  BY <1>1, ItemCallTyped, Zenon
<1>3. /\ l \in Location \ {"idle", "source", "scan", "prefix", "demux"}
      /\ mux'.open = MuxOpenAt(l, job.command)
  <2>1. mux.open = TRUE
    BY <1>1 DEF Muxers
  <2>2. MuxOpenAt(l, job.command) = TRUE
    BY <1>1, Zenon DEF MuxOpenAt
  <2> QED BY <1>2, <2>1, <2>2, Zenon DEF Location
<1> QED BY <1>1, <1>2, <1>3, SaneMux, Zenon

\* A stream that the demuxer gave is passed to the muxer.
LEMMA CopyStreamCalls ==
  ASSUME Sane, CopyStream
  PROVE  /\ mux.open /\ index \in Nat /\ index + 1 \in 1..Len(demux.streams)
         /\ demux.streams[index + 1] \in Items
         /\ ItemCall("STREAM_DESC", demux.streams[index + 1])
<1> DEFINE item == demux.streams[index + 1]
<1>1. index < Len(demux.streams) /\ tide_mux_add_stream(item)
  BY DEF CopyStream
<1>2. index \in Nat /\ demux \in Demuxers
  BY DEF Sane, Typed
<1>3. demux.streams \in Seq(Readable("STREAM_DESC"))
  BY <1>2 DEF Demuxers
<1>4. index + 1 \in 1..Len(demux.streams)
  BY <1>1, <1>2, <1>3
<1>5. item \in Items /\ Passed("STREAM_DESC", item)
  <2>1. item \in Readable("STREAM_DESC") /\ "STREAM_DESC" \in ItemTypes
    BY <1>3, <1>4, ElementOfSeq, Zenon DEF ItemTypes
  <2> HIDE DEF item
  <2> QED BY <2>1, ReadableItems, Zenon
<1> HIDE DEF item
<1>6. mux.open /\ ItemCall("STREAM_DESC", item)
  BY <1>1, <1>5, CallsWriteItems, Zenon
<1> QED BY <1>2, <1>4, <1>5, <1>6, Zenon DEF item

\* The loop over the streams goes on.
LEMMA SaneCopyStream ==
  ASSUME Sane, CopyStream
  PROVE  Sane'
<1> DEFINE item == demux.streams[index + 1]
           l == IF returned' = "OK" THEN "streams" ELSE "close"
<1>1. /\ index' = index + 1
      /\ Goes(l, returned') /\ demux' = demux /\ calls' = calls /\ source' = source
      /\ valid_prefix' = valid_prefix /\ got' = got
  BY DEF CopyStream
<1>2. /\ mux \in Muxers /\ accepted \in Seq(Items) /\ demux' \in Demuxers
      /\ calls' \in 0..MAX_CALLS /\ got' \in Seq(Items)
  BY <1>1 DEF Sane, Typed
<1>3. mux.open /\ item \in Items /\ ItemCall("STREAM_DESC", item) /\ index \in Nat
  BY CopyStreamCalls
<1>4. "STREAM_DESC" \in ItemTypes /\ index' \in Nat
  BY <1>1, <1>3 DEF ItemTypes
<1> HIDE DEF item
<1>5. returned' \in Status
  BY <1>2, <1>3, <1>4, ItemCallTyped, Zenon
<1>6. l \in {"streams", "packets", "calls", "close"}
  OBVIOUS
<1> HIDE DEF l
<1> QED BY <1>1, <1>2, <1>3, <1>4, <1>5, <1>6, SaneItem, Zenon

\* The packet under the cursor of a demuxer that is not at its end.
LEMMA NextPacketTyped ==
  ASSUME demux \in Demuxers, tide_demux_next
  PROVE  NextPacket \in Readable("PACKET") /\ demux' \in Demuxers
<1>1. /\ demux.packets \in Seq(Readable("PACKET")) /\ demux.cursor \in Nat
      /\ demux.cursor < Len(demux.packets) /\ demux' = [demux EXCEPT !.cursor = demux.cursor + 1]
  BY DEF Demuxers, tide_demux_next, AtEnd
<1>2. demux.cursor + 1 \in 1..Len(demux.packets) /\ demux.cursor + 1 \in Nat
  BY <1>1
<1>3. NextPacket \in Readable("PACKET")
  BY <1>1, <1>2, ElementOfSeq DEF NextPacket
<1>4. demux' \in Demuxers
  BY <1>1, <1>2 DEF Demuxers
<1> QED BY <1>3, <1>4

\* The packet under the cursor is passed to the muxer.
LEMMA CopyPacketCalls ==
  ASSUME Sane, CopyPacket
  PROVE  /\ mux.open /\ NextPacket \in Items /\ ItemCall("PACKET", NextPacket)
         /\ demux' \in Demuxers
<1> DEFINE item == NextPacket
<1>1. tide_demux_next /\ tide_mux_write_packet(item) /\ demux \in Demuxers
  BY DEF CopyPacket, Sane, Typed
<1>2. item \in Items /\ Passed("PACKET", item) /\ demux' \in Demuxers
  <2>1. item \in Readable("PACKET") /\ "PACKET" \in ItemTypes /\ demux' \in Demuxers
    BY <1>1, NextPacketTyped DEF ItemTypes
  <2> HIDE DEF item
  <2> QED BY <2>1, ReadableItems
<1> HIDE DEF item
<1>3. mux.open /\ ItemCall("PACKET", item)
  BY <1>1, <1>2, CallsWriteItems, Zenon
<1> QED BY <1>2, <1>3, Zenon DEF item

\* The loop over the packets goes on.
LEMMA SaneCopyPacket ==
  ASSUME Sane, CopyPacket
  PROVE  Sane'
<1> DEFINE item == NextPacket
           l == IF returned' = "OK" THEN "packets" ELSE "close"
<1>1. /\ got' = Append(got, item)
      /\ Goes(l, returned') /\ calls' = calls /\ source' = source
      /\ valid_prefix' = valid_prefix /\ index' = index
  BY DEF CopyPacket
<1>2. /\ mux \in Muxers /\ accepted \in Seq(Items) /\ index' \in Nat
      /\ calls' \in 0..MAX_CALLS /\ got \in Seq(Items)
  BY <1>1 DEF Sane, Typed
<1>3. mux.open /\ item \in Items /\ ItemCall("PACKET", item) /\ demux' \in Demuxers
  BY CopyPacketCalls
<1> HIDE DEF item
<1>4. got' \in Seq(Items) /\ "PACKET" \in ItemTypes
  BY <1>1, <1>2, <1>3, AppendProperties, Zenon DEF ItemTypes
<1>5. returned' \in Status
  BY <1>2, <1>3, <1>4, ItemCallTyped, Zenon
<1>6. l \in {"streams", "packets", "calls", "close"}
  OBVIOUS
<1> HIDE DEF l
<1> QED BY <1>1, <1>2, <1>3, <1>4, <1>5, <1>6, SaneItem, Zenon

\* A caller makes its next call.
LEMMA SaneWriteCall ==
  ASSUME Sane, WriteCall
  PROVE  Sane'
<1>1. /\ calls < MAX_CALLS /\ calls' = calls + 1 /\ Goes("calls", "OK") /\ demux' = demux
      /\ source' = source /\ valid_prefix' = valid_prefix /\ index' = index /\ got' = got
  BY DEF WriteCall
<1>2. /\ index' \in Nat /\ demux' \in Demuxers /\ got' \in Seq(Items) /\ calls' \in 0..MAX_CALLS
  BY <1>1, WorkflowAssumption DEF Sane, Typed
<1>3. PICK type \in ItemTypes, item \in Items : mux.open /\ ItemCall(type, item)
  BY WriteCallItem
<1>4. mux.open /\ ItemCall(type, item)
  BY <1>3
<1>5. "OK" \in Status
  BY DEF Status
<1> QED BY <1>1, <1>2, <1>4, <1>5, SaneItem, Zenon

\* The loops of a job end, or it reads on.
LEMMA SaneLoops ==
  ASSUME Sane, StreamsDone \/ ReadPacket \/ PacketsDone \/ WriteDone
  PROVE  Sane'
<1>1. /\ UNCHANGED muxVars /\ calls' = calls /\ source' = source
      /\ valid_prefix' = valid_prefix /\ index' = index
  BY DEF StreamsDone, ReadPacket, PacketsDone, WriteDone
<1>2. /\ demux \in Demuxers /\ got \in Seq(Items) /\ calls' \in 0..MAX_CALLS /\ index' \in Nat
      /\ source'.open \in BOOLEAN /\ source' = [open |-> source'.open, file |-> source'.file]
      /\ IsFile(source'.file) /\ valid_prefix' \in 0..source'.file.size
      /\ status \in Status /\ mux.open \in BOOLEAN
  BY <1>1, Zenon DEF Sane, Typed, Muxers
<1>3. ASSUME NEW l \in {"packets", "finish", "close"}, NEW s \in Status, Goes(l, s),
             mux.open = MuxOpenAt(l, job.command), l = "close" => job.command # "read",
             demux' \in Demuxers, got' \in Seq(Items)
      PROVE  Sane'
  <2>1. l \in Location \ {"idle", "source"} /\ l \notin {"scan", "prefix", "demux"}
    BY DEF Location
  <2> QED BY <1>1, <1>2, <1>3, <2>1, SaneGoes, Zenon
<1>4. CASE StreamsDone
  <2>1. Goes("packets", "OK") /\ pc = "streams" /\ demux' = demux /\ got' = got
    BY <1>4 DEF StreamsDone
  <2>2. mux.open = MuxOpenAt("packets", job.command)
    BY <2>1 DEF Sane, Control, MuxOpenAt
  <2> QED BY <1>2, <1>3, <2>1, <2>2, Zenon DEF Status
<1>5. CASE ReadPacket
  <2>1. /\ Goes("packets", status) /\ pc = "packets" /\ tide_demux_next
        /\ got' = Append(got, NextPacket)
    BY <1>5 DEF ReadPacket
  <2>2. mux.open = MuxOpenAt("packets", job.command)
    BY <2>1 DEF Sane, Control
  <2>3. NextPacket \in Items /\ demux' \in Demuxers
    <3>1. NextPacket \in Readable("PACKET") /\ "PACKET" \in ItemTypes /\ demux' \in Demuxers
      BY <1>2, <2>1, NextPacketTyped, Zenon DEF ItemTypes
    <3> QED BY <3>1, ReadableItems, Zenon
  <2>4. got' \in Seq(Items)
    BY <1>2, <2>1, <2>3, AppendProperties, Zenon
  <2> QED BY <1>2, <1>3, <2>1, <2>2, <2>3, <2>4, Zenon
<1>6. CASE PacketsDone
  <2>1. /\ pc = "packets" /\ demux' = demux /\ got' = got
        /\ Goes(IF job.command = "read" THEN "finish" ELSE "close", status)
    BY <1>6 DEF PacketsDone
  <2>2. mux.open = MuxOpenAt(IF job.command = "read" THEN "finish" ELSE "close", job.command)
    BY <2>1, Zenon DEF Sane, Control, MuxOpenAt
  <2> QED BY <1>2, <1>3, <2>1, <2>2, Zenon
<1>7. CASE WriteDone
  <2>1. Goes("close", "OK") /\ pc = "calls" /\ demux' = demux /\ got' = got
    BY <1>7 DEF WriteDone
  <2>2. mux.open = MuxOpenAt("close", job.command) /\ job.command # "read"
    BY <2>1 DEF Sane, Control, MuxOpenAt
  <2> QED BY <1>2, <1>3, <2>1, <2>2, Zenon DEF Status
<1> QED BY <1>4, <1>5, <1>6, <1>7, Zenon

\* Closing writes the file or leaves the path as it is.
LEMMA CloseEffect ==
  ASSUME mux \in Muxers, tide_mux_close
  PROVE  /\ mux.open /\ mux' = NoMux /\ accepted' = accepted
         /\ returned' \in {"OK", "IO", "RESOURCE"}
         /\ \/ disk' = disk /\ returned' = "RESOURCE"
            \/ \E n \in 0..Finished.size : Flushed(Finished, n) /\ (returned' = "OK" => n = Finished.size)
<1>1. Finished.size \in Nat
  BY FinishedTyped DEF Muxers
<1>2. /\ mux.open /\ mux' = NoMux /\ accepted' = accepted
      /\ returned' \in {"OK", "IO", "RESOURCE"}
  BY DEF tide_mux_close
<1>3. \/ disk' = disk /\ returned' = "RESOURCE"
      \/ Flushed(Finished, Finished.size)
      \/ PartlyFlushed(Finished) /\ returned' = "IO"
  BY DEF tide_mux_close
<1> QED BY <1>1, <1>2, <1>3 DEF PartlyFlushed

\* The muxer is closed or given up.
LEMMA SaneClose ==
  ASSUME Sane, CloseMux \/ AbortMux
  PROVE  Sane'
<1>1. /\ demux' = demux /\ calls' = calls /\ source' = source
      /\ valid_prefix' = valid_prefix /\ index' = index /\ got' = got
  BY DEF CloseMux, AbortMux
<1>2. /\ mux \in Muxers /\ (mux.open => mux.path \in Path) /\ accepted \in Seq(Items)
      /\ status \in Status /\ returned \in Status /\ DOMAIN disk = Path
      /\ demux' \in Demuxers /\ calls' \in 0..MAX_CALLS /\ index' \in Nat /\ got' \in Seq(Items)
      /\ \A p \in Path : IsFile(disk[p])
  BY <1>1, Zenon DEF Sane, Typed
<1>3. mux' = NoMux /\ accepted' = accepted
  BY <1>2, CloseEffect, Zenon DEF CloseMux, AbortMux, tide_mux_abort
<1>4. NoMux \in Muxers /\ NoMux.open = FALSE
  BY EmptySeq, Zenon DEF NoMux, Muxers
<1>5. DOMAIN disk' = Path /\ \A p \in Path : IsFile(disk'[p])
  <2>1. CASE disk' = disk
    BY <1>2, <2>1
  <2>2. CASE mux.open /\ \E n \in 0..Finished.size : Flushed(Finished, n)
    <3>1. Finished.size \in Nat
      BY <1>2, FinishedTyped, Zenon DEF Muxers
    <3>2. PICK n \in 0..Finished.size : Flushed(Finished, n)
      BY <2>2
    <3>3. n \in Nat
      BY <3>1
    <3> QED BY <1>2, <2>2, <3>2, <3>3, FlushedTyped, Zenon
  <2> QED BY <1>2, <2>1, <2>2, CloseEffect, Zenon DEF CloseMux, AbortMux, tide_mux_abort
<1>6. returned' \in Status
  BY <1>2, CloseEffect DEF CloseMux, AbortMux, tide_mux_abort, Status
<1>7. \E s \in {status, returned', "CANCELLED"} : Goes("finish", s)
  BY Zenon DEF CloseMux, AbortMux
<1>8. \E s \in Status : Goes("finish", s)
  BY <1>2, <1>6, <1>7, Zenon DEF Status
<1>9. "finish" \in Location \ {"idle", "source", "scan", "prefix", "demux"}
      /\ MuxOpenAt("finish", job.command) = FALSE
  BY DEF Location, MuxOpenAt
<1> QED BY <1>1, <1>2, <1>3, <1>4, <1>5, <1>6, <1>8, <1>9, SaneMux, Zenon

\* The job ends.
LEMMA SaneEnd ==
  ASSUME Sane, Finish \/ Kill
  PROVE  Sane'
<1>1. /\ pc' = "idle" /\ job' = job /\ jobs' = jobs /\ calls' = 0 /\ index' = 0
      /\ valid_prefix' = 0 /\ source' = [source EXCEPT !.open = FALSE] /\ demux' = NoDemux
  BY DEF Finish, Kill, tide_demux_close
<1>2. NoMux \in Muxers /\ ~NoMux.open /\ NoDemux \in Demuxers /\ ~NoDemux.open
  BY EmptySeq, Zenon DEF NoMux, Muxers, NoDemux, Demuxers
<1>3. /\ source' = [open |-> FALSE, file |-> source.file] /\ IsFile(source.file)
      /\ source.file.size \in Nat
  BY <1>1, Zenon DEF Sane, Typed, IsFile, Files
<1>4. mux' \in Muxers /\ mux'.open = FALSE
  <2>1. CASE Finish
    <3>1. pc = "finish" /\ mux' = mux
      BY <2>1 DEF Finish, muxVars
    <3> QED BY <3>1, Zenon DEF Sane, Control, Typed, MuxOpenAt
  <2>2. CASE Kill
    BY <1>2, <2>2 DEF Kill, Muxers
  <2> QED BY <2>1, <2>2, Zenon
<1>5. Control'
  BY <1>1, <1>2, <1>3, <1>4, Zenon DEF Sane, Control, Location, MuxOpenAt
<1>6. DOMAIN disk' = Path /\ \A p \in Path : IsFile(disk'[p])
  <2>1. CASE disk' = disk
    BY <2>1 DEF Sane, Typed
  <2>2. CASE pc = "close" /\ PartlyFlushed(Finished)
    <3>1. /\ mux.open /\ mux \in Muxers /\ mux.path \in Path /\ accepted \in Seq(Items)
          /\ DOMAIN disk = Path
          /\ \A p \in Path : IsFile(disk[p])
      BY <2>2, Zenon DEF Sane, Control, Typed, MuxOpenAt
    <3>2. Finished.size \in Nat
      BY <3>1, FinishedTyped DEF Muxers
    <3>3. \E n \in Nat : Flushed(Finished, n)
      BY <2>2, <3>2 DEF PartlyFlushed
    <3> QED BY <3>1, <3>3, FlushedTyped, Zenon
  <2> QED BY <2>1, <2>2, Zenon DEF Finish, Kill, muxVars
<1>7. /\ status' \in Status /\ returned' \in Status /\ accepted' \in Seq(Items)
      /\ got' \in Seq(Items)
  BY EmptySeq, Zenon DEF Sane, Typed, Finish, Kill, muxVars, Status
<1>8. calls' \in 0..MAX_CALLS /\ jobs' \in 0..MAX_JOBS
  BY <1>1, WorkflowAssumption DEF Sane, Typed
<1>9. /\ source'.open \in BOOLEAN /\ source' = [open |-> source'.open, file |-> source'.file]
      /\ IsFile(source'.file) /\ valid_prefix' \in 0..source'.file.size /\ index' \in Nat
      /\ demux' \in Demuxers
  <2>1. source'.open = FALSE /\ source'.file = source.file
    BY <1>3, Zenon
  <2>2. source' = [open |-> source'.open, file |-> source'.file]
    BY <1>3, <2>1
  <2>3. valid_prefix' \in 0..source'.file.size /\ index' \in Nat
    BY <1>1, <1>3, <2>1
  <2> QED BY <1>1, <1>2, <1>3, <2>1, <2>2, <2>3, Zenon
<1>10. Typed'
  BY <1>1, <1>4, <1>6, <1>7, <1>8, <1>9, Zenon DEF Typed
<1> QED BY <1>5, <1>10, Zenon DEF Sane

\* Every step keeps control and types.
LEMMA SaneNext ==
  ASSUME Sane, [Next]_vars
  PROVE  Sane'
<1>1. CASE UNCHANGED vars
  BY <1>1 DEF Sane, Control, Typed, vars, muxVars, jobVars
<1>2. CASE Work
  BY <1>2, SaneSource, SaneScan, SanePrefix, SaneOpenDemux, SaneCreate, SaneCopyStream,
     SaneCopyPacket, SaneLoops, SaneWriteCall, SaneClose, SaneEnd, Zenon DEF Work
<1> QED BY <1>1, <1>2, SaneStart, SaneEnd, Zenon DEF Next

\* Every variable of a job keeps its type, in every interleaving of calls, failures
\* and kills, and a muxer is open only between tide_mux_create and tide_mux_close.
THEOREM JobsTypeCorrect ==
  Spec => []TypeOK
<1>1. Init => Sane
  BY ControlInit, TypedInit DEF Sane
<1>2. Sane /\ [Next]_vars => Sane'
  BY SaneNext
<1>3. Sane => TypeOK
  BY Zenon DEF Sane, Control, Typed, TypeOK, Location, MuxOpenAt, Demuxers
<1> QED BY <1>1, <1>2, <1>3, PTL DEF Spec

\* Whatever path through its error handling a job takes, and wherever it is killed, no
\* muxer, demuxer or source is left open when it has ended.
THEOREM NothingIsLeaked ==
  Spec => []NothingLeaked
<1>1. Init => Sane
  BY ControlInit, TypedInit DEF Sane
<1>2. Sane /\ [Next]_vars => Sane'
  BY SaneNext
<1>3. Sane => NothingLeaked
  BY Zenon DEF Sane, Control, NothingLeaked, MuxOpenAt
<1> QED BY <1>1, <1>2, <1>3, PTL DEF Spec

------------------------------------------------------------------------------
(* How the records of a file lie and what they hold *)

EntryEnd(entry) == entry.at + Extent(entry.record, entry.parts)

\* Where the last of the records ends.
LaidSize(records) ==
  IF Len(records) = 0 THEN TIDE_HEADER_SIZE ELSE EntryEnd(records[Len(records)])

\* The records were laid out by tide_write_record and lie one after another.
LaidOut(records) ==
  \A i \in 1..Len(records) :
    /\ records[i].record = Record(records[i].record.type, records[i].record.sequence,
                                  records[i].record.payload_size, records[i].record.body)
    /\ records[i].at = IF i = 1 THEN TIDE_HEADER_SIZE ELSE EntryEnd(records[i - 1])

\* Their sequence numbers increase.
InOrder(records) ==
  \A i, j \in 1..Len(records) : i < j => records[i].record.sequence < records[j].record.sequence

\* The items in the whole records of the given types.
Whole(records, types) ==
  {i \in 1..Len(records) : records[i].parts = 4 /\ records[i].record.type \in types}
Bodies(records) == [i \in 1..Len(records) |-> records[i].record.body]
Held(records, types) == Kept(Bodies(records), Whole(records, types))

\* The records, no footer yet, take size bytes, come before sequence and hold items.
Laid(records, sequence, size, items) ==
  /\ LaidOut(records) /\ InOrder(records) /\ size = LaidSize(records)
  /\ \A i \in 1..Len(records) : /\ records[i].record.type # "FOOTER"
                                /\ records[i].record.sequence < sequence
  /\ items = Held(records, ItemTypes)

\* What an open muxer accepted is what is whole in it.
MuxLaid == mux.open => Laid(mux.records, mux.sequence, mux.size, accepted)

\* So is a file, of which the end may be missing.
FileLaid(f) ==
  /\ f.media # "written" => f.records = <<>>
  /\ LaidOut(f.records) /\ InOrder(f.records)
  /\ \A i \in 1..Len(f.records) : f.records[i].record.type = "FOOTER" =>
       /\ i = Len(f.records) /\ f.records[i].parts = 4
       /\ f.records[i].record.body.file_length = EntryEnd(f.records[i])
  /\ f.media = "written" => f.size <= LaidSize(f.records) /\ f.holds = Held(f.records, ItemTypes)

Stored == MuxLaid /\ (\A p \in Path : FileLaid(disk[p])) /\ FileLaid(source.file)

\* The entry of a record.
LEMMA EntryFields ==
  ASSUME NEW rs \in Seq(Entries), NEW i \in 1..Len(rs)
  PROVE  /\ rs[i] \in Entries /\ rs[i].at \in Nat /\ rs[i].parts \in 1..4
         /\ rs[i].record \in ItemRecords \cup FooterRecords
         /\ rs[i].record.sequence \in Nat /\ rs[i].record.payload_size \in Nat
         /\ rs[i].record.type \in {"STREAM_DESC", "PACKET", "FOOTER"}
<1>1. rs[i] \in Entries
  BY ElementOfSeq
<1>2. /\ rs[i].at \in Nat /\ rs[i].parts \in 1..4
      /\ rs[i].record \in ItemRecords \cup FooterRecords
  BY <1>1, Zenon DEF Entries
<1> DEFINE r == rs[i].record
<1> HIDE DEF r
<1>3. r \in RecordsWith(ItemTypes, Items) \cup FooterRecords
  BY <1>2, ItemRecordFields DEF r
<1>4. /\ r.sequence \in Nat /\ r.payload_size \in Nat
      /\ r.type \in {"STREAM_DESC", "PACKET", "FOOTER"}
  BY <1>3, Zenon DEF RecordsWith, FooterRecords, ItemTypes
<1> QED BY <1>1, <1>2, <1>4, Zenon DEF r

\* The entry of r, of which k parts were written, comes after the records rs; t is both.
Lays(rs, r, k, t) ==
  /\ rs \in Seq(Entries) /\ LaidOut(rs) /\ InOrder(rs)
  /\ r \in ItemRecords \cup FooterRecords /\ k \in 1..4
  /\ r = Record(r.type, r.sequence, r.payload_size, r.body)
  /\ [at |-> LaidSize(rs), parts |-> k, record |-> r] \in Entries
  /\ t = Append(rs, [at |-> LaidSize(rs), parts |-> k, record |-> r])
  /\ \A i \in 1..Len(rs) : rs[i].record.sequence < r.sequence

\* They lie in order too, and what they hold is known.
Lain(rs, r, k, t) ==
  /\ LaidOut(t) /\ InOrder(t) /\ LaidSize(t) = LaidSize(rs) + Extent(r, k)
  /\ \A types : Held(t, types) = IF k = 4 /\ r.type \in types
                                 THEN Append(Held(rs, types), r.body)
                                 ELSE Held(rs, types)

\* This is so.
LEMMA AppendLaid == ASSUME NEW rs, NEW r, NEW k, NEW t, Lays(rs, r, k, t) PROVE Lain(rs, r, k, t)
<1>0. PICK e : e = [at |-> LaidSize(rs), parts |-> k, record |-> r]
  BY Zenon
<1>1. rs \in Seq(Entries) /\ e \in Entries /\ t = Append(rs, e)
  BY <1>0, Zenon DEF Lays
<1> DEFINE n == Len(rs)
<1>2. /\ n \in Nat /\ t \in Seq(Entries) /\ Len(t) = n + 1 /\ t[n + 1] = e
      /\ \A i \in 1..n : t[i] = rs[i]
  BY <1>1, AppendProperties
<1>3. e.at = LaidSize(rs) /\ e.parts = k /\ e.record = r
  BY <1>0
<1>4. \A i \in 1..Len(t) : i \in 1..n \/ (i = n + 1 /\ i - 1 = n)
  BY <1>2
<1> HIDE DEF n
<1>5. LaidOut(t)
  <2>1. LaidOut(rs) /\ r = Record(r.type, r.sequence, r.payload_size, r.body)
    BY Zenon DEF Lays
  <2> SUFFICES ASSUME NEW i \in 1..Len(t)
               PROVE  /\ t[i].record = Record(t[i].record.type, t[i].record.sequence,
                                              t[i].record.payload_size, t[i].record.body)
                      /\ t[i].at = IF i = 1 THEN TIDE_HEADER_SIZE ELSE EntryEnd(t[i - 1])
    BY Zenon DEF LaidOut
  <2>2. CASE i \in 1..n
    <3>1. i # 1 => i - 1 \in 1..n
      BY <1>2, <2>2
    <3>2. t[i] = rs[i] /\ (i # 1 => t[i - 1] = rs[i - 1])
      BY <1>2, <2>2, <3>1, Zenon
    <3> QED BY <2>1, <2>2, <3>2, Zenon DEF LaidOut, n
  <2>3. CASE i = n + 1
    <3>1. i - 1 = n /\ (i = 1 <=> n = 0) /\ (n # 0 => n \in 1..n)
      BY <1>2, <2>3
    <3>2. LaidSize(rs) = IF i = 1 THEN TIDE_HEADER_SIZE ELSE EntryEnd(t[i - 1])
      BY <1>2, <3>1, Zenon DEF LaidSize, n
    <3> QED BY <1>2, <1>3, <2>1, <2>3, <3>2, Zenon
  <2> QED BY <1>4, <2>2, <2>3, Zenon
<1>6. InOrder(t)
  <2>1. InOrder(rs) /\ \A i \in 1..n : rs[i].record.sequence < r.sequence
    BY Zenon DEF Lays, n
  <2> SUFFICES ASSUME NEW i \in 1..Len(t), NEW j \in 1..Len(t), i < j
               PROVE  t[i].record.sequence < t[j].record.sequence
    BY Zenon DEF InOrder
  <2>2. i \in 1..n
    BY <1>2
  <2>3. CASE j \in 1..n
    BY <1>2, <2>1, <2>2, <2>3, Zenon DEF InOrder, n
  <2>4. CASE j = n + 1
    BY <1>2, <1>3, <2>1, <2>2, <2>4, Zenon
  <2> QED BY <1>4, <2>3, <2>4, Zenon
<1>7. LaidSize(t) = LaidSize(rs) + Extent(r, k)
  <2>1. n + 1 # 0
    BY <1>2
  <2>2. LaidSize(t) = EntryEnd(e)
    BY <1>2, <2>1, Zenon DEF LaidSize
  <2> QED BY <1>3, <2>2, Zenon DEF EntryEnd
<1>8. ASSUME NEW types
      PROVE  Held(t, types) = IF k = 4 /\ r.type \in types
                              THEN Append(Held(rs, types), r.body) ELSE Held(rs, types)
  <2>1. PICK S : S = {rs[i].record.body : i \in 1..n} \cup {r.body}
    BY Zenon
  <2>2. Bodies(rs) \in Seq(S) /\ Len(Bodies(rs)) = n /\ r.body \in S
        /\ Bodies(rs) = [i \in 1..n |-> rs[i].record.body]
    BY <1>2, <2>1 DEF Bodies, n
  <2>3. Bodies(t) = Append(Bodies(rs), r.body)
    <3>1. Bodies(t) = [i \in 1..(n + 1) |-> t[i].record.body]
      BY <1>2, Zenon DEF Bodies
    <3>2. \A i \in 1..(n + 1) :
            t[i].record.body = IF i = n + 1 THEN r.body ELSE Bodies(rs)[i]
      BY <1>2, <1>3, <1>4, <2>2, Zenon
    <3>3. Append(Bodies(rs), r.body)
            = [i \in 1..(n + 1) |-> IF i = n + 1 THEN r.body ELSE Bodies(rs)[i]]
      BY <1>2, <2>2
    <3> QED BY <3>1, <3>2, <3>3, Zenon
  <2>4. /\ \A i \in 1..n : i \in Whole(rs, types) <=> i \in Whole(t, types)
        /\ n + 1 \in Whole(t, types) <=> k = 4 /\ r.type \in types
    BY <1>2, <1>3 DEF Whole, n
  <2>5. Longer(S, Bodies(rs), r.body, Bodies(t), Whole(rs, types), Whole(t, types))
    BY <2>2, <2>3, <2>4, Zenon DEF Longer
  <2>6. /\ n + 1 \in Whole(t, types) => Held(t, types) = Append(Held(rs, types), r.body)
        /\ n + 1 \notin Whole(t, types) => Held(t, types) = Held(rs, types)
    <3>1. \A s, x, u, c, d : Longer(S, s, x, u, c, d) =>
            /\ Len(s) + 1 \in d => Kept(u, d) = Append(Kept(s, c), x)
            /\ Len(s) + 1 \notin d => Kept(u, d) = Kept(s, c)
      BY KeptAppend, Zenon
    <3>2. PICK s, u, c, d : s = Bodies(rs) /\ u = Bodies(t)
                            /\ c = Whole(rs, types) /\ d = Whole(t, types)
      BY Zenon
    <3>3. Longer(S, s, r.body, u, c, d) /\ Len(s) = n
      BY <2>2, <2>5, <3>2, Zenon
    <3>4. /\ n + 1 \in d => Kept(u, d) = Append(Kept(s, c), r.body)
          /\ n + 1 \notin d => Kept(u, d) = Kept(s, c)
      BY <3>1, <3>3
    <3> QED BY <3>2, <3>4, Zenon DEF Held
  <2> QED BY <2>4, <2>6, Zenon
<1> QED BY <1>5, <1>6, <1>7, <1>8, Zenon DEF Lain

\* No records.
LEMMA NothingLaid ==
  /\ LaidOut(<<>>) /\ InOrder(<<>>) /\ LaidSize(<<>>) = TIDE_HEADER_SIZE
  /\ \A types : Held(<<>>, types) = <<>>
<1>1. Len(<<>>) = 0 /\ 1..0 = {}
  OBVIOUS
<1>2. Bodies(<<>>) = <<>>
  BY <1>1 DEF Bodies
<1>3. ASSUME NEW types PROVE Held(<<>>, types) = <<>>
  <2>1. <<>> \in Seq(Items)
    OBVIOUS
  <2> QED BY <1>2, <2>1, KeptSeq, Zenon DEF Held
<1> QED BY <1>1, <1>3, Zenon DEF LaidOut, InOrder, LaidSize

\* A file that is not there, a sample and a truncated file.
LEMMA PlainFilesLaid ==
  /\ FileLaid(NoFile) /\ FileLaid(WrittenFile(<<>>, 0, <<>>))
  /\ \A m \in DOMAIN Media : FileLaid(Sample(m))
<1>1. ASSUME NEW f, f.records = <<>>, f.media # "written" PROVE FileLaid(f)
  BY <1>1, NothingLaid DEF FileLaid
<1>2. FileLaid(NoFile)
  BY <1>1 DEF NoFile
<1>3. ASSUME NEW m \in DOMAIN Media PROVE FileLaid(Sample(m))
  <2>1. Sample(m).media = m /\ Sample(m).records = <<>>
    BY Zenon DEF Sample, NoFile
  <2>2. m # "written"
    BY ItemsAssumption
  <2> QED BY <1>1, <2>1, <2>2, Zenon
<1>4. FileLaid(WrittenFile(<<>>, 0, <<>>))
  <2>1. PICK f, e : f = WrittenFile(e, 0, e) /\ e = <<>>
    OBVIOUS
  <2>2. f.records = e /\ f.size = 0 /\ f.holds = e /\ f.media = "written"
    BY <2>1, Zenon DEF WrittenFile
  <2>3. FileLaid(f)
    BY <2>1, <2>2, NothingLaid, SizesAssumption DEF FileLaid
  <2> QED BY <2>1, <2>3, Zenon
<1> QED BY <1>2, <1>3, <1>4, Zenon

\* t is such records with k parts of one more, r.
Appends(rs, sequence, size, items, r, k, t) ==
  /\ rs \in Seq(Entries) /\ sequence \in Nat /\ size \in Nat /\ Laid(rs, sequence, size, items)
  /\ r \in ItemRecords \cup FooterRecords /\ r.sequence = sequence /\ k \in 1..4
  /\ r = Record(r.type, r.sequence, r.payload_size, r.body)
  /\ t = Append(rs, [at |-> size, parts |-> k, record |-> r])

\* Where t ends, what it holds and what is in it.
Grown(rs, sequence, size, items, r, k, t) ==
  /\ LaidOut(t) /\ InOrder(t) /\ LaidSize(t) = size + Extent(r, k)
  /\ Held(t, ItemTypes) = IF k = 4 /\ r.type \in ItemTypes THEN Append(items, r.body) ELSE items
  /\ Len(rs) \in Nat /\ Len(t) = Len(rs) + 1
  /\ t[Len(rs) + 1] = [at |-> size, parts |-> k, record |-> r]
  /\ \A i \in 1..Len(rs) :
       /\ t[i] = rs[i] /\ rs[i].record.type # "FOOTER"
       /\ rs[i].record.sequence \in Nat /\ rs[i].record.sequence < sequence

\* This is so.
LEMMA OneMoreLaid ==
  ASSUME NEW rs, NEW sequence, NEW size, NEW items, NEW r, NEW k, NEW t,
         Appends(rs, sequence, size, items, r, k, t)
  PROVE  Grown(rs, sequence, size, items, r, k, t)
<1>1. PICK e : e = [at |-> size, parts |-> k, record |-> r]
  BY Zenon
<1>2. /\ rs \in Seq(Entries) /\ t = Append(rs, e) /\ size = LaidSize(rs)
      /\ items = Held(rs, ItemTypes)
  BY <1>1, Zenon DEF Appends, Laid
<1>3. e \in Entries
  <2>1. size \in Nat /\ k \in 1..4 /\ r \in ItemRecords \cup FooterRecords
    BY Zenon DEF Appends
  <2> QED BY <1>1, <2>1 DEF Entries
<1>4. \A i \in 1..Len(rs) : rs[i].record.type # "FOOTER" /\ rs[i].record.sequence < sequence
  BY Zenon DEF Appends, Laid
<1>5. Lays(rs, r, k, t)
  BY <1>1, <1>2, <1>3, <1>4, Zenon DEF Lays, Appends, Laid
<1>6. /\ LaidOut(t) /\ InOrder(t) /\ LaidSize(t) = LaidSize(rs) + Extent(r, k)
      /\ Held(t, ItemTypes) = IF k = 4 /\ r.type \in ItemTypes
                              THEN Append(Held(rs, ItemTypes), r.body)
                              ELSE Held(rs, ItemTypes)
  <2>1. Lain(rs, r, k, t)
    BY <1>5, AppendLaid, Zenon
  <2> QED BY <2>1, Zenon DEF Lain
<1>7. /\ Len(rs) \in Nat /\ Len(t) = Len(rs) + 1 /\ t[Len(rs) + 1] = e
      /\ \A i \in 1..Len(rs) : t[i] = rs[i]
  <2>1. EndsWith(t, rs, e)
    BY <1>2, <1>3, AppendEnds, Zenon
  <2> QED BY <2>1, Zenon DEF EndsWith
<1>8. \A i \in 1..Len(rs) : rs[i].record.sequence \in Nat
  BY <1>2, EntryFields, Zenon
<1> QED BY <1>1, <1>2, <1>4, <1>6, <1>7, <1>8, Zenon DEF Grown

\* An item that is one more of them.
LEMMA ItemHeld ==
  ASSUME NEW rs, NEW sequence, NEW size, NEW items, NEW r, NEW k, NEW t,
         Appends(rs, sequence, size, items, r, k, t), r.type \in ItemTypes
  PROVE  Laid(t, sequence + 1, size + Extent(r, k),
              IF k = 4 THEN Append(items, r.body) ELSE items)
<1>0. sequence \in Nat
  BY Zenon DEF Appends
<1>1. r.sequence = sequence /\ Grown(rs, sequence, size, items, r, k, t)
  BY OneMoreLaid, Zenon DEF Appends
<1>2. /\ Len(rs) \in Nat /\ Len(t) = Len(rs) + 1 /\ t[Len(rs) + 1].record = r
      /\ \A i \in 1..Len(rs) :
           /\ t[i] = rs[i] /\ rs[i].record.type # "FOOTER"
           /\ rs[i].record.sequence \in Nat /\ rs[i].record.sequence < sequence
  <2>1. t[Len(rs) + 1].record = r
    <3>1. PICK e : e = [at |-> size, parts |-> k, record |-> r]
      BY Zenon
    <3>2. e.record = r
      BY <3>1
    <3> QED BY <1>1, <3>1, <3>2, Zenon DEF Grown
  <2> QED BY <1>1, <2>1, Zenon DEF Grown
<1>3. ASSUME NEW i \in 1..Len(t)
      PROVE  t[i].record.type # "FOOTER" /\ t[i].record.sequence < sequence + 1
  <2>1. i \in 1..Len(rs) \/ i = Len(rs) + 1
    BY <1>2, LastIndex, Zenon
  <2>2. r.type # "FOOTER" /\ sequence < sequence + 1
        /\ \A x \in Nat : x < sequence => x < sequence + 1
    BY <1>0 DEF ItemTypes
  <2> QED BY <1>1, <1>2, <2>1, <2>2, Zenon
<1> QED BY <1>1, <1>3, Zenon DEF Laid, Grown

\* Records that end with the footer r.
Closed(size, items, r, t) ==
  /\ LaidOut(t) /\ InOrder(t) /\ LaidSize(t) = size + Extent(r, 4)
  /\ Held(t, ItemTypes) = items
  /\ \A i \in 1..Len(t) : t[i].record.type = "FOOTER" =>
       /\ i = Len(t) /\ t[i].parts = 4 /\ t[i].record = r
       /\ EntryEnd(t[i]) = size + Extent(r, 4)

\* A footer that is one more of the records.
LEMMA FooterHeld ==
  ASSUME NEW rs, NEW sequence, NEW size, NEW items, NEW r, NEW t,
         Appends(rs, sequence, size, items, r, 4, t), r.type = "FOOTER"
  PROVE  Closed(size, items, r, t)
<1>1. PICK e, k : e = [at |-> size, parts |-> k, record |-> r] /\ k = 4
  BY Zenon
<1>2. /\ LaidOut(t) /\ InOrder(t) /\ LaidSize(t) = size + Extent(r, k)
      /\ Held(t, ItemTypes) = IF k = 4 /\ r.type \in ItemTypes
                              THEN Append(items, r.body) ELSE items
      /\ Len(rs) \in Nat /\ Len(t) = Len(rs) + 1 /\ t[Len(rs) + 1] = e
      /\ \A i \in 1..Len(rs) : t[i] = rs[i] /\ rs[i].record.type # "FOOTER"
  <2>1. Grown(rs, sequence, size, items, r, k, t)
    BY <1>1, OneMoreLaid, Zenon
  <2> QED BY <1>1, <2>1, Zenon DEF Grown
<1>3. Held(t, ItemTypes) = items
  BY <1>2 DEF ItemTypes
<1>4. e.at = size /\ e.parts = 4 /\ e.record = r
  BY <1>1
<1>5. EntryEnd(e) = size + Extent(r, 4)
  BY <1>4, Zenon DEF EntryEnd
<1>6. ASSUME NEW i \in 1..Len(t), t[i].record.type = "FOOTER"
      PROVE  i = Len(t) /\ t[i] = e
  <2>1. i \in 1..Len(rs) \/ i = Len(rs) + 1
    BY <1>2, LastIndex, Zenon
  <2> QED BY <1>2, <1>6, <2>1, Zenon
<1> QED BY <1>1, <1>2, <1>3, <1>4, <1>5, <1>6, Zenon DEF Closed

\* A file of these.
LEMMA ClosedFile ==
  ASSUME NEW f, NEW size, NEW items, NEW r, Closed(size, items, r, f.records),
         r.body.file_length = size + Extent(r, 4),
         f.media = "written", f.size <= LaidSize(f.records), f.holds = items
  PROVE  FileLaid(f)
<1>1. PICK t : t = f.records
  BY Zenon
<1>2. \A i \in 1..Len(t) : t[i].record.type = "FOOTER" =>
        i = Len(t) /\ t[i].parts = 4 /\ t[i].record.body.file_length = EntryEnd(t[i])
  BY <1>1, Zenon DEF Closed
<1>3. LaidOut(t) /\ InOrder(t) /\ Held(t, ItemTypes) = items
  BY <1>1, Zenon DEF Closed
<1> QED BY <1>1, <1>2, <1>3, Zenon DEF FileLaid

\* A sequence number may be passed over.
LEMMA LaidLater ==
  ASSUME NEW rs \in Seq(Entries), NEW sequence \in Nat, NEW size, NEW items,
         Laid(rs, sequence, size, items)
  PROVE  Laid(rs, sequence + 1, size, items)
<1>1. ASSUME NEW i \in 1..Len(rs) PROVE rs[i].record.sequence < sequence + 1
  <2>1. rs[i].record.sequence \in Nat
    BY <1>1, EntryFields, Zenon
  <2>2. rs[i].record.sequence < sequence
    BY <1>1, Zenon DEF Laid
  <2> QED BY <2>1, <2>2
<1> QED BY <1>1, Zenon DEF Laid

\* An item that is written leaves the muxer's records in order.
LEMMA ItemLaid ==
  ASSUME mux \in Muxers, MuxLaid, mux.open, NEW type \in ItemTypes, NEW item,
         ItemCall(type, item)
  PROVE  MuxLaid'
<1>1. /\ mux.records \in Seq(Entries) /\ mux.size \in Nat /\ mux.sequence \in Nat
      /\ Laid(mux.records, mux.sequence, mux.size, accepted)
  BY Zenon DEF MuxLaid, Muxers
<1>2. CASE mux' = mux /\ accepted' = accepted
  BY <1>2, Zenon DEF MuxLaid
<1>3. ASSUME NEW r, NEW k, ItemAppended(type, item, r, k) PROVE MuxLaid'
  <2>1. /\ r \in ItemRecords \cup FooterRecords /\ k \in 0..4 /\ mux' = WithRecord(r, k)
        /\ r = Record(r.type, r.sequence, r.payload_size, r.body)
        /\ r.type = type /\ r.sequence = mux.sequence /\ r.body = item
        /\ accepted' = IF k = 4 THEN Append(accepted, item) ELSE accepted
    BY <1>3, Zenon DEF ItemAppended
  <2>2. /\ mux'.sequence = mux.sequence + 1 /\ mux'.size = mux.size + Extent(r, k)
        /\ k = 0 => mux'.records = mux.records
        /\ k # 0 => mux'.records = Append(mux.records, [at |-> mux.size, parts |-> k, record |-> r])
    <3>1. PICK m : m = mux'
      BY Zenon
    <3>2. RecordAdded(m, r, k)
      BY <2>1, <3>1, WithRecordTyped, Zenon
    <3> QED BY <3>1, <3>2, Zenon DEF RecordAdded
  <2>3. CASE k = 0
    <3>1. k # 4 /\ mux.size + 0 = mux.size
      BY <1>1, <2>3
    <3>2. mux'.records = mux.records /\ mux'.size = mux.size /\ accepted' = accepted
      BY <2>1, <2>2, <2>3, <3>1, PartsEnd, Zenon
    <3>3. Laid(mux.records, mux.sequence + 1, mux.size, accepted)
      BY <1>1, LaidLater, Zenon
    <3> QED BY <2>2, <3>2, <3>3, Zenon DEF MuxLaid
  <2>4. CASE k # 0
    <3>1. k \in 1..4
      BY <2>1, <2>4
    <3>2. Appends(mux.records, mux.sequence, mux.size, accepted, r, k, mux'.records)
      BY <1>1, <2>1, <2>2, <2>4, <3>1, Zenon DEF Appends
    <3>3. Laid(mux'.records, mux.sequence + 1, mux.size + Extent(r, k),
               IF k = 4 THEN Append(accepted, r.body) ELSE accepted)
      BY <2>1, <3>2, ItemHeld, Zenon
    <3> QED BY <2>1, <2>2, <3>3, Zenon DEF MuxLaid
  <2> QED BY <2>3, <2>4, Zenon
<1> QED BY <1>2, <1>3, ItemCallEffect, Zenon

\* What tide_mux_close has written is in order, however much of it reached the disk.
LEMMA FinishedLaid ==
  ASSUME mux \in Muxers, MuxLaid, mux.open, NEW n \in Nat, n <= Finished.size
  PROVE  FileLaid(WrittenFile(Finished.records, n, accepted))
<1>1. /\ mux.records \in Seq(Entries) /\ mux.size \in Nat /\ mux.sequence \in Nat
      /\ Laid(mux.records, mux.sequence, mux.size, accepted)
  BY Zenon DEF MuxLaid, Muxers
<1>2. PICK f : f = WrittenFile(Finished.records, n, accepted)
  BY Zenon
<1>3. f.media = "written" /\ f.records = Finished.records /\ f.size = n /\ f.holds = accepted
  BY <1>2 DEF WrittenFile
<1>4. CASE ~mux.write_footer
  <2>1. Finished = mux
    BY <1>4, Zenon DEF Finished
  <2>2. f.records = mux.records /\ n <= LaidSize(mux.records)
    BY <1>1, <1>3, <2>1, Zenon DEF Laid
  <2> QED BY <1>1, <1>2, <1>3, <2>2, Zenon DEF FileLaid, Laid
<1>5. CASE mux.write_footer
  <2>1. PICK r : r = FooterRecord
    BY Zenon
  <2>2. /\ r \in FooterRecords /\ r.sequence = mux.sequence
        /\ r = Record("FOOTER", mux.sequence, FOOTER_PAYLOAD_SIZE, r.body)
        /\ r.body.file_length = mux.size + Extent(r, 4)
    BY <2>1, FooterTyped, Zenon
  <2>3. r.type = "FOOTER" /\ r = Record(r.type, r.sequence, r.payload_size, r.body)
    <3>1. r.type = "FOOTER"
      BY <2>2, Zenon DEF FooterRecords, RecordsWith
    <3>2. r.payload_size = FOOTER_PAYLOAD_SIZE
      BY <2>2 DEF Record
    <3> QED BY <2>2, <3>1, <3>2, Zenon
  <2>4. PICK k, m : k = 4 /\ k # 0 /\ k \in 0..4 /\ k \in 1..4 /\ m = WithRecord(r, k)
    OBVIOUS
  <2>5. Finished = m
    BY <1>5, <2>1, <2>4, Zenon DEF Finished
  <2>6. /\ m.size = mux.size + Extent(r, k)
        /\ m.records = Append(mux.records, [at |-> mux.size, parts |-> k, record |-> r])
    <3>1. RecordAdded(m, r, k)
      BY <2>2, <2>4, WithRecordTyped, Zenon
    <3> QED BY <2>4, <3>1, Zenon DEF RecordAdded
  <2>7. Appends(mux.records, mux.sequence, mux.size, accepted, r, 4, m.records)
    BY <1>1, <2>2, <2>3, <2>4, <2>6, Zenon DEF Appends
  <2>8. Closed(mux.size, accepted, r, m.records)
    BY <2>3, <2>7, FooterHeld, Zenon
  <2>9. n <= LaidSize(m.records)
    BY <2>4, <2>5, <2>6, <2>8, Zenon DEF Closed
  <2> QED BY <1>2, <1>3, <2>2, <2>5, <2>8, <2>9, ClosedFile, Zenon
<1> QED BY <1>4, <1>5, Zenon

=============================================================================
