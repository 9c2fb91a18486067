---------------------------- MODULE StorageProofs ----------------------------
(****************************************************************************)
(* Proofs about what jobs leave on disk: the files stay in order through    *)
(* every step, and a sealed one reads back as what was accepted for it.     *)
(****************************************************************************)
EXTENDS WorkflowProofs

------------------------------------------------------------------------------
(* The files and the muxer stay in order *)

\* A step that writes nothing.
LEMMA StoredKept ==
  ASSUME Stored, disk' = disk, mux' = mux, accepted' = accepted, source'.file = source.file
  PROVE  Stored'
BY DEF Stored, MuxLaid

\* A step that leaves the muxer closed.
LEMMA StoredClosed ==
  ASSUME Sane, Stored, ~mux'.open, source'.file = source.file,
         \/ disk' = disk
         \/ mux.open /\ \E n \in 0..Finished.size : Flushed(Finished, n)
  PROVE  Stored'
<1>1. /\ mux \in Muxers /\ (mux.open => mux.path \in Path) /\ accepted \in Seq(Items)
      /\ DOMAIN disk = Path /\ \A p \in Path : IsFile(disk[p])
  BY DEF Sane, Typed
<1>2. \A p \in Path : FileLaid(disk'[p])
  <2>1. CASE disk' = disk
    BY <2>1 DEF Stored
  <2>2. ASSUME mux.open, NEW n \in 0..Finished.size, Flushed(Finished, n)
        PROVE  \A p \in Path : FileLaid(disk'[p])
    <3>1. Finished.size \in Nat
      BY <1>1, FinishedTyped DEF Muxers
    <3>2. n \in Nat /\ n <= Finished.size
      BY <3>1
    <3>3. /\ disk'[mux.path] = WrittenFile(Finished.records, n, accepted)
          /\ \A p \in Path \ {mux.path} : disk'[p] = disk[p]
      BY <1>1, <2>2, <3>2, FlushedTyped, Zenon
    <3>4. FileLaid(WrittenFile(Finished.records, n, accepted))
      BY <1>1, <2>2, <3>2, FinishedLaid, Zenon DEF Stored
    <3> QED BY <3>3, <3>4 DEF Stored
  <2> QED BY <2>1, <2>2
<1>3. MuxLaid'
  BY DEF MuxLaid
<1> QED BY <1>2, <1>3 DEF Stored

\* A job creates its muxer.
LEMMA StoredCreate ==
  ASSUME Sane, Stored, CreateMux
  PROVE  Stored'
<1>1. /\ tide_mux_create(job.out, job.write_footer, job.base_valid) /\ source' = source
      /\ pc = "create"
  BY DEF CreateMux
<1>2. /\ job.out \in Path /\ ~mux.open /\ DOMAIN disk = Path
      /\ \A p \in Path : IsFile(disk[p])
  BY <1>1, WorkflowAssumption, Zenon DEF Sane, Control, Typed, MuxOpenAt, Job
<1>3. disk' = disk \/ Truncated(job.out)
  BY <1>1 DEF tide_mux_create
<1>4. \A p \in Path : FileLaid(disk'[p])
  <2>1. CASE disk' = disk
    BY <2>1 DEF Stored
  <2>2. CASE Truncated(job.out)
    BY <1>2, <2>2, TruncatedTyped, PlainFilesLaid, Zenon DEF Stored
  <2> QED BY <1>3, <2>1, <2>2
<1>5. MuxLaid'
  <2>1. CASE mux' = mux
    BY <1>2, <2>1 DEF MuxLaid
  <2>2. CASE mux' = [open |-> TRUE, path |-> job.out, write_footer |-> job.write_footer,
                     sequence |-> 0, size |-> TIDE_HEADER_SIZE, records |-> <<>>]
    <3>1. mux'.records = <<>> /\ mux'.size = TIDE_HEADER_SIZE /\ accepted' = <<>>
      BY <1>1, <2>2 DEF tide_mux_create
    <3> QED BY <3>1, NothingLaid DEF MuxLaid, Laid
  <2> QED BY <1>1, <2>1, <2>2 DEF tide_mux_create
<1> QED BY <1>1, <1>4, <1>5 DEF Stored

\* A job writes an item.
LEMMA StoredItem ==
  ASSUME Sane, Stored, CopyStream \/ CopyPacket \/ WriteCall
  PROVE  Stored'
<1>1. \E type \in ItemTypes, item \in Items : mux.open /\ ItemCall(type, item)
  BY CopyStreamCalls, CopyPacketCalls, WriteCallItem, Zenon DEF ItemTypes
<1>2. mux \in Muxers /\ MuxLaid /\ source' = source
  BY DEF Sane, Typed, Stored, CopyStream, CopyPacket, WriteCall
<1>3. disk' = disk /\ MuxLaid'
  BY <1>1, <1>2, ItemCallEffect, ItemLaid, Zenon
<1> QED BY <1>2, <1>3 DEF Stored

\* Every step leaves the files in order.
LEMMA StoredNext ==
  ASSUME Sane, Stored, [Next]_vars
  PROVE  Stored'
<1>1. CASE UNCHANGED vars
  BY <1>1, StoredKept DEF vars, muxVars, jobVars
<1>2. ASSUME NEW j \in Jobs, Start(j) PROVE Stored'
  <2>1. disk' = disk /\ mux' = mux /\ ~mux.open /\ source'.file = NoFile
    BY <1>2, Zenon DEF Start, Sane, Control, MuxOpenAt, NoSource
  <2> QED BY <2>1, PlainFilesLaid DEF Stored, MuxLaid
<1>3. CASE tide_source_from_file
  <2>1. /\ UNCHANGED muxVars /\ job.in \in Path
        /\ source' = source \/ source'.file = disk[job.in]
    BY <1>3, WorkflowAssumption DEF tide_source_from_file, Sane, Control, Job
  <2> QED BY <2>1 DEF Stored, MuxLaid, muxVars
<1>4. CASE \/ tide_repair_scan \/ RepairPrefix \/ OpenDemux \/ StreamsDone \/ ReadPacket
           \/ PacketsDone \/ WriteDone
  <2>1. UNCHANGED muxVars /\ source' = source
    BY <1>4 DEF tide_repair_scan, RepairPrefix, OpenDemux, StreamsDone, ReadPacket,
                PacketsDone, WriteDone
  <2> QED BY <2>1, StoredKept, Zenon DEF muxVars
<1>5. CASE CloseMux \/ AbortMux
  <2>1. mux \in Muxers
    BY DEF Sane, Typed
  <2>2. /\ mux' = NoMux /\ source' = source
        /\ \/ disk' = disk
           \/ mux.open /\ \E n \in 0..Finished.size : Flushed(Finished, n)
    BY <1>5, <2>1, CloseEffect, Zenon DEF CloseMux, AbortMux, tide_mux_abort
  <2> QED BY <2>2, StoredClosed DEF NoMux
<1>6. CASE Finish \/ Kill
  <2>1. source'.file = source.file
    BY <1>6 DEF Finish, Kill, Sane, Typed
  <2>2. ~mux'.open
    <3>1. CASE Finish
      <4>1. pc = "finish" /\ mux' = mux
        BY <3>1 DEF Finish, muxVars
      <4> QED BY <4>1, Zenon DEF Sane, Control, MuxOpenAt
    <3>2. CASE Kill
      BY <3>2 DEF Kill, NoMux
    <3> QED BY <1>6, <3>1, <3>2
  <2>3. \/ disk' = disk
        \/ mux.open /\ \E n \in 0..Finished.size : Flushed(Finished, n)
    BY <1>6, Zenon DEF Finish, Kill, Sane, Control, MuxOpenAt, muxVars, PartlyFlushed
  <2> QED BY <2>1, <2>2, <2>3, StoredClosed, Zenon
<1> QED BY <1>1, <1>2, <1>3, <1>4, <1>5, <1>6, StoredCreate, StoredItem, Zenon DEF Next, Work

\* The files are in order at first.
LEMMA StoredInit ==
  Init => Stored
<1> SUFFICES ASSUME Init PROVE Stored
  OBVIOUS
<1>1. PICK file \in {Sample(m) : m \in DOMAIN Media} \cup {NoFile} :
        disk = [p \in Path |-> IF p = INPUT THEN file ELSE NoFile]
  BY DEF Init
<1>2. FileLaid(file) /\ FileLaid(NoFile)
  BY PlainFilesLaid
<1>3. source.file = NoFile /\ ~mux.open
  BY DEF Init, NoSource, NoMux
<1> QED BY <1>1, <1>2, <1>3, Zenon DEF Stored, MuxLaid

\* The inductive invariant of jobs and what they leave.
Jobwise == Sane /\ Stored

\* It holds always.
LEMMA JobwiseAlways ==
  Spec => []Jobwise
<1>1. Init => Jobwise
  BY ControlInit, TypedInit, StoredInit DEF Sane, Jobwise
<1>2. Jobwise /\ [Next]_vars => Jobwise'
  BY SaneNext, StoredNext DEF Jobwise
<1> QED BY <1>1, <1>2, PTL DEF Spec

\* However its muxer was stopped, by a failed append, a write error or a kill, no two
\* records of a file have the same sequence number, and they increase.
THEOREM SequencesAlwaysIncrease ==
  Spec => []SequencesIncrease
<1>1. Jobwise => SequencesIncrease
  <2> SUFFICES ASSUME Jobwise, NEW p \in Path
               PROVE  \A i, j \in DOMAIN disk[p].records :
                        i < j => disk[p].records[i].record.sequence
                                   < disk[p].records[j].record.sequence
    BY DEF SequencesIncrease
  <2>1. disk[p].records \in Seq(Entries)
    BY DEF Jobwise, Sane, Typed, IsFile, Files
  <2>2. DOMAIN disk[p].records = 1..Len(disk[p].records)
    BY <2>1
  <2>3. InOrder(disk[p].records)
    BY Zenon DEF Jobwise, Stored, FileLaid
  <2> QED BY <2>2, <2>3 DEF InOrder
<1> QED BY <1>1, JobwiseAlways, PTL

------------------------------------------------------------------------------
(* How a written file reads back *)

\* Where record k starts, or would if there were one more.
Position(rs, k) == IF k <= Len(rs) THEN rs[k].at ELSE LaidSize(rs)

\* Each record starts where the one before it ends.
LEMMA PositionNext ==
  ASSUME NEW rs \in Seq(Entries), LaidOut(rs), NEW k \in 1..Len(rs)
  PROVE  /\ Position(rs, 1) = TIDE_HEADER_SIZE
         /\ Position(rs, k) = rs[k].at /\ Position(rs, k) \in Nat
         /\ Position(rs, k + 1) = EntryEnd(rs[k]) /\ Position(rs, k + 1) \in Nat
         /\ Position(rs, k) < Position(rs, k + 1)
<1> DEFINE r == rs[k].record
<1>1. /\ Len(rs) \in Nat /\ rs[k].at \in Nat /\ rs[k].parts \in 1..4
      /\ r \in ItemRecords \cup FooterRecords /\ r.sequence \in Nat /\ r.payload_size \in Nat
  BY EntryFields
<1>2. r = Record(r.type, r.sequence, r.payload_size, r.body)
  BY DEF LaidOut
<1> HIDE DEF r
<1>3. r.header_size \in Nat \ {0}
  <2>1. PICK q \in Nat, n \in Nat : q = r.sequence /\ n = r.payload_size
    BY <1>1
  <2>2. PICK t, b : t = r.type /\ b = r.body
    OBVIOUS
  <2>3. r = Record(t, q, n, b)
    BY <1>2, <2>1, <2>2, Zenon
  <2> QED BY <2>3, RecordLaidOut, Zenon
<1>4. Extent(r, rs[k].parts) \in Nat \ {0}
  <2>1. rs[k].parts \in {1, 2, 3, 4}
    BY <1>1
  <2>2. /\ Extent(r, 1) = r.header_size /\ r.payload_size \in Nat
        /\ \A i \in 0..4 : Extent(r, i) \in Nat
        /\ \A i \in 0..3 : Extent(r, i) <= Extent(r, i + 1)
    BY <1>1, PartsEnd, Zenon
  <2>3. /\ Extent(r, 1) \in Nat /\ Extent(r, 2) \in Nat /\ Extent(r, 3) \in Nat
        /\ Extent(r, 4) \in Nat /\ Extent(r, 1) <= Extent(r, 1 + 1)
        /\ Extent(r, 2) <= Extent(r, 2 + 1) /\ Extent(r, 3) <= Extent(r, 3 + 1)
    BY <2>2
  <2>4. 1 + 1 = 2 /\ 2 + 1 = 3 /\ 3 + 1 = 4
    OBVIOUS
  <2>5. Extent(r, 1) > 0 /\ Extent(r, 2) > 0 /\ Extent(r, 3) > 0 /\ Extent(r, 4) > 0
    BY <1>3, <2>2, <2>3, <2>4
  <2> QED BY <2>1, <2>3, <2>5
<1>5. Position(rs, 1) = TIDE_HEADER_SIZE
  <2>1. 1 \in 1..Len(rs) /\ 1 <= Len(rs)
    BY <1>1
  <2> QED BY <2>1 DEF Position, LaidOut
<1>6. Position(rs, k + 1) = EntryEnd(rs[k])
  <2>1. CASE k = Len(rs)
    BY <1>1, <2>1 DEF Position, LaidSize
  <2>2. CASE k # Len(rs)
    <3>1. k + 1 \in 1..Len(rs) /\ k + 1 <= Len(rs) /\ k + 1 # 1 /\ (k + 1) - 1 = k
      BY <1>1, <2>2
    <3>2. PICK m : m = k + 1
      OBVIOUS
    <3>3. rs[m].at = EntryEnd(rs[m - 1])
      BY <3>1, <3>2, Zenon DEF LaidOut
    <3> QED BY <3>1, <3>2, <3>3, Zenon DEF Position
  <2> QED BY <2>1, <2>2, Zenon
<1>7. Position(rs, k) = rs[k].at
  BY <1>1 DEF Position
<1> QED BY <1>1, <1>4, <1>5, <1>6, <1>7 DEF EntryEnd, r

\* So no two start at the same offset.
LEMMA PositionsIncrease ==
  ASSUME NEW rs \in Seq(Entries), LaidOut(rs), NEW i \in 1..(Len(rs) + 1),
         NEW j \in 1..(Len(rs) + 1), i < j
  PROVE  Position(rs, i) < Position(rs, j)
<1>1. Len(rs) \in Nat
  OBVIOUS
<1> DEFINE X == {n \in (i + 1)..(Len(rs) + 1) : ~(Position(rs, i) < Position(rs, n))}
<1> SUFFICES ASSUME X # {} PROVE FALSE
  BY <1>1
<1>2. PICK n \in X : \A m \in X : n <= m
  <2>1. X \in SUBSET Nat
    BY <1>1
  <2> HIDE DEF X
  <2> QED BY <2>1, LeastNumber
<1>3. PICK k : k = n - 1
  OBVIOUS
<1>4. k \in 1..Len(rs) /\ i \in 1..Len(rs) /\ k + 1 = n /\ (k = i \/ (k \in (i + 1)..(Len(rs) + 1) /\ k \notin X))
  BY <1>1, <1>2, <1>3
<1>5. /\ Position(rs, k) < Position(rs, k + 1) /\ Position(rs, k) \in Nat
      /\ Position(rs, k + 1) \in Nat /\ Position(rs, i) \in Nat
  BY <1>4, PositionNext
<1> QED BY <1>2, <1>4, <1>5

\* What is read at the start of a record is that record.
LEMMA FrameFound ==
  ASSUME NEW rs \in Seq(Entries), LaidOut(rs), NEW k \in 1..Len(rs)
  PROVE  FrameAt(rs, Position(rs, k)) = ReadBack(rs[k])
<1> DEFINE o == Position(rs, k)
           i == CHOOSE i \in DOMAIN rs : rs[i].at = o
<1>1. o = rs[k].at /\ DOMAIN rs = 1..Len(rs) /\ Len(rs) \in Nat
  BY PositionNext
<1>2. i \in DOMAIN rs /\ rs[i].at = o
  BY <1>1, Zenon
<1>3. FrameAt(rs, o) = ReadBack(rs[i])
  BY <1>1 DEF FrameAt
<1> HIDE DEF i, o
<1>4. Position(rs, i) = rs[i].at /\ i \in 1..Len(rs) /\ Position(rs, i) \in Nat /\ Position(rs, k) \in Nat
  BY <1>1, <1>2, PositionNext
<1>5. i = k
  <2>1. i \in 1..(Len(rs) + 1) /\ k \in 1..(Len(rs) + 1)
    BY <1>1, <1>4
  <2>2. ~(i < k) /\ ~(k < i)
    BY <1>1, <1>2, <1>4, <2>1, PositionsIncrease DEF o
  <2> QED BY <1>4, <2>2
<1> QED BY <1>3, <1>5, Zenon DEF o

\* What the callbacks in C were called for, in order.
Given(data, events, C) ==
  LET called == Kept(events, {i \in DOMAIN events : events[i].cb \in C})
  IN  [i \in DOMAIN called |-> data.frame[called[i].at].body]

\* One more callback.
OneMore(events, e, more) ==
  events \in Seq(EventsOf) /\ e \in EventsOf /\ more = Append(events, e)

\* It is one more element of what was given, if it is in C.
GivenMore(data, events, e, more, C) ==
  Given(data, more, C) = IF e.cb \in C
                         THEN Append(Given(data, events, C), data.frame[e.at].body)
                         ELSE Given(data, events, C)

\* This is so.
LEMMA GivenAppend ==
  ASSUME NEW data, NEW events, NEW e, NEW more, OneMore(events, e, more), NEW C
  PROVE  GivenMore(data, events, e, more, C)
<1> events \in Seq(EventsOf) /\ e \in EventsOf /\ more = Append(events, e)
  BY DEF OneMore
<1> DEFINE n == Len(events)
           c == {i \in DOMAIN events : events[i].cb \in C}
           d == {i \in DOMAIN more : more[i].cb \in C}
           b(x) == data.frame[x.at].body
           B == {b(x) : x \in EventsOf}
           k == Kept(events, c)
           l == Kept(more, d)
<1>1. /\ n \in Nat /\ more \in Seq(EventsOf) /\ Len(more) = n + 1 /\ more[n + 1] = e
      /\ \A i \in 1..n : more[i] = events[i]
  BY AppendProperties
<1>2. DOMAIN events = 1..n /\ DOMAIN more = 1..(n + 1)
  BY <1>1
<1>3. /\ n + 1 \in d <=> e.cb \in C
      /\ \A i \in 1..n : i \in c <=> i \in d
  BY <1>1, <1>2
<1> HIDE DEF c, d, n
<1>4. Longer(EventsOf, events, e, more, c, d)
  BY <1>3 DEF Longer, n
<1>5. /\ e.cb \in C => l = Append(k, e)
      /\ e.cb \notin C => l = k
  BY <1>3, <1>4, KeptAppend DEF n
<1>6. k \in Seq(EventsOf)
  BY KeptSeq
<1>7. Given(data, events, C) = [i \in DOMAIN k |-> b(k[i])]
  BY DEF Given, c
<1>8. Given(data, more, C) = [i \in DOMAIN l |-> b(l[i])]
  BY DEF Given, d
<1> HIDE DEF k, l
<1>9. CASE e.cb \in C
  <2> DEFINE g == [i \in DOMAIN k |-> b(k[i])]
             h == [i \in DOMAIN l |-> b(l[i])]
  <2>1. /\ Len(k) \in Nat /\ DOMAIN k = 1..Len(k) /\ DOMAIN l = 1..(Len(k) + 1)
        /\ l[Len(k) + 1] = e /\ \A i \in 1..Len(k) : l[i] = k[i] /\ k[i] \in EventsOf
    <3>1. l = Append(k, e)
      BY <1>5, <1>9, Zenon
    <3>2. EndsWith(l, k, e)
      BY <1>6, <3>1, AppendEnds, Zenon
    <3>3. DOMAIN k = 1..Len(k) /\ \A i \in 1..Len(k) : k[i] \in EventsOf
      BY <1>6, LenProperties, ElementOfSeq, Zenon
    <3> QED BY <3>2, <3>3, Zenon DEF EndsWith
  <2>2. g \in [1..Len(k) -> B]
    BY <2>1
  <2> HIDE DEF B
  <2>3. g \in Seq(B) /\ Len(g) = Len(k)
    BY <2>1, <2>2, LenProperties
  <2>4. b(e) \in B
    BY DEF B
  <2> HIDE DEF b
  <2>5. h = Append(g, b(e))
    <3>1. /\ Append(g, b(e)) \in Seq(B) /\ Len(Append(g, b(e))) = Len(k) + 1
          /\ \A i \in 1..Len(k) : Append(g, b(e))[i] = g[i]
          /\ Append(g, b(e))[Len(k) + 1] = b(e)
      BY <2>3, <2>4, AppendProperties
    <3>2. DOMAIN Append(g, b(e)) = 1..(Len(k) + 1)
      BY <3>1
    <3>3. \A i \in 1..(Len(k) + 1) : h[i] = Append(g, b(e))[i]
      <4> SUFFICES ASSUME NEW i \in 1..(Len(k) + 1) PROVE h[i] = Append(g, b(e))[i]
        BY Zenon
      <4>1. CASE i \in 1..Len(k)
        BY <2>1, <3>1, <4>1, Zenon
      <4>2. CASE i = Len(k) + 1
        BY <2>1, <3>1, <4>2, Zenon
      <4> QED BY <2>1, <4>1, <4>2
    <3>4. Append(g, b(e)) = [i \in 1..(Len(k) + 1) |-> Append(g, b(e))[i]]
      BY <3>1, <3>2
    <3>5. h = [i \in 1..(Len(k) + 1) |-> h[i]]
      BY <2>1
    <3> HIDE DEF h
    <3> QED BY <3>3, <3>4, <3>5, Zenon
  <2> QED BY <1>7, <1>8, <1>9, <2>5, Zenon DEF b, GivenMore
<1>10. CASE e.cb \notin C
  BY <1>5, <1>7, <1>8, <1>10, Zenon DEF GivenMore
<1> QED BY <1>9, <1>10

\* data is what is left of a file with the records rs.
Written(data, rs) ==
  /\ rs \in Seq(Entries) /\ LaidOut(rs) /\ IsData(data) /\ data.size <= LaidSize(rs)
  /\ \A o \in 0..data.size : data.frame[o] = FrameAt(rs, o)

\* The callback for a record of the given type, and the records before record k with a
\* callback in C.
Callback(type) ==
  IF type = "STREAM_DESC" THEN "stream" ELSE IF type = "PACKET" THEN "packet" ELSE "none"
Before(rs, k, C) == {i \in 1..(k - 1) : Callback(rs[i].record.type) \in C}
TrackNames(rs) == [i \in 1..Len(rs) |-> rs[i].record.body.track]

\* A parse of data has come to record k: all before it are whole, and it called back
\* for those and no other.
Walked(data, rs, k, q) ==
  /\ q \in Parsed /\ k \in 1..(Len(rs) + 1) /\ Position(rs, k) <= data.size
  /\ q.valid_prefix = Position(rs, k)
  /\ q.tracks = Kept(TrackNames(rs), Before(rs, k, {"stream"}))
  /\ \A i \in 1..(k - 1) : rs[i].parts = 4
  /\ \A C \in SUBSET {"stream", "packet"} :
       Given(data, q.events, C) = Kept(Bodies(rs), Before(rs, k, C))

WalkCall(data, rs, k, q) ==
  [cursor |-> Position(rs, k), end |-> data.size, depth |-> 0, seen |-> q]

\* The tracks and the bodies of a file's records are as many as the records.
LEMMA NamesAndBodies ==
  ASSUME NEW rs \in Seq(Entries)
  PROVE  /\ \E T : TrackNames(rs) \in Seq(T)
         /\ \E B : Bodies(rs) \in Seq(B)
         /\ Len(TrackNames(rs)) = Len(rs) /\ Len(Bodies(rs)) = Len(rs)
         /\ \A k \in 1..Len(rs) :
              /\ TrackNames(rs)[k] = rs[k].record.body.track
              /\ Bodies(rs)[k] = rs[k].record.body
<1>1. TrackNames(rs) \in Seq({rs[i].record.body.track : i \in 1..Len(rs)})
      /\ Len(TrackNames(rs)) = Len(rs)
  BY DEF TrackNames
<1>2. Bodies(rs) \in Seq({rs[i].record.body : i \in 1..Len(rs)})
      /\ Len(Bodies(rs)) = Len(rs)
  BY DEF Bodies
<1>3. \A k \in 1..Len(rs) : /\ TrackNames(rs)[k] = rs[k].record.body.track
                            /\ Bodies(rs)[k] = rs[k].record.body
  BY Zenon DEF TrackNames, Bodies
<1> QED BY <1>1, <1>2, <1>3, Zenon

\* s has one element for each of the records, record k among them.
OneEach(rs, k, s) ==
  /\ rs \in Seq(Entries) /\ k \in 1..Len(rs) /\ Len(s) = Len(rs)
  /\ \E X : s \in Seq(X)

\* What is chosen of s before record k + 1: what is before record k, and that one.
ChosenNext(rs, k, C, s) ==
  Kept(s, Before(rs, k + 1, C)) =
    IF Callback(rs[k].record.type) \in C
    THEN Append(Kept(s, Before(rs, k, C)), s[k]) ELSE Kept(s, Before(rs, k, C))

\* This is so for the records of every file the muxer writes.
LEMMA BeforeNext ==
  ASSUME NEW rs, NEW k, NEW s, OneEach(rs, k, s), NEW C
  PROVE  ChosenNext(rs, k, C, s)
<1>0. PICK X : rs \in Seq(Entries) /\ k \in 1..Len(rs) /\ Len(s) = Len(rs) /\ s \in Seq(X)
  BY DEF OneEach
<1> DEFINE c == Before(rs, k, C)
           d == Before(rs, k + 1, C)
<1>1. k \in Nat /\ (k + 1) - 1 = k /\ k \in 1..Len(s)
  BY <1>0
<1>2. d = {i \in 1..k : Callback(rs[i].record.type) \in C}
  BY <1>1 DEF Before
<1>3. c \subseteq 1..(k - 1)
  BY DEF Before
<1>4. CASE Callback(rs[k].record.type) \in C
  <2>1. d = c \cup {k}
    BY <1>1, <1>2, <1>4 DEF Before
  <2> HIDE DEF c, d
  <2>2. Later(X, s, k, c, d)
    BY <1>0, <1>1, <1>3, <2>1, Zenon DEF Later
  <2> QED BY <1>4, <2>2, KeptLater DEF c, d, ChosenNext
<1>5. CASE Callback(rs[k].record.type) \notin C
  <2>1. d = c
    BY <1>1, <1>2, <1>5 DEF Before
  <2> QED BY <1>5, <2>1 DEF ChosenNext
<1> QED BY <1>4, <1>5

\* A record of a written file that is processed without error
ReadOK(f, o, seen, p) ==
  /\ f.type \in {"STREAM_DESC", "PACKET", "FOOTER"} /\ seen \in Parsed
  /\ p = ProcessLeaf(f, o, {}, seen) /\ p.status = "OK"

\* is called back for.
CalledFor(f, o, seen, p) ==
  /\ p.tracks = IF f.type = "STREAM_DESC" THEN Append(seen.tracks, f.body.track)
                ELSE seen.tracks
  /\ p.events = IF f.type = "FOOTER" THEN seen.events
                ELSE Append(seen.events, [cb |-> Callback(f.type), at |-> o])

\* This is so.
LEMMA LeafRead ==
  ASSUME NEW f, NEW o, NEW seen, NEW p, ReadOK(f, o, seen, p)
  PROVE  CalledFor(f, o, seen, p)
<1> /\ f.type \in {"STREAM_DESC", "PACKET", "FOOTER"} /\ seen \in Parsed
    /\ p = ProcessLeaf(f, o, {}, seen) /\ p.status = "OK"
  BY DEF ReadOK
<1> DEFINE t == Append(seen.tracks, f.body.track)
           e(cb) == Append(seen.events, [cb |-> cb, at |-> o])
<1>1. CASE f.type = "STREAM_DESC"
  <2>1. \/ p = [seen EXCEPT !.tracks = t, !.events = e("stream")]
        \/ \E st \in {StreamDescStatus(f.body), "FORMAT", "RESOURCE"} \ {"OK"} :
             p = [seen EXCEPT !.status = st]
    BY <1>1 DEF ProcessLeaf, SimpleType
  <2> HIDE DEF t, e
  <2>2. p = [seen EXCEPT !.tracks = t, !.events = e("stream")]
    BY <2>1 DEF Parsed
  <2>3. p.tracks = t /\ p.events = e("stream")
    BY <2>2, Zenon DEF Parsed
  <2> QED BY <1>1, <2>3, Zenon DEF t, e, Callback, CalledFor
<1>2. CASE f.type = "PACKET"
  <2>1. \/ p = [seen EXCEPT !.events = e("packet")]
        \/ \E st \in {PacketStatus(f.body, seen.tracks)} \ {"OK"} : p = [seen EXCEPT !.status = st]
    BY <1>2 DEF ProcessLeaf, SimpleType
  <2> HIDE DEF e
  <2>2. p = [seen EXCEPT !.events = e("packet")]
    BY <2>1 DEF Parsed
  <2>3. p.tracks = seen.tracks /\ p.events = e("packet")
    BY <2>2 DEF Parsed
  <2> QED BY <1>2, <2>3 DEF e, Callback, CalledFor
<1>3. CASE f.type = "FOOTER"
  <2>1. p = [seen EXCEPT !.status = tide_emit_simple_record(f, o, seen.tracks)]
    BY <1>3 DEF ProcessLeaf, SimpleType
  <2> QED BY <1>3, <2>1 DEF Parsed, CalledFor
<1> QED BY <1>1, <1>2, <1>3, Zenon

\* f is the frame that is read at the start of record k.
FrameHere(data, rs, k, o, f) ==
  /\ Written(data, rs) /\ k \in 1..Len(rs)
  /\ o = Position(rs, k) /\ o < data.size /\ f = data.frame[o]

\* It passes its checks only if the record is whole, and ends where the next one starts.
FrameWhole(data, rs, k, o, f) ==
  /\ o \in Nat /\ IsFrame(f)
  /\ CheckRecord(f, o, data.size) = "OK" =>
       /\ rs[k].parts = 4 /\ f = rs[k].record
       /\ f.type \in {"STREAM_DESC", "PACKET", "FOOTER"}
       /\ CrcEnd(f, o) = Position(rs, k + 1) /\ Position(rs, k + 1) <= data.size

\* Every frame of a written file is so.
LEMMA FrameRead ==
  ASSUME NEW data, NEW rs, NEW k, NEW o, NEW f, FrameHere(data, rs, k, o, f)
  PROVE  FrameWhole(data, rs, k, o, f)
<1>0. /\ Written(data, rs) /\ k \in 1..Len(rs)
      /\ o = Position(rs, k) /\ o < data.size /\ f = data.frame[o]
  BY Zenon DEF FrameHere
<1>1. /\ rs \in Seq(Entries) /\ LaidOut(rs) /\ IsData(data) /\ data.size \in Nat
      /\ \A x \in 0..data.size : data.frame[x] = FrameAt(rs, x) /\ IsFrame(data.frame[x])
  BY <1>0, Zenon DEF Written, IsData
<1>2. o \in 0..data.size /\ o = rs[k].at /\ Position(rs, k + 1) = EntryEnd(rs[k])
  BY <1>0, <1>1, PositionNext
<1>3. f = ReadBack(rs[k]) /\ IsFrame(f)
  BY <1>0, <1>1, <1>2, FrameFound, Zenon
<1> DEFINE r == rs[k].record
<1>4. /\ r \in ItemRecords \cup FooterRecords /\ rs[k].parts \in 1..4
      /\ r.type \in {"STREAM_DESC", "PACKET", "FOOTER"} /\ r \in RecordsWith(ItemTypes, Items) \cup FooterRecords
  <2>1. /\ r \in ItemRecords \cup FooterRecords /\ rs[k].parts \in 1..4
        /\ r.type \in {"STREAM_DESC", "PACKET", "FOOTER"}
    BY <1>0, <1>1, EntryFields, Zenon
  <2> HIDE DEF r
  <2> QED BY <2>1, ItemRecordFields, Zenon
<1>5. ASSUME CheckRecord(f, o, data.size) = "OK"
      PROVE  /\ rs[k].parts = 4 /\ f = r /\ CrcEnd(f, o) = Position(rs, k + 1)
             /\ Position(rs, k + 1) <= data.size
  <2>1. f.integrity = "OK"
    BY <1>5, Zenon DEF CheckRecord
  <2>2. rs[k].parts = 4
    <3> SUFFICES ASSUME rs[k].parts # 4 PROVE FALSE
      OBVIOUS
    <3>1. f = [r EXCEPT !.integrity = "INTEGRITY"]
      BY <1>3 DEF ReadBack
    <3> HIDE DEF r
    <3>2. f.integrity = "INTEGRITY"
      BY <1>4, <3>1 DEF RecordsWith, FooterRecords
    <3> QED BY <2>1, <3>2, Zenon
  <2>3. f = r
    BY <1>3, <2>2, Zenon DEF ReadBack
  <2>4. CrcEnd(f, o) <= data.size /\ CrcEnd(f, o) \in Nat
    BY <1>1, <1>2, <1>3, <1>5, FrameBounds
  <2>5. CrcEnd(f, 0) = Extent(r, 4) /\ Extent(r, 4) \in Nat
    <3>1. 4 \in 0..4
      OBVIOUS
    <3> QED BY <1>4, <2>3, <3>1, PartsEnd, Zenon
  <2>6. CrcEnd(f, o) = o + CrcEnd(f, 0)
    <3> DEFINE v == tide_align_u64(UnpaddedSize(f), Alignment(f))
    <3>1. CrcEnd(f, 0) = 0 + v + RECORD_CRC_SIZE /\ CrcEnd(f, o) = o + v + RECORD_CRC_SIZE
      BY DEF CrcEnd, PaddingEnd
    <3>2. v \in Nat
      <4>1. f.header_size \in Nat /\ f.payload_size \in Nat /\ f.alignment_log2 = MUX_ALIGNMENT_LOG2
        BY <1>4, <2>3, Zenon DEF RecordsWith, FooterRecords
      <4>2. Alignment(f) \in {1, 2, 4, 8, 16} /\ UnpaddedSize(f) \in Nat
        <5>1. UnpaddedSize(f) \in Nat
          BY <4>1 DEF UnpaddedSize
        <5>2. f.alignment_log2 + 1 \in 1..5
          BY <4>1, MuxAssumption
        <5> QED BY <5>1, <5>2 DEF Alignment, Pow2
      <4> QED BY <4>2, AlignAbove, Zenon
    <3> HIDE DEF v
    <3> QED BY <1>2, <3>1, <3>2, SizesAssumption
  <2>7. EntryEnd(rs[k]) = o + Extent(r, 4)
    BY <1>2, <2>2, Zenon DEF EntryEnd
  <2> QED BY <1>2, <2>2, <2>3, <2>4, <2>5, <2>6, <2>7, Zenon
<1>6. o \in Nat
  BY <1>1, <1>2
<1> QED BY <1>3, <1>4, <1>5, <1>6, Zenon DEF FrameWhole

\* A call at a record is one of the parser's.
LEMMA WalkCalls ==
  ASSUME NEW data, NEW rs, Written(data, rs), NEW k, NEW q, Walked(data, rs, k, q)
  PROVE  /\ WalkCall(data, rs, k, q) \in Calls(data) /\ Position(rs, k) \in Nat
         /\ Position(rs, k) <= data.size /\ data.size \in Nat
<1>1. rs \in Seq(Entries) /\ LaidOut(rs) /\ data.size \in Nat /\ Len(rs) \in Nat
  BY DEF Written, IsData
<1>2. k \in 1..(Len(rs) + 1) /\ q \in Parsed /\ Position(rs, k) <= data.size
  BY Zenon DEF Walked
<1>3. Position(rs, k) \in Nat
  BY <1>2, Zenon DEF Walked, Parsed
<1>4. Position(rs, k) \in 0..data.size /\ data.size \in 0..data.size
  BY <1>1, <1>2, <1>3
<1> QED BY <1>1, <1>2, <1>3, <1>4, Zenon DEF WalkCall, Calls

\* A call whose record passes its checks.
Passes(data, a) ==
  IsData(data) /\ a \in Calls(data) /\ a.cursor < a.end /\ Check(data, a) = "OK"

\* It goes on after that record, with what processing the record returned.
GoesOn(data, a) ==
  LET parse == tide_parse_records(data, {})
  IN  parse[a] = Onward(parse, a, CrcEnd(At(data, a), a.cursor),
                        Process(parse, At(data, a), a, {}, Called(a.seen, a.cursor)))

\* One implies the other.
LEMMA WalkGoesOn ==
  ASSUME NEW data, NEW a, Passes(data, a)
  PROVE  GoesOn(data, a)
BY CallGoesOn DEF Passes, GoesOn

\* Before the end of the records there is a next one.
LEMMA NextIndex ==
  ASSUME NEW rs \in Seq(Entries), NEW k \in 1..(Len(rs) + 1), k <= Len(rs)
  PROVE  /\ k \in 1..Len(rs) /\ k \in Nat /\ k + 1 \in 1..(Len(rs) + 1)
         /\ \A i \in 1..((k + 1) - 1) : i \in 1..(k - 1) \/ i = k
OBVIOUS

\* The parse goes on from record k to the next.
LEMMA WalkStep ==
  ASSUME NEW data, NEW rs, Written(data, rs), NEW k, NEW q, Walked(data, rs, k, q),
         k <= Len(rs), Position(rs, k) < data.size,
         NEW a, a = WalkCall(data, rs, k, q), Check(data, a) = "OK",
         NEW parse, parse = tide_parse_records(data, {}),
         NEW p, p = Process(parse, At(data, a), a, {}, Called(q, Position(rs, k))),
         p.status = "OK"
  PROVE  LET next == MovedTo(p, Position(rs, k + 1), 0)
         IN  /\ Walked(data, rs, k + 1, next)
             /\ parse[a] = parse[WalkCall(data, rs, k + 1, next)]
<1> DEFINE o == Position(rs, k)
           n == Position(rs, k + 1)
           f == data.frame[o]
           seen == Called(q, o)
           next == MovedTo(p, n, 0)
<1>1. /\ a.cursor = o /\ a.end = data.size /\ a.depth = 0 /\ a.seen = q /\ At(data, a) = f
      /\ CheckRecord(f, o, data.size) = "OK"
  BY Zenon DEF WalkCall, At, Check
<1>2. /\ k \in 1..Len(rs) /\ rs \in Seq(Entries) /\ LaidOut(rs) /\ IsData(data)
      /\ q \in Parsed /\ q.valid_prefix = o /\ k \in Nat
      /\ q.tracks = Kept(TrackNames(rs), Before(rs, k, {"stream"}))
      /\ \A i \in 1..(k - 1) : rs[i].parts = 4
  <2>1. rs \in Seq(Entries) /\ LaidOut(rs) /\ IsData(data)
    BY Zenon DEF Written
  <2>2. /\ k \in 1..(Len(rs) + 1) /\ q \in Parsed /\ q.valid_prefix = o
        /\ q.tracks = Kept(TrackNames(rs), Before(rs, k, {"stream"}))
        /\ \A i \in 1..(k - 1) : rs[i].parts = 4
    BY Zenon DEF Walked
  <2>3. k \in 1..Len(rs) /\ k \in Nat
    BY <2>1, <2>2, NextIndex, Zenon
  <2> QED BY <2>1, <2>2, <2>3, Zenon
<1>3. /\ o \in Nat /\ IsFrame(f) /\ rs[k].parts = 4 /\ f = rs[k].record
      /\ f.type \in {"STREAM_DESC", "PACKET", "FOOTER"}
      /\ CrcEnd(f, o) = n /\ n <= data.size
  <2>1. o = Position(rs, k) /\ n = Position(rs, k + 1) /\ f = data.frame[o] /\ o < data.size
    BY Zenon
  <2> HIDE DEF o, n, f, seen, next
  <2>2. FrameHere(data, rs, k, o, f)
    BY <1>2, <2>1, Zenon DEF FrameHere
  <2>3. FrameWhole(data, rs, k, o, f)
    BY <2>2, FrameRead, Zenon
  <2> QED BY <1>1, <2>1, <2>3, Zenon DEF FrameWhole
<1>4. n \in Nat
  BY <1>2, PositionNext, Zenon
<1> HIDE DEF o, n
<1>5. seen \in Parsed /\ seen.events = Append(q.events, [cb |-> "record", at |-> o])
      /\ seen.tracks = q.tracks /\ seen.valid_prefix = q.valid_prefix
  BY <1>2, <1>3, CalledParsed, Zenon DEF Called, Parsed
<1> HIDE DEF f, seen
<1>6. p = ProcessLeaf(f, o, {}, seen)
  BY <1>1, <1>3 DEF Process, seen, o
<1>7. p \in Parsed
  BY <1>3, <1>5, <1>6, ProcessLeafParsed, Zenon
<1>8. /\ p.tracks = IF f.type = "STREAM_DESC" THEN Append(q.tracks, f.body.track) ELSE q.tracks
      /\ p.events = IF f.type = "FOOTER" THEN seen.events
                    ELSE Append(seen.events, [cb |-> Callback(f.type), at |-> o])
  <2>1. ReadOK(f, o, seen, p)
    BY <1>3, <1>5, <1>6, Zenon DEF ReadOK
  <2>2. CalledFor(f, o, seen, p)
    BY <2>1, LeafRead, Zenon
  <2> QED BY <1>5, <2>2, Zenon DEF CalledFor
<1>9. /\ next \in Parsed /\ next.valid_prefix = n /\ next.tracks = p.tracks
      /\ next.events = p.events
  BY <1>4, <1>7, ParsedFields, Zenon DEF MovedTo, Parsed
<1>10. next.tracks = Kept(TrackNames(rs), Before(rs, k + 1, {"stream"}))
  <2> DEFINE s == TrackNames(rs)
  <2>1. /\ \E T : s \in Seq(T)
        /\ Len(s) = Len(rs) /\ s[k] = f.body.track
    BY <1>2, <1>3, NamesAndBodies, Zenon
  <2> HIDE DEF s
  <2>2. Kept(s, Before(rs, k + 1, {"stream"})) =
          IF Callback(rs[k].record.type) \in {"stream"}
          THEN Append(Kept(s, Before(rs, k, {"stream"})), s[k])
          ELSE Kept(s, Before(rs, k, {"stream"}))
    <3>1. OneEach(rs, k, s)
      BY <1>2, <2>1, Zenon DEF OneEach
    <3>2. ChosenNext(rs, k, {"stream"}, s)
      BY <3>1, BeforeNext, Zenon
    <3> QED BY <3>2, Zenon DEF ChosenNext
  <2>3. Callback(rs[k].record.type) \in {"stream"} <=> f.type = "STREAM_DESC"
    BY <1>3, Zenon DEF Callback
  <2> QED BY <1>2, <1>8, <1>9, <2>1, <2>2, <2>3, Zenon DEF s
<1>11. ASSUME NEW C \in SUBSET {"stream", "packet"}
       PROVE  Given(data, next.events, C) = Kept(Bodies(rs), Before(rs, k + 1, C))
  <2> DEFINE s == Bodies(rs)
             e == [cb |-> "record", at |-> o]
             c == [cb |-> Callback(f.type), at |-> o]
  <2>1. /\ \E B : s \in Seq(B)
        /\ Len(s) = Len(rs) /\ s[k] = f.body
    BY <1>2, <1>3, NamesAndBodies, Zenon
  <2> HIDE DEF s
  <2>2. Kept(s, Before(rs, k + 1, C)) =
          IF Callback(f.type) \in C
          THEN Append(Kept(s, Before(rs, k, C)), f.body) ELSE Kept(s, Before(rs, k, C))
    <3>1. OneEach(rs, k, s)
      BY <1>2, <2>1, Zenon DEF OneEach
    <3>2. ChosenNext(rs, k, C, s)
      BY <3>1, BeforeNext, Zenon
    <3> QED BY <1>3, <2>1, <3>2, Zenon DEF ChosenNext
  <2>3. Given(data, q.events, C) = Kept(s, Before(rs, k, C))
    BY Zenon DEF Walked, s
  <2>4. q.events \in Seq(EventsOf) /\ seen.events \in Seq(EventsOf) /\ e \in EventsOf
        /\ e.cb = "record"
    BY <1>2, <1>3, <1>5, ParsedFields, Zenon DEF EventsOf
  <2> HIDE DEF e
  <2>5. Given(data, seen.events, C) = Given(data, q.events, C)
    <3>1. seen.events = Append(q.events, e)
      BY <1>5, Zenon DEF e
    <3>2. e.cb \notin C
      BY <2>4
    <3>3. Given(data, seen.events, C) = IF e.cb \in C
            THEN Append(Given(data, q.events, C), data.frame[e.at].body)
            ELSE Given(data, q.events, C)
      <4>1. OneMore(q.events, e, seen.events)
        BY <2>4, <3>1, Zenon DEF OneMore
      <4>2. GivenMore(data, q.events, e, seen.events, C)
        BY <4>1, GivenAppend, Zenon
      <4> QED BY <4>2, Zenon DEF GivenMore
    <3> QED BY <3>2, <3>3, Zenon
  <2>6. CASE f.type = "FOOTER"
    <3>1. Callback(f.type) \notin C
      BY <2>6 DEF Callback
    <3> QED BY <1>8, <1>9, <2>2, <2>3, <2>5, <2>6, <3>1, Zenon DEF s
  <2>7. CASE f.type # "FOOTER"
    <3>1. c \in EventsOf /\ c.cb = Callback(f.type) /\ c.at = o
      BY <1>3, <2>7, Zenon DEF EventsOf, Callback
    <3>2. next.events = Append(seen.events, c)
      BY <1>8, <1>9, <2>7, Zenon
    <3> HIDE DEF c
    <3>3. Given(data, next.events, C) = IF c.cb \in C
            THEN Append(Given(data, seen.events, C), data.frame[c.at].body)
            ELSE Given(data, seen.events, C)
      <4>1. OneMore(seen.events, c, next.events)
        BY <2>4, <3>1, <3>2, Zenon DEF OneMore
      <4>2. GivenMore(data, seen.events, c, next.events, C)
        BY <4>1, GivenAppend
      <4> QED BY <4>2, Zenon DEF GivenMore
    <3> QED BY <2>2, <2>3, <2>5, <3>1, <3>3, Zenon DEF s, f
  <2> QED BY <2>6, <2>7
<1>12. Walked(data, rs, k + 1, next)
  <2>0. k \in 1..(Len(rs) + 1)
    BY Zenon DEF Walked
  <2>1. k + 1 \in 1..(Len(rs) + 1) /\ \A i \in 1..((k + 1) - 1) : i \in 1..(k - 1) \/ i = k
    BY <1>2, <2>0, NextIndex, Zenon
  <2> HIDE DEF next
  <2> QED BY <1>2, <1>3, <1>9, <1>10, <1>11, <2>1, Zenon DEF Walked, n
<1>13. parse[a] = parse[WalkCall(data, rs, k + 1, next)]
  <2>1. a \in Calls(data)
    BY WalkCalls, Zenon
  <2>2. a.cursor < a.end
    BY <1>1 DEF o
  <2>3. parse[a] = Onward(parse, a, CrcEnd(At(data, a), a.cursor), p)
    <3>1. Passes(data, a)
      BY <1>2, <2>1, <2>2, Zenon DEF Passes
    <3>2. GoesOn(data, a)
      BY <3>1, WalkGoesOn, Zenon
    <3> QED BY <1>1, <3>2, Zenon DEF GoesOn, o
  <2>4. parse[a] = parse[NextCall(a, n, p)]
    BY <1>1, <1>3, <2>3, Zenon DEF Onward
  <2>5. NextCall(a, n, p) = WalkCall(data, rs, k + 1, next)
    BY <1>1 DEF NextCall, WalkCall, n
  <2> QED BY <2>4, <2>5, Zenon
<1> QED BY <1>12, <1>13 DEF n

\* Where the parse of a written file stops: at the end of the bytes, at a record that
\* does not pass its checks or at one that is rejected.
StopsAt(data, rs, k, q) ==
  LET a == WalkCall(data, rs, k, q)
      o == Position(rs, k)
  IN  \/ o = data.size
      \/ o < data.size /\ k <= Len(rs) /\ Check(data, a) # "OK"
      \/ /\ o < data.size /\ k <= Len(rs) /\ Check(data, a) = "OK"
         /\ Process(tide_parse_records(data, {}), At(data, a), a, {}, Called(q, o)).status # "OK"

\* It does stop, having called back for all records before.
LEMMA WalkStops ==
  ASSUME NEW data, NEW rs, Written(data, rs), TIDE_HEADER_SIZE <= data.size
  PROVE  \E k, q : /\ Walked(data, rs, k, q) /\ StopsAt(data, rs, k, q)
                   /\ ParseRecords(data, data.size, {})
                        = tide_parse_records(data, {})[WalkCall(data, rs, k, q)]
<1> DEFINE parse == tide_parse_records(data, {})
           whole == ParseRecords(data, data.size, {})
           Reached(k) == \E q : Walked(data, rs, k, q) /\ whole = parse[WalkCall(data, rs, k, q)]
           n == Len(rs) + 1
           X == {m \in 0..n : Reached(n - m)}
<1>1. rs \in Seq(Entries) /\ LaidOut(rs) /\ IsData(data) /\ data.size \in Nat /\ Len(rs) \in Nat
      /\ data.size <= LaidSize(rs)
  BY DEF Written, IsData
<1>2. Reached(1)
  <2> DEFINE q == Unparsed(TIDE_HEADER_SIZE)
  <2>1. Position(rs, 1) = TIDE_HEADER_SIZE
    <3>1. CASE Len(rs) = 0
      BY <3>1 DEF Position, LaidSize
    <3>2. CASE Len(rs) # 0
      <4>1. 1 \in 1..Len(rs)
        BY <1>1, <3>2
      <4> QED BY <1>1, <4>1, PositionNext, Zenon
    <3> QED BY <3>1, <3>2, Zenon
  <2>2. /\ q \in Parsed /\ q.valid_prefix = TIDE_HEADER_SIZE /\ q.tracks = <<>> /\ q.events = <<>>
    BY SizesAssumption, EmptySeq, Zenon DEF Unparsed, Parsed, Status
  <2>3. \A C : Before(rs, 1, C) = {}
    BY DEF Before
  <2>4. ASSUME NEW S, NEW s \in Seq(S) PROVE Kept(s, {}) = <<>>
    <3>1. \A i \in 1..Len(s) : i \in {} => s[i] \in {}
      OBVIOUS
    <3>2. Kept(s, {}) \in Seq({})
      BY <3>1, KeptChosen, Zenon
    <3>3. Len(Kept(s, {})) = 0
      <4>1. Len(Kept(s, {})) \in Nat /\ \A i \in 1..Len(Kept(s, {})) : Kept(s, {})[i] \in {}
        BY <3>2, ElementOfSeq, LenProperties
      <4>2. ~(1 \in 1..Len(Kept(s, {})))
        BY <4>1
      <4> QED BY <4>1, <4>2
    <3> QED BY <3>2, <3>3, EmptySeq, Zenon
  <2>5. (\E T : TrackNames(rs) \in Seq(T)) /\ \E B : Bodies(rs) \in Seq(B)
    BY <1>1, NamesAndBodies, Zenon
  <2>6. Kept(TrackNames(rs), {}) = <<>> /\ Kept(Bodies(rs), {}) = <<>>
    BY <2>4, <2>5, Zenon
  <2>7. ASSUME NEW C PROVE Given(data, <<>>, C) = <<>>
    <3>1. <<>> \in Seq(EventsOf) /\ DOMAIN <<>> = {}
      OBVIOUS
    <3>2. Kept(<<>>, {i \in DOMAIN <<>> : <<>>[i].cb \in C}) = <<>>
      BY <3>1, KeptSeq, Zenon
    <3> QED BY <3>1, <3>2 DEF Given
  <2>8. Walked(data, rs, 1, q)
    <3>1. 1 \in 1..(Len(rs) + 1) /\ \A i \in 1..(1 - 1) : rs[i].parts = 4
      BY <1>1
    <3>2. \A C \in SUBSET {"stream", "packet"} :
            Given(data, q.events, C) = Kept(Bodies(rs), Before(rs, 1, C))
      BY <2>2, <2>3, <2>6, <2>7, Zenon
    <3> HIDE DEF q
    <3> QED BY <1>1, <2>1, <2>2, <2>3, <2>6, <3>1, <3>2, Zenon DEF Walked
  <2>9. whole = parse[WalkCall(data, rs, 1, q)]
    BY <2>1, Zenon DEF ParseRecords, WalkCall
  <2> HIDE DEF whole, parse, q
  <2> QED BY <2>8, <2>9, Zenon
<1>3. PICK m \in X : \A i \in X : m <= i
  <2>1. n - 1 \in X
    <3>1. n - 1 \in 0..n /\ n - (n - 1) = 1
      BY <1>1
    <3> HIDE DEF Reached, n
    <3> QED BY <1>2, <3>1, Zenon
  <2>2. X \in SUBSET Nat
    BY <1>1
  <2> HIDE DEF X
  <2> QED BY <2>1, <2>2, LeastNumber, Zenon
<1> DEFINE k == n - m
<1>4. m \in 0..n /\ Reached(k) /\ k \in Nat /\ n \in Nat /\ n = Len(rs) + 1
  BY <1>1
<1>5. ~Reached(k + 1)
  <2> SUFFICES ASSUME Reached(k + 1) PROVE FALSE
    OBVIOUS
  <2>1. k + 1 <= n
    <3>1. k + 1 \in 1..n
      BY Zenon DEF Walked
    <3> HIDE DEF k, n
    <3> QED BY <1>4, <3>1
  <2>2. m - 1 \in 0..n /\ n - (m - 1) = k + 1
    BY <1>4, <2>1
  <2>3. m - 1 \in X
    <3> HIDE DEF Reached, n, k
    <3> QED BY <2>2, Zenon
  <2> HIDE DEF X, Reached
  <2> QED BY <1>3, <1>4, <2>3
<1> HIDE DEF X, k, n
<1>6. PICK q : Walked(data, rs, k, q) /\ whole = parse[WalkCall(data, rs, k, q)]
  BY <1>4, Zenon
<1>7. k \in 1..(Len(rs) + 1) /\ Position(rs, k) \in Nat /\ Position(rs, k) <= data.size
  BY <1>6, WalkCalls, Zenon DEF Walked
<1>8. ASSUME k <= Len(rs), Position(rs, k) < data.size,
             Check(data, WalkCall(data, rs, k, q)) = "OK"
      PROVE  Process(parse, At(data, WalkCall(data, rs, k, q)), WalkCall(data, rs, k, q), {},
                     Called(q, Position(rs, k))).status # "OK"
  <2>1. PICK a, p : /\ a = WalkCall(data, rs, k, q)
                    /\ p = Process(parse, At(data, a), a, {}, Called(q, Position(rs, k)))
    OBVIOUS
  <2> SUFFICES ASSUME p.status = "OK" PROVE FALSE
    BY <2>1, Zenon
  <2>2. LET next == MovedTo(p, Position(rs, k + 1), 0)
        IN  /\ Walked(data, rs, k + 1, next)
            /\ parse[a] = parse[WalkCall(data, rs, k + 1, next)]
    BY <1>6, <1>8, <2>1, WalkStep
  <2>3. PICK next : next = MovedTo(p, Position(rs, k + 1), 0)
    OBVIOUS
  <2>4. Walked(data, rs, k + 1, next) /\ whole = parse[WalkCall(data, rs, k + 1, next)]
    BY <1>6, <2>1, <2>2, <2>3, Zenon
  <2> HIDE DEF whole, parse
  <2> QED BY <1>5, <2>4, Zenon
<1>9. StopsAt(data, rs, k, q)
  <2>1. CASE k <= Len(rs)
    BY <1>1, <1>7, <1>8, <2>1 DEF StopsAt
  <2>2. CASE ~(k <= Len(rs))
    <3>1. Position(rs, k) = LaidSize(rs)
      BY <2>2 DEF Position
    <3>2. Position(rs, k) = data.size
      BY <1>1, <1>7, <3>1
    <3> QED BY <3>2 DEF StopsAt
  <2> QED BY <2>1, <2>2, Zenon
<1> HIDE DEF whole, parse
<1>10. Walked(data, rs, k, q) /\ StopsAt(data, rs, k, q) /\ whole = parse[WalkCall(data, rs, k, q)]
  BY <1>6, <1>9
<1> QED BY <1>10, Zenon DEF whole, parse

\* A parse of a written file that returns OK has come to the end of the bytes, which is
\* the end of a record.
LEMMA ReadsToEnd ==
  ASSUME NEW data, NEW rs, Written(data, rs), TIDE_HEADER_SIZE <= data.size,
         NEW whole, whole = ParseRecords(data, data.size, {}), whole.status = "OK"
  PROVE  \E k, q : /\ Walked(data, rs, k, q) /\ Position(rs, k) = data.size
                   /\ whole = WithStatus(q, "OK")
<1> DEFINE parse == tide_parse_records(data, {})
<1>1. PICK k, q : /\ Walked(data, rs, k, q) /\ StopsAt(data, rs, k, q)
                  /\ whole = parse[WalkCall(data, rs, k, q)]
  BY WalkStops, Zenon
<1>2. PICK a : a = WalkCall(data, rs, k, q)
  OBVIOUS
<1>3. /\ IsData(data) /\ a \in Calls(data) /\ a.cursor = Position(rs, k) /\ a.end = data.size
      /\ a.seen = q /\ q \in Parsed
  BY <1>1, <1>2, WalkCalls, Zenon DEF Written, WalkCall, Walked
<1>4. CASE Position(rs, k) = data.size
  <2>1. parse[a] = WithStatus(q, "OK")
    BY <1>3, <1>4, CallDone, Zenon
  <2> HIDE DEF parse
  <2> QED BY <1>1, <1>2, <1>4, <2>1, Zenon
<1>5. CASE Position(rs, k) < data.size /\ Check(data, a) # "OK"
  <2>1. parse[a] = IF Check(data, a) = "TRUNCATED"
                   THEN TruncatedAt(q, a.cursor) ELSE WithStatus(q, Check(data, a))
    BY <1>3, <1>5, CallStops, Zenon
  <2>2. TruncatedAt(q, a.cursor).status = "TRUNCATED"
        /\ \A s : WithStatus(q, s).status = s
    BY <1>3 DEF TruncatedAt, WithStatus, Parsed
  <2>3. parse[a].status # "OK"
    BY <1>5, <2>1, <2>2, Zenon
  <2> QED BY <1>1, <1>2, <2>3, Zenon
<1>6. CASE /\ Position(rs, k) < data.size /\ Check(data, a) = "OK"
           /\ Process(parse, At(data, a), a, {}, Called(q, Position(rs, k))).status # "OK"
  <2>1. PICK p : p = Process(parse, At(data, a), a, {}, Called(q, Position(rs, k)))
    OBVIOUS
  <2>2. parse[a] = Onward(parse, a, CrcEnd(At(data, a), a.cursor), p)
    BY <1>3, <1>6, <2>1, CallGoesOn, Zenon
  <2>3. parse[a] = p
    BY <1>6, <2>1, <2>2, Zenon DEF Onward
  <2> HIDE DEF parse
  <2> QED BY <1>1, <1>2, <1>6, <2>1, <2>3, Zenon
<1> QED BY <1>1, <1>2, <1>4, <1>5, <1>6, Zenon DEF StopsAt

\* The bytes of a file a muxer wrote.
LEMMA FileWritten ==
  ASSUME NEW f, IsFile(f), FileLaid(f), f.media = "written", NEW data, data = FileBytes(f)
  PROVE  Written(data, f.records) /\ data.size = f.size /\ f.size \in Nat
<1>1. f.size \in Nat /\ f.records \in Seq(Entries)
  BY Zenon DEF IsFile, Files
<1>2. f = [f EXCEPT !.size = f.size] /\ f.size \in 0..f.size
  BY <1>1 DEF IsFile, Files
<1>3. IsData(data) /\ data.size = f.size
  BY <1>2, FileData
<1>4. \A o \in 0..f.size : data.frame[o] = FrameAt(f.records, o)
  BY Zenon DEF FileBytes
<1> QED BY <1>1, <1>3, <1>4, Zenon DEF Written, FileLaid

\* A complete file reads back as what it holds.
LEMMA SealedHolds ==
  ASSUME NEW f, IsFile(f), FileLaid(f), IsSealed(f)
  PROVE  ItemsOf(f) = f.holds
<1> DEFINE rs == f.records
           n == Len(f.records)
           data == FileBytes(f)
           whole == ParseRecords(data, data.size, {})
           both == {"stream", "packet"}
<1>1. /\ f.media = "written" /\ n \in Nat /\ n # 0 /\ rs \in Seq(Entries)
      /\ rs[n].record.type = "FOOTER" /\ f.size = rs[n].at + CrcEnd(rs[n].record, 0)
      /\ ParseOf(f).status = "OK"
  <2>1. f.records \in Seq(Entries)
    BY DEF IsFile, Files
  <2> QED BY <2>1, EmptySeq DEF IsSealed
<1>2. Written(data, rs) /\ data.size = f.size /\ f.size \in Nat
  BY <1>1, FileWritten, Zenon
<1>3. /\ LaidOut(rs) /\ rs[n].parts = 4 /\ f.holds = Held(rs, ItemTypes)
  BY <1>1 DEF FileLaid
<1>4. rs[n].record \in ItemRecords \cup FooterRecords
  BY <1>1, EntryFields
<1>5. f.size = LaidSize(rs)
  BY <1>1, <1>3, <1>4, PartsEnd, Zenon DEF LaidSize, EntryEnd
<1> HIDE DEF data
<1>6. ParseOf(f) = whole /\ whole.status = "OK" /\ TIDE_HEADER_SIZE <= data.size
  <2> DEFINE header == tide_validate_header(data.header, data.size)
             parsed == IF header # "OK" THEN [Unparsed(0) EXCEPT !.status = header] ELSE whole
  <2>1. ParseOf(f) = IF parsed.status = "TRUNCATED" THEN [parsed EXCEPT !.status = "PARTIAL"]
                     ELSE parsed
    BY <1>2 DEF ParseOf, tide_parse_tide_bytes, ParseLosing, data
  <2>2. header = "OK" => TIDE_HEADER_SIZE <= data.size
    BY <1>2, HeaderStatuses, Zenon
  <2> HIDE DEF header
  <2>3. header # "OK" => parsed.status = header
    BY DEF Unparsed
  <2>3a. header = "OK" => parsed = whole
    OBVIOUS
  <2>4. parsed \in Parsed
    <3>1. header # "OK" => parsed \in Parsed
      <4>1. header \in Status
        BY <1>2, HeaderStatuses, Zenon DEF header
      <4> QED BY <4>1, EmptySeq, Zenon DEF Unparsed, Parsed
    <3>2. header = "OK" => whole \in Parsed
      <4> SUFFICES ASSUME header = "OK" PROVE whole \in Parsed
        BY Zenon
      <4> DEFINE a == [cursor |-> TIDE_HEADER_SIZE, end |-> data.size, depth |-> 0,
                       seen |-> Unparsed(TIDE_HEADER_SIZE)]
      <4>1. IsData(data) /\ TIDE_HEADER_SIZE \in 0..data.size
        BY <1>2, <2>2, SizesAssumption DEF Written
      <4>2. a \in Calls(data)
        BY <1>2, <4>1, EmptySeq DEF Calls, Unparsed, Parsed, Status
      <4>3. whole = tide_parse_records(data, {})[a]
        BY Zenon DEF ParseRecords
      <4> HIDE DEF a, whole
      <4> QED BY <4>1, <4>2, <4>3, ParseUnfolds, Zenon
    <3> HIDE DEF whole, parsed
    <3> QED BY <2>3a, <3>1, <3>2, Zenon
  <2> HIDE DEF parsed
  <2>5. parsed.status # "TRUNCATED" /\ parsed = ParseOf(f)
    BY <1>1, <2>1, <2>4, Zenon DEF Parsed
  <2>6. header = "OK"
    BY <1>1, <2>3, <2>5, Zenon
  <2> HIDE DEF whole
  <2> QED BY <1>1, <2>2, <2>3a, <2>5, <2>6, Zenon
<1>7. PICK k, q : /\ Walked(data, rs, k, q) /\ Position(rs, k) = data.size
                  /\ whole = WithStatus(q, "OK")
  BY <1>2, <1>6, ReadsToEnd
<1>8. k = n + 1
  <2>1. k \in 1..(n + 1) /\ n + 1 \in 1..(n + 1)
    <3>1. k \in 1..(n + 1)
      BY <1>7, Zenon DEF Walked
    <3> HIDE DEF n
    <3> QED BY <1>1, <3>1
  <2>2. Position(rs, n + 1) = LaidSize(rs)
    BY <1>1 DEF Position
  <2>3. ASSUME k < n + 1 PROVE FALSE
    <3>1. Position(rs, k) < Position(rs, n + 1)
      BY <1>1, <1>3, <2>1, <2>3, PositionsIncrease, Zenon
    <3> QED BY <1>2, <1>5, <1>7, <2>2, <3>1
  <2> QED BY <1>1, <2>1, <2>3
<1>9. Given(data, q.events, both) = Kept(Bodies(rs), Before(rs, n + 1, both))
  BY <1>7, <1>8, Zenon DEF Walked
<1>10. Before(rs, n + 1, both) = Whole(rs, ItemTypes)
  <2>1. \A i \in 1..n : rs[i].parts = 4
    <3>1. (n + 1) - 1 = n
      BY <1>1
    <3> QED BY <1>7, <1>8, <3>1, Zenon DEF Walked
  <2>2. \A i \in 1..n : Callback(rs[i].record.type) \in both
                         <=> rs[i].record.type \in ItemTypes
    BY DEF Callback, ItemTypes
  <2>3. (n + 1) - 1 = n
    BY <1>1
  <2> QED BY <2>1, <2>2, <2>3, Zenon DEF Before, Whole
<1>11. ParseOf(f).events = q.events /\ q.events \in Seq(EventsOf)
  <2>1. q \in Parsed
    BY <1>7, Zenon DEF Walked
  <2>2. WithStatus(q, "OK").events = q.events
    BY <2>1 DEF WithStatus, Parsed
  <2> HIDE DEF whole
  <2> QED BY <1>6, <1>7, <2>1, <2>2, ParsedFields, Zenon
<1>12. ItemsOf(f) = Given(data, q.events, both)
  <2> DEFINE e == q.events
  <2>1. \A i \in DOMAIN e : e[i].cb # "record" <=> e[i].cb \in both
    <3>1. \A i \in DOMAIN e : e[i] \in EventsOf
      BY <1>11
    <3> QED BY <3>1, Zenon DEF EventsOf
  <2>2. {i \in DOMAIN e : e[i].cb # "record"} = {i \in DOMAIN e : e[i].cb \in both}
    BY <2>1, Zenon
  <2> HIDE DEF e
  <2> QED BY <1>11, <2>2, Zenon DEF ItemsOf, Given, data, e
<1> QED BY <1>3, <1>9, <1>10, <1>12, Zenon DEF Held

\* A footer is only found at the end of a file that holds all its muxer had accepted:
\* tide_mux_close writes it last, with the records of every call that returned OK before
\* it, and a torn record among them is rejected.
THEOREM SealedFilesAreWhole == Spec => []FooterSeals
<1>1. Jobwise => FooterSeals
  <2> SUFFICES ASSUME Jobwise, NEW p \in Path, IsSealed(disk[p])
               PROVE  ItemsOf(disk[p]) = disk[p].holds
    BY DEF FooterSeals
  <2>1. IsFile(disk[p]) /\ FileLaid(disk[p])
    BY DEF Jobwise, Sane, Typed, Stored
  <2> QED BY <2>1, SealedHolds, Zenon
<1> QED BY <1>1, JobwiseAlways, PTL

=============================================================================
