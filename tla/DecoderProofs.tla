---------------------------- MODULE DecoderProofs ----------------------------
(****************************************************************************)
(* Proofs that the decoder keeps its invariants for every byte stream,      *)
(* every limit, every split and every behaviour of callbacks and allocator, *)
(* and of what a step may do: the valid prefix grows, a finished decoder is *)
(* left alone, the recursion and the track table keep to their limits, and  *)
(* callbacks come in order: a packet after its stream, nothing after        *)
(* on_error, and no record twice.                                           *)
(****************************************************************************)
EXTENDS Decoder, ParseProofs

------------------------------------------------------------------------------
(* The inductive invariant *)

EventType == [cb: {"record", "stream", "packet", "error"}, at: Nat]

\* valid_prefix never passes the cursor, and in the outermost activation it is
\* the cursor; a feed that is over left it where the next one resumes.
PrefixTracksCursor ==
  /\ pc # "idle" => header_validated /\ ~terminal
  /\ ~header_validated => valid_prefix = 0
  /\ header_validated => TIDE_HEADER_SIZE <= valid_prefix /\ valid_prefix <= size
  /\ pc = "parse" => /\ stack[1].end = size
                     /\ valid_prefix <= Cursor
                     /\ Len(stack) = 1 => valid_prefix = Cursor
  /\ pc = "return" /\ status = "OK" => valid_prefix = size
  /\ pc = "idle" /\ header_validated /\ ~terminal => parse_offset = valid_prefix

IInv == TypeOK /\ CursorInParent /\ PrefixTracksCursor

\* While the parser runs there is an innermost activation, and it has its type.
LEMMA StackNonempty ==
  ASSUME TypeOK, pc = "parse"
  PROVE  /\ Len(stack) \in Nat \ {0} /\ Len(stack) \in 1..Len(stack)
         /\ \A i \in 1..Len(stack) :
              /\ stack[i] \in Activation
              /\ stack[i].cursor \in Nat /\ stack[i].end \in Nat
         /\ Top \in Activation /\ Cursor \in Nat /\ Top.end \in Nat
<1>1. stack \in Seq(Activation) /\ stack # <<>>
  BY DEF TypeOK
<1>2. Len(stack) \in Nat \ {0}
  BY <1>1, EmptySeq
<1>3. \A i \in 1..Len(stack) : stack[i] \in Activation
  BY <1>1, ElementOfSeq
<1> QED BY <1>2, <1>3 DEF Activation, Top, Cursor

\* What the cursor of an activation points at is a frame.
LEMMA FrameAtCursor ==
  ASSUME IInv, pc = "parse", NEW i \in 1..Len(stack)
  PROVE  IsFrame(Frame(stack[i].cursor))
<1>1. Bytes.size \in Nat /\ size \in 0..Bytes.size
  BY MediaAssumption DEF IInv, TypeOK, Bytes
<1>2. stack[i].cursor \in Nat /\ stack[i].end \in Nat
  BY StackNonempty DEF IInv
<1>3. stack[i].cursor <= stack[i].end /\ stack[i].end <= size
  BY DEF IInv, CursorInParent
<1>4. stack[i].cursor \in 0..Bytes.size
  BY <1>1, <1>2, <1>3
<1>5. file \in DOMAIN Media
  BY DEF IInv, TypeOK
<1> QED BY <1>4, <1>5, MediaAssumption DEF Bytes, Frame

\* A decoder as tide_decoder_init leaves it satisfies the invariant.
LEMMA InitIInv == Init => IInv
<1> SUFFICES ASSUME Init PROVE IInv
  OBVIOUS
<1>1. Len(stack) = 0 /\ stack \in Seq(Activation)
  BY EmptySeq DEF Init
<1>2. TypeOK
  <2>1. alive \in BOOLEAN
    BY DecoderAssumption, Zenon DEF Init
  <2>2. size \in 0..Bytes.size
    BY MediaAssumption DEF Init, Bytes
  <2>3. tracks \in Seq(Track) /\ events \in Seq(EventType)
    BY EmptySeq DEF Init
  <2> QED BY <1>1, <2>1, <2>2, <2>3, Zenon DEF Init, TypeOK, Status, EventType
<1>3. CursorInParent
  BY <1>1 DEF CursorInParent
<1>4. PrefixTracksCursor
  BY DEF Init, PrefixTracksCursor
<1> QED BY <1>2, <1>3, <1>4 DEF IInv

\* The parser fails: the activations are gone and the prefix stays in the buffer.
LEMMA FailKeeps ==
  ASSUME IInv, pc = "parse", NEW s \in Status \ {"OK"}, NEW err \in Status,
         ParserFails(s, err),
         UNCHANGED <<file, alive, size, parse_offset, terminal, header_validated, final>>,
         cancelled' \in BOOLEAN, valid_prefix' \in {valid_prefix, Cursor},
         tracks' \in Seq(Track), track_capacity' \in Nat, events' \in Seq(EventType)
  PROVE  IInv'
<1>1. pc' = "return" /\ stack' = <<>> /\ status' \in Status \ {"OK"} /\ error' \in Status
  BY DEF ParserFails, Status
<1>2. valid_prefix' \in Nat /\ TIDE_HEADER_SIZE <= valid_prefix' /\ valid_prefix' <= size
  <2>1. valid_prefix \in Nat /\ TIDE_HEADER_SIZE <= valid_prefix /\ valid_prefix <= size
    BY DEF IInv, TypeOK, PrefixTracksCursor
  <2>2. Cursor \in Nat /\ TIDE_HEADER_SIZE <= Cursor /\ Cursor <= Top.end /\ Top.end <= size
    BY StackNonempty DEF IInv, CursorInParent, Cursor, Top
  <2> QED BY <2>1, <2>2, StackNonempty, SizesAssumption DEF IInv, TypeOK
<1>3. TypeOK'
  BY <1>1, <1>2, EmptySeq DEF IInv, TypeOK, EventType, Bytes
<1>4. CursorInParent'
  BY <1>1, EmptySeq DEF CursorInParent
<1>5. PrefixTracksCursor'
  BY <1>1, <1>2 DEF IInv, PrefixTracksCursor
<1> QED BY <1>3, <1>4, <1>5 DEF IInv

\* A nested activation may move on in its window.
LEMMA EnclosesMore ==
  ASSUME NEW m, NEW outer, NEW inner, NEW later,
         outer.cursor \in Nat, outer.end \in Nat,
         inner.cursor \in Nat, later.cursor \in Nat,
         IsFrame(Media[m].frame[outer.cursor]),
         Encloses(m, outer, inner),
         inner.cursor <= later.cursor, later.end = inner.end
  PROVE  Encloses(m, outer, later)
<1> DEFINE f == Media[m].frame[outer.cursor]
<1>1. PayloadOffset(f, outer.cursor) \in Nat
  BY FrameBounds DEF Encloses
<1> QED BY <1>1, SizesAssumption DEF Encloses

\* An activation moves past a record that passed its checks.
LEMMA AdvanceKeeps ==
  ASSUME IInv, pc = "parse", NEW level \in 1..Len(stack), Advance(level),
         CheckRecord(Frame(stack[level].cursor), stack[level].cursor, stack[level].end) = "OK",
         UNCHANGED <<file, alive, size, parse_offset, terminal, header_validated, final>>,
         cancelled' \in BOOLEAN,
         tracks' \in Seq(Track), track_capacity' \in Nat, events' \in Seq(EventType)
  PROVE  IInv'
<1> DEFINE o == stack[level].cursor
           next == CrcEnd(Frame(o), o)
<1>1. /\ Len(stack) \in Nat \ {0}
      /\ \A i \in 1..Len(stack) : stack[i] \in Activation
      /\ level \in Nat \ {0} /\ level <= Len(stack)
  BY StackNonempty DEF IInv
<1>2. next \in Nat /\ o < next /\ next <= stack[level].end
  <2>1. o \in Nat /\ stack[level].end \in Nat /\ IsFrame(Frame(o))
    BY <1>1, FrameAtCursor DEF Activation
  <2> HIDE DEF o
  <2>2. CheckRecord(Frame(o), o, stack[level].end) = "OK"
    BY DEF o
  <2>3. /\ PayloadOffset(Frame(o), o) \in Nat /\ o <= PayloadOffset(Frame(o), o)
        /\ PayloadEnd(Frame(o), o) = PayloadOffset(Frame(o), o) + Frame(o).payload_size
        /\ PayloadEnd(Frame(o), o) < CrcEnd(Frame(o), o)
        /\ PayloadEnd(Frame(o), o) \in Nat
        /\ CrcEnd(Frame(o), o) \in Nat /\ CrcEnd(Frame(o), o) <= stack[level].end
    BY <2>1, <2>2, FrameBounds
  <2> QED BY <2>1, <2>3 DEF IsFrame
<1>3. stack' = [i \in 1..level |-> IF i = level THEN [stack[i] EXCEPT !.cursor = next]
                                   ELSE stack[i]]
  BY DEF Advance
<1> HIDE DEF next, o
<1>4. \A i \in 1..level : /\ stack'[i] \in Activation
                          /\ stack'[i].end = stack[i].end
                          /\ i # level => stack'[i] = stack[i]
                          /\ i = level => stack'[i].cursor = next
  BY <1>1, <1>2, <1>3 DEF Activation
<1>5. stack' \in Seq(Activation) /\ Len(stack') = level /\ stack' # <<>>
  <2>1. stack' \in [1..level -> Activation]
    BY <1>3, <1>4
  <2>2. stack' \in Seq(Activation)
    BY <1>1, <2>1, SeqDef
  <2>3. Len(stack') \in Nat
    BY <2>2, LenProperties
  <2>4. \A i : i \in 1..level <=> i \in 1..Len(stack')
    BY <2>1, <2>2, LenProperties
  <2>5. Len(stack') = level
    <3>1. level \in 1..Len(stack')
      BY <1>1, <2>4
    <3>2. Len(stack') \in 1..level
      BY <3>1, <2>3, <2>4
    <3> QED BY <1>1, <2>3, <3>1, <3>2
  <2> QED BY <1>1, <2>2, <2>5, EmptySeq
<1>6. valid_prefix' = next /\ UNCHANGED <<pc, status, error>>
  BY DEF Advance, next, o
<1>7. TypeOK'
  BY <1>2, <1>5, <1>6 DEF IInv, TypeOK, EventType, Bytes
<1>8. \A i \in 1..level : /\ stack[i].cursor \in Nat /\ stack[i].end \in Nat
                          /\ TIDE_HEADER_SIZE <= stack[i].cursor
                          /\ stack[i].cursor <= stack[i].end
                          /\ stack[i].end <= size
  BY <1>1 DEF IInv, CursorInParent, Activation
<1>9. stack[level].cursor = o
  BY DEF o
<1>10. CursorInParent'
  <2>1. \A i \in 1..Len(stack') : /\ TIDE_HEADER_SIZE <= stack'[i].cursor
                                  /\ stack'[i].cursor <= stack'[i].end
                                  /\ stack'[i].end <= size'
    <3> TAKE i \in 1..Len(stack')
    <3>1. CASE i = level
      BY <3>1, <1>1, <1>2, <1>4, <1>5, <1>8, <1>9, SizesAssumption
    <3>2. CASE i # level
      BY <3>2, <1>1, <1>4, <1>5, <1>8, Zenon
    <3> QED BY <3>1, <3>2
  <2>2. ASSUME NEW i \in 1..(Len(stack') - 1)
        PROVE  Encloses(file', stack'[i], stack'[i+1])
    <3>1. i \in 1..(Len(stack) - 1) /\ i \in 1..level /\ i + 1 \in 1..level /\ i # level
      BY <1>1, <1>5
    <3>2. Encloses(file, stack[i], stack[i+1])
      BY <3>1 DEF IInv, CursorInParent
    <3>3. stack'[i] = stack[i] /\ stack'[i+1].end = stack[i+1].end
      BY <1>4, <3>1
    <3>4. stack'[i+1].cursor \in Nat /\ stack[i+1].cursor <= stack'[i+1].cursor
      <4>1. CASE i + 1 = level
        BY <4>1, <1>2, <1>4, <1>8, <1>9, <3>1
      <4>2. CASE i + 1 # level
        BY <4>2, <1>4, <1>8, <3>1
      <4> QED BY <4>1, <4>2
    <3>5. IsFrame(Media[file].frame[stack[i].cursor])
      <4>1. i \in 1..Len(stack)
        BY <1>1, <3>1
      <4>2. IsFrame(Frame(stack[i].cursor))
        BY <4>1, FrameAtCursor
      <4> QED BY <4>2 DEF Frame, Bytes
    <3> QED
      BY <1>8, <3>1, <3>2, <3>3, <3>4, <3>5, EnclosesMore, Zenon
  <2> QED BY <2>1, <2>2 DEF CursorInParent
<1>11. PrefixTracksCursor'
  <2>1. Cursor' = next
    BY <1>1, <1>4, <1>5 DEF Cursor, Top
  <2>2. TIDE_HEADER_SIZE <= next /\ next <= size
    <3>1. o \in Nat /\ stack[level].end \in Nat /\ TIDE_HEADER_SIZE <= o /\ stack[level].end <= size
      BY <1>1, <1>8, <1>9
    <3>2. size \in Nat
      BY MediaAssumption DEF IInv, TypeOK, Bytes
    <3> QED BY <1>2, <3>1, <3>2, SizesAssumption
  <2>3. stack'[1].end = size'
    <3>1. 1 \in 1..level
      BY <1>1
    <3>2. stack'[1].end = stack[1].end
      BY <1>4, <3>1
    <3> QED BY <3>2 DEF IInv, PrefixTracksCursor
  <2> QED
    BY <1>2, <1>6, <2>1, <2>2, <2>3 DEF IInv, PrefixTracksCursor
<1> QED BY <1>7, <1>10, <1>11 DEF IInv

\* What a record's callbacks change of the state.
LEMMA CallbacksStep ==
  ASSUME IInv, NEW more \in Seq(EventType), Callbacks(more)
  PROVE  /\ pc = "parse" /\ Cursor < Top.end /\ IsFrame(Frame(Cursor))
         /\ Cursor = stack[Len(stack)].cursor /\ Top = stack[Len(stack)]
         /\ CheckRecord(Frame(Cursor), Cursor, Top.end) = "OK"
         /\ Event("record", Cursor) \in EventType
         /\ events' = Append(events, Event("record", Cursor)) \o more
         /\ events' \in Seq(EventType) /\ cancelled' \in BOOLEAN
         /\ UNCHANGED <<file, alive, size, parse_offset, terminal, header_validated, final>>
<1>1. pc = "parse" /\ Cursor < Top.end /\ RecordCheck = "OK"
  BY DEF Callbacks, AtRecord
<1>2. Cursor \in Nat /\ Event("record", Cursor) \in EventType
  BY <1>1, StackNonempty DEF IInv, Event, EventType
<1>3. events \in Seq(EventType)
  BY DEF IInv, TypeOK, EventType
<1>4. Append(events, Event("record", Cursor)) \o more \in Seq(EventType)
  BY <1>2, <1>3, AppendProperties, ConcatProperties
<1>5. IsFrame(Frame(Cursor))
  BY <1>1, StackNonempty, FrameAtCursor DEF IInv, Cursor, Top
<1>6. cancelled' \in BOOLEAN
  BY DecoderAssumption DEF Callbacks, IInv, TypeOK
<1> QED
  BY <1>1, <1>2, <1>4, <1>5, <1>6 DEF Callbacks, RecordCheck, Top, Cursor

\* A record whose processing returned c is passed or ends the parse.
LEMMA SettleKeeps ==
  ASSUME IInv, NEW more \in Seq(EventType), Callbacks(more),
         NEW s \in Status, NEW err \in Status, Settle(s, err),
         tracks' \in Seq(Track), track_capacity' \in Nat
  PROVE  IInv'
<1>1. CASE s = "OK" /\ Advance(Len(stack))
  BY <1>1, CallbacksStep, AdvanceKeeps, StackNonempty, Zenon DEF IInv
<1>2. CASE s # "OK" /\ ParserFails(s, err) /\ UNCHANGED valid_prefix
  BY <1>2, CallbacksStep, FailKeeps
<1> QED BY <1>1, <1>2 DEF Settle

\* A step that leaves the parser idle and the buffer alone.
LEMMA IdleKeeps ==
  ASSUME IInv, pc = "idle", UNCHANGED <<file, impl, pc, final, stack>>,
         alive' \in BOOLEAN, cancelled' \in BOOLEAN, status' \in Status,
         events' \in Seq(EventType)
  PROVE  IInv'
<1>1. UNCHANGED <<size, parse_offset, valid_prefix, terminal, header_validated, error,
                  tracks, track_capacity>>
  BY DEF impl
<1>2. TypeOK'
  BY <1>1 DEF IInv, TypeOK, EventType, Bytes
<1>3. CursorInParent'
  BY <1>1 DEF IInv, CursorInParent
<1>4. PrefixTracksCursor'
  BY <1>1 DEF IInv, PrefixTracksCursor, Cursor, Top
<1> QED BY <1>2, <1>3, <1>4 DEF IInv

\* Entering the parser, at the header's end or where the last feed stopped.
LEMMA FeedParseKeeps ==
  ASSUME IInv, NEW n \in 0..Bytes.size, NEW end \in BOOLEAN, FeedParse(n, end)
  PROVE  IInv'
<1>1. /\ Bytes.size \in Nat /\ size \in Nat /\ n \in Nat
      /\ parse_offset \in Nat /\ valid_prefix \in Nat
  BY MediaAssumption DEF IInv, TypeOK, Bytes
<1>2. size' = size + n /\ size' \in 0..Bytes.size
  BY <1>1 DEF FeedParse, AfterHeader, Feeding
<1>3. /\ parse_offset' \in Nat /\ valid_prefix' = parse_offset'
      /\ TIDE_HEADER_SIZE <= parse_offset' /\ parse_offset' <= size'
  <2>1. CASE header_validated
    <3>1. pc = "idle" /\ ~terminal /\ parse_offset' = parse_offset /\ valid_prefix' = valid_prefix
      BY <2>1 DEF FeedParse, AfterHeader, Feeding
    <3>2. /\ parse_offset = valid_prefix /\ TIDE_HEADER_SIZE <= valid_prefix
          /\ valid_prefix <= size
      BY <2>1, <3>1 DEF IInv, PrefixTracksCursor
    <3> QED BY <1>1, <1>2, <3>1, <3>2
  <2>2. CASE ~header_validated
    <3>1. TIDE_HEADER_SIZE <= size + n
      BY <1>1, <2>2, HeaderStatuses DEF FeedParse, AfterHeader, HeaderStatus
    <3> QED BY <1>1, <1>2, <2>2, <3>1, SizesAssumption DEF FeedParse, AfterHeader
  <2> QED BY <2>1, <2>2
<1> DEFINE a == [cursor |-> parse_offset', end |-> size']
<1>4. a \in Activation /\ a.cursor = parse_offset' /\ a.end = size'
  BY <1>1, <1>2, <1>3 DEF Activation
<1>5. stack' = <<a>>
  BY DEF FeedParse, AfterHeader
<1> HIDE DEF a
<1>6. stack' \in Seq(Activation) /\ Len(stack') = 1 /\ stack'[1] = a /\ stack' # <<>>
  BY <1>4, <1>5
<1>7. /\ pc' = "parse" /\ header_validated' = TRUE /\ final' = end
      /\ pc = "idle" /\ ~terminal
      /\ UNCHANGED <<file, alive, cancelled, terminal, error, tracks, track_capacity,
                     status, events>>
  BY DEF FeedParse, AfterHeader, Feeding
<1>8. TypeOK'
  BY <1>2, <1>3, <1>6, <1>7 DEF IInv, TypeOK, Bytes
<1>9. CursorInParent'
  BY <1>1, <1>2, <1>3, <1>4, <1>6 DEF CursorInParent
<1>10. Cursor' = parse_offset'
  BY <1>4, <1>6 DEF Cursor, Top
<1>11. PrefixTracksCursor'
  BY <1>2, <1>3, <1>4, <1>6, <1>7, <1>10 DEF IInv, PrefixTracksCursor
<1> QED BY <1>8, <1>9, <1>11 DEF IInv

\* A feed that returns before the parser: the header is short or bad.
LEMMA FeedHeaderKeeps ==
  ASSUME IInv, NEW n \in 0..Bytes.size,
         FeedShortHeader(n) \/ \E end \in BOOLEAN : FeedBadHeader(n, end)
  PROVE  IInv'
<1>1. Bytes.size \in Nat /\ size \in Nat /\ n \in Nat /\ size + n \in 0..Bytes.size
  BY MediaAssumption DEF IInv, TypeOK, Bytes, FeedShortHeader, FeedBadHeader, Feeding
<1>2. HeaderStatus(n) \in Status
  BY <1>1, HeaderStatuses DEF HeaderStatus, Status
<1>3. ~header_validated
  BY DEF FeedShortHeader, FeedBadHeader, HeaderStatus
<1>4. /\ size' = size + n /\ pc = "idle" /\ terminal' \in BOOLEAN
      /\ error' \in Status /\ status' \in Status
      /\ UNCHANGED <<file, alive, parse_offset, valid_prefix, cancelled,
                     header_validated, tracks, track_capacity, pc, final, stack>>
  BY <1>2, Zenon DEF FeedShortHeader, FeedBadHeader, Feeding, IInv, TypeOK, Status
<1>5. events' \in Seq(EventType)
  <2>1. events \in Seq(EventType) /\ Event("error", 0) \in EventType
    BY DEF IInv, TypeOK, EventType, Event
  <2> QED BY <2>1, AppendProperties DEF FeedShortHeader, FeedBadHeader
<1>6. TypeOK'
  BY <1>1, <1>4, <1>5 DEF IInv, TypeOK, EventType, Bytes
<1>7. CursorInParent'
  BY <1>4, EmptySeq DEF IInv, TypeOK, CursorInParent
<1>8. PrefixTracksCursor'
  BY <1>3, <1>4 DEF IInv, PrefixTracksCursor
<1> QED BY <1>6, <1>7, <1>8 DEF IInv

\* The tail of tide_decoder_feed leaves parse_offset at the valid prefix.
LEMMA FeedReturnKeeps ==
  ASSUME IInv, FeedReturn
  PROVE  IInv'
<1>1. /\ pc = "return" /\ pc' = "idle" /\ terminal' \in BOOLEAN
      /\ UNCHANGED <<file, alive, size, valid_prefix, cancelled, header_validated,
                     error, tracks, track_capacity, final, stack>>
  BY DEF FeedReturn, Resume, Returned, Failed, Finished, IInv, TypeOK
<1>2. status' \in Status
  BY DEF FeedReturn, Resume, Returned, Failed, Finished, IInv, TypeOK, Status
<1>3. parse_offset' \in Nat
  BY DEF FeedReturn, Resume, Returned, Failed, Finished, IInv, TypeOK
<1>4. events' \in Seq(EventType)
  <2>1. events \in Seq(EventType) /\ Event("error", 0) \in EventType
    BY DEF IInv, TypeOK, EventType, Event
  <2> QED BY <2>1, AppendProperties DEF FeedReturn, Resume, Returned, Failed, Finished
<1>5. ~terminal' => parse_offset' = valid_prefix
  BY <1>1, Zenon DEF FeedReturn, Resume, Returned, Failed, Finished, IInv, PrefixTracksCursor
<1>6. TypeOK'
  BY <1>1, <1>2, <1>3, <1>4 DEF IInv, TypeOK, EventType, Bytes
<1>7. CursorInParent'
  BY <1>1 DEF IInv, CursorInParent
<1>8. PrefixTracksCursor'
  BY <1>1, <1>5 DEF IInv, PrefixTracksCursor
<1> QED BY <1>6, <1>7, <1>8 DEF IInv

\* The window of a group's children lies in the group.
LEMMA EnterGroupKeeps ==
  ASSUME IInv, EnterGroup
  PROVE  IInv'
<1> DEFINE f == Frame(Cursor)
           a == [cursor |-> PayloadOffset(f, Cursor) + TIDE_GROUP_META_SIZE,
                 end    |-> PayloadEnd(f, Cursor)]
<1>1. <<>> \in Seq(EventType) /\ Callbacks(<<>>)
  BY EmptySeq DEF EnterGroup, ChildWindow
<1>2. /\ pc = "parse" /\ Cursor < Top.end /\ IsFrame(f)
      /\ Cursor = stack[Len(stack)].cursor /\ Top = stack[Len(stack)]
      /\ CheckRecord(f, Cursor, Top.end) = "OK"
      /\ events' \in Seq(EventType) /\ cancelled' \in BOOLEAN
      /\ UNCHANGED <<file, alive, size, parse_offset, terminal, header_validated, final>>
  BY <1>1, CallbacksStep, Zenon
<1>3. /\ f.type = "GROUP" /\ GroupStatus(f, Depth) = "OK"
      /\ stack' = Append(stack, a)
      /\ UNCHANGED <<valid_prefix, error, tracks, track_capacity, pc, status>>
  BY DEF EnterGroup, ChildWindow, OnRecordOk
<1>4. /\ Len(stack) \in Nat \ {0} /\ Len(stack) \in 1..Len(stack)
      /\ \A i \in 1..Len(stack) : stack[i] \in Activation
      /\ Cursor \in Nat /\ Top.end \in Nat /\ stack \in Seq(Activation)
  BY <1>2, StackNonempty DEF IInv, TypeOK
<1>5. TIDE_GROUP_META_SIZE <= f.payload_size /\ f.payload_size \in Nat
  <2> HIDE DEF f
  <2>1. f.payload_size \in Nat
    BY <1>2 DEF IsFrame
  <2>2. ~(f.payload_size < TIDE_GROUP_META_SIZE)
    BY <1>3 DEF GroupStatus
  <2> QED BY <2>1, <2>2, SizesAssumption
<1>6. TIDE_HEADER_SIZE <= Cursor /\ Top.end <= size /\ size \in Nat
  <2>1. size \in Nat
    BY MediaAssumption DEF IInv, TypeOK, Bytes
  <2>2. TIDE_HEADER_SIZE <= stack[Len(stack)].cursor /\ stack[Len(stack)].end <= size
    BY <1>4 DEF IInv, CursorInParent
  <2> QED BY <1>2, <2>1, <2>2
<1>7. Encloses(file, Top, a)
  <2>1. Top.cursor = Cursor /\ Media[file].frame[Top.cursor] = f
    BY DEF Cursor, Frame, Bytes
  <2>2. /\ a.cursor = PayloadOffset(f, Cursor) + TIDE_GROUP_META_SIZE
        /\ a.end = PayloadEnd(f, Cursor)
    OBVIOUS
  <2> HIDE DEF f
  <2>3. PayloadOffset(f, Cursor) \in Nat
    BY <1>2, <1>4, FrameBounds
  <2>4. PayloadOffset(f, Cursor) + TIDE_GROUP_META_SIZE <= a.cursor
    BY <2>2, <2>3, SizesAssumption
  <2> HIDE DEF a
  <2> QED BY <1>2, <1>3, <2>1, <2>2, <2>4 DEF Encloses
<1>8. /\ a \in Activation /\ TIDE_HEADER_SIZE <= a.cursor /\ a.cursor <= a.end
      /\ a.end <= size /\ Cursor <= a.cursor
  <2> HIDE DEF f
  <2>1. /\ PayloadOffset(f, Cursor) \in Nat /\ PayloadEnd(f, Cursor) \in Nat
        /\ CrcEnd(f, Cursor) \in Nat
        /\ Cursor <= PayloadOffset(f, Cursor)
        /\ PayloadEnd(f, Cursor) = PayloadOffset(f, Cursor) + f.payload_size
        /\ PayloadEnd(f, Cursor) < CrcEnd(f, Cursor)
        /\ CrcEnd(f, Cursor) <= Top.end
    BY <1>2, <1>4, FrameBounds
  <2>2. a.cursor = PayloadOffset(f, Cursor) + TIDE_GROUP_META_SIZE
    OBVIOUS
  <2>3. a.end = PayloadEnd(f, Cursor)
    OBVIOUS
  <2>4. a.cursor \in Nat /\ a.end \in Nat
    BY <2>1, <2>2, <2>3, SizesAssumption
  <2>5. a \in Activation
    BY <2>2, <2>3, <2>4 DEF Activation
  <2> HIDE DEF a
  <2>6. Cursor <= a.cursor /\ TIDE_HEADER_SIZE <= a.cursor
    BY <1>4, <1>6, <2>1, <2>2, SizesAssumption
  <2>7. a.cursor <= a.end
    BY <1>5, <2>1, <2>2, <2>3, SizesAssumption
  <2>8. a.end <= size
    BY <1>4, <1>6, <2>1, <2>3
  <2> QED BY <2>5, <2>6, <2>7, <2>8
<1> HIDE DEF f, a
<1>9. /\ stack' \in Seq(Activation) /\ stack' # <<>> /\ Len(stack') = Len(stack) + 1
      /\ \A i \in 1..Len(stack) : stack'[i] = stack[i]
      /\ stack'[Len(stack) + 1] = a
  <2>1. a \in Activation /\ stack \in Seq(Activation) /\ stack' = Append(stack, a)
    BY <1>3, <1>4, <1>8
  <2>2. /\ stack' \in Seq(Activation) /\ Len(stack') = Len(stack) + 1
        /\ \A i \in 1..Len(stack) : stack'[i] = stack[i]
        /\ stack'[Len(stack) + 1] = a
    BY <2>1, AppendProperties
  <2> QED BY <1>4, <2>2, EmptySeq
<1>10. TypeOK'
  BY <1>2, <1>3, <1>9 DEF IInv, TypeOK, EventType, Bytes
<1>11. CursorInParent'
  <2>1. ASSUME NEW i \in 1..Len(stack')
        PROVE  /\ TIDE_HEADER_SIZE <= stack'[i].cursor
               /\ stack'[i].cursor <= stack'[i].end
               /\ stack'[i].end <= size'
    <3>1. CASE i \in 1..Len(stack)
      BY <3>1, <1>2, <1>9 DEF IInv, CursorInParent
    <3>2. CASE i = Len(stack) + 1
      BY <3>2, <1>2, <1>8, <1>9
    <3> QED BY <1>4, <1>9, <3>1, <3>2
  <2>2. ASSUME NEW i \in 1..(Len(stack') - 1)
        PROVE  Encloses(file', stack'[i], stack'[i+1])
    <3>1. CASE i = Len(stack)
      BY <3>1, <1>2, <1>4, <1>7, <1>9
    <3>2. CASE i \in 1..(Len(stack) - 1)
      <4>1. i \in 1..Len(stack) /\ i + 1 \in 1..Len(stack)
        BY <1>4, <3>2
      <4> QED BY <3>2, <4>1, <1>2, <1>9 DEF IInv, CursorInParent
    <3> QED BY <1>4, <1>9, <3>1, <3>2
  <2> QED BY <2>1, <2>2 DEF CursorInParent
<1>12. PrefixTracksCursor'
  <2>1. Cursor' = a.cursor
    BY <1>9 DEF Cursor, Top
  <2>2. valid_prefix <= a.cursor
    <3>1. valid_prefix \in Nat /\ valid_prefix <= Cursor
      BY <1>2 DEF IInv, TypeOK, PrefixTracksCursor
    <3>2. a.cursor \in Nat
      BY <1>8 DEF Activation
    <3> QED BY <3>1, <3>2, <1>4, <1>8
  <2>3. 1 \in 1..Len(stack) /\ Len(stack) + 1 # 1
    BY <1>4
  <2>4. stack'[1] = stack[1] /\ Len(stack') # 1
    BY <1>9, <2>3
  <2>5. stack'[1].end = size'
    BY <1>2, <2>4 DEF IInv, PrefixTracksCursor
  <2> QED BY <1>2, <1>3, <2>1, <2>2, <2>4, <2>5 DEF IInv, PrefixTracksCursor
<1> QED BY <1>10, <1>11, <1>12 DEF IInv

\* The end of an activation leaves the one around it in its own window.
LEMMA LevelDoneKeeps ==
  ASSUME IInv, LevelDone
  PROVE  IInv'
<1>1. /\ pc = "parse" /\ Cursor >= Top.end
      /\ UNCHANGED <<file, alive, size, parse_offset, cancelled, terminal,
                     header_validated, tracks, track_capacity, final, events>>
  BY DEF LevelDone
<1>2. /\ tracks' \in Seq(Track) /\ track_capacity' \in Nat
      /\ events' \in Seq(EventType) /\ cancelled' \in BOOLEAN
  BY <1>1 DEF IInv, TypeOK, EventType
<1>3. Len(stack) \in Nat /\ Len(stack) >= 1
  BY <1>1, StackNonempty DEF IInv
<1>4. CASE Cursor # Top.end
  BY <1>1, <1>2, <1>4, FailKeeps DEF LevelDone, Status
<1>5. CASE Cursor = Top.end /\ Len(stack) > 1
  <2> DEFINE level == Len(stack) - 1
  <2>1. level \in 1..Len(stack) /\ level \in 1..(Len(stack) - 1)
    BY <1>3, <1>5
  <2>2. Advance(level)
    BY <1>5 DEF LevelDone
  <2>3. CheckRecord(Frame(stack[level].cursor), stack[level].cursor, stack[level].end) = "OK"
    BY <2>1 DEF IInv, CursorInParent, Encloses, Frame, Bytes
  <2> HIDE DEF level
  <2> QED BY <1>1, <1>2, <2>1, <2>2, <2>3, AdvanceKeeps
<1>6. CASE Cursor = Top.end /\ ~(Len(stack) > 1)
  <2>1. /\ status' = "OK" /\ pc' = "return" /\ stack' = <<>>
        /\ UNCHANGED <<valid_prefix, error>>
    BY <1>6 DEF LevelDone
  <2>2. Len(stack) = 1
    <3>1. \A n \in Nat : n >= 1 /\ ~(n > 1) => n = 1
      OBVIOUS
    <3>2. ~(Len(stack) > 1)
      BY <1>6
    <3> QED BY <1>3, <3>1, <3>2, Zenon
  <2>3. Top.end = size /\ valid_prefix = Cursor
    BY <1>1, <2>2 DEF IInv, PrefixTracksCursor, Top
  <2>4. TypeOK'
    BY <1>1, <1>2, <2>1, EmptySeq DEF IInv, TypeOK, EventType, Bytes, Status
  <2>5. CursorInParent'
    BY <2>1, EmptySeq DEF CursorInParent
  <2>6. PrefixTracksCursor'
    BY <1>1, <1>6, <2>1, <2>3 DEF IInv, PrefixTracksCursor
  <2> QED BY <2>4, <2>5, <2>6 DEF IInv
<1> QED BY <1>4, <1>5, <1>6

\* Every step of the decoder keeps the invariant.
LEMMA IInvStep == IInv /\ [Next]_vars => IInv'
<1> SUFFICES ASSUME IInv, [Next]_vars PROVE IInv'
  OBVIOUS
<1> USE DEF Status
<1>0. /\ <<>> \in Seq(EventType)
      /\ tracks \in Seq(Track) /\ track_capacity \in Nat /\ error \in Status
      /\ events \in Seq(EventType)
      /\ alive \in BOOLEAN /\ cancelled \in BOOLEAN /\ status \in Status
  BY EmptySeq DEF IInv, TypeOK, EventType
<1>1. CASE FeedRejected
  BY <1>0, <1>1, IdleKeeps DEF FeedRejected
<1>2. ASSUME NEW n \in 0..Bytes.size, FeedNoRoom(n) PROVE IInv'
  BY <1>0, <1>2, IdleKeeps DEF FeedNoRoom, Feeding
<1>3. ASSUME NEW n \in 0..Bytes.size,
             FeedShortHeader(n) \/ \E end \in BOOLEAN : FeedBadHeader(n, end)
      PROVE  IInv'
  BY <1>3, FeedHeaderKeeps
<1>4. ASSUME NEW n \in 0..Bytes.size, NEW end \in BOOLEAN, FeedParse(n, end) PROVE IInv'
  BY <1>4, FeedParseKeeps
<1>5. CASE RecordTruncated
  BY <1>0, <1>5, FailKeeps DEF RecordTruncated, AtRecord
<1>6. CASE RecordRejected
  <2>1. pc = "parse"
    BY <1>6 DEF RecordRejected, AtRecord
  <2>2. IsFrame(Frame(Cursor))
    BY <2>1, StackNonempty, FrameAtCursor DEF IInv, Cursor, Top
  <2>3. RecordCheck \in Status \ {"OK"}
    BY <1>6, <2>2, CheckRecordStatus DEF RecordRejected, RecordCheck
  <2> QED BY <1>0, <1>6, <2>1, <2>3, FailKeeps DEF RecordRejected
<1>7. CASE OnRecordFails
  BY <1>0, <1>7, CallbacksStep, FailKeeps, DecoderAssumption, Zenon DEF OnRecordFails
<1>8. CASE SkipRecord
  BY <1>0, <1>8, SettleKeeps, Zenon DEF SkipRecord, Settle
<1>9. CASE UnknownRecord
  BY <1>0, <1>9, CallbacksStep, FailKeeps, Zenon DEF UnknownRecord
<1>10. CASE SimpleRecord
  <2>1. tide_emit_simple_record(Frame(Cursor), Cursor, tracks) \in Status
    BY <1>10, SimpleRecordStatus DEF SimpleRecord, OnRecordOk, BodyStatus
  <2> QED BY <1>0, <1>10, <2>1, SettleKeeps, Zenon DEF SimpleRecord
<1>11. CASE EnterGroup
  BY <1>11, EnterGroupKeeps
<1>12. CASE BadGroup
  BY <1>0, <1>12, CallbacksStep, FailKeeps, Zenon DEF BadGroup, GroupStatus
<1>13. CASE StreamRejected
  <2>1. StreamStatus \in Status
    BY DEF StreamStatus, StreamDescStatus, AddTrackStatus
  <2> QED BY <1>0, <1>13, <2>1, CallbacksStep, FailKeeps, Zenon DEF StreamRejected
<1>14. CASE StreamNoMemory
  BY <1>0, <1>14, SettleKeeps, Zenon DEF StreamNoMemory
<1>15. CASE StreamAdded
  <2> DEFINE more == <<Event("stream", Cursor)>>
  <2>1. pc = "parse" /\ Callbacks(more)
    BY <1>15 DEF StreamAdded, Callbacks, AtRecord
  <2>2. Cursor \in Nat /\ IsFrame(Frame(Cursor))
    BY <2>1, StackNonempty, FrameAtCursor DEF IInv, Cursor, Top
  <2>3. more \in Seq(EventType)
    BY <2>2 DEF EventType, Event
  <2>4. Frame(Cursor).body.track \in Track
    BY <1>15, <2>2 DEF StreamAdded, OnRecordOk, IsFrame
  <2>5. tracks' \in Seq(Track)
    BY <1>0, <1>15, <2>4, AppendProperties DEF StreamAdded
  <2>6. track_capacity' \in Nat
    BY <1>0, <1>15, DecoderAssumption DEF StreamAdded
  <2> HIDE DEF more
  <2>7. PICK c \in CallbackStatus : Settle(c, error)
    BY <1>15 DEF StreamAdded
  <2>8. c \in Status /\ error \in Status
    BY <1>0, DecoderAssumption
  <2> QED BY <2>1, <2>3, <2>5, <2>6, <2>7, <2>8, SettleKeeps
<1>16. CASE PacketRejected
  BY <1>0, <1>16, CallbacksStep, FailKeeps, Zenon DEF PacketRejected, PacketStatus
<1>17. CASE PacketEmitted
  <2> DEFINE more == <<Event("packet", Cursor)>>
  <2>1. pc = "parse" /\ Callbacks(more)
    BY <1>17 DEF PacketEmitted, Callbacks, AtRecord
  <2>2. Cursor \in Nat
    BY <2>1, StackNonempty DEF IInv
  <2>3. more \in Seq(EventType)
    BY <2>2 DEF EventType, Event
  <2> HIDE DEF more
  <2>4. PICK c \in CallbackStatus : Settle(c, error)
    BY <1>17 DEF PacketEmitted
  <2>5. c \in Status /\ error \in Status
    BY <1>0, DecoderAssumption
  <2>6. tracks' \in Seq(Track) /\ track_capacity' \in Nat
    BY <1>0, <1>17 DEF PacketEmitted
  <2> QED BY <2>1, <2>3, <2>4, <2>5, <2>6, SettleKeeps
<1>18. CASE LevelDone
  BY <1>18, LevelDoneKeeps
<1>19. CASE FeedReturn
  BY <1>19, FeedReturnKeeps
<1>20. CASE tide_decoder_cancel
  BY <1>0, <1>20, IdleKeeps DEF tide_decoder_cancel
<1>21. CASE tide_decoder_destroy
  BY <1>0, <1>21, IdleKeeps, Zenon DEF tide_decoder_destroy
<1>22. CASE UNCHANGED vars
  <2> USE <1>22 DEF vars, impl
  <2>1. TypeOK'
    BY DEF IInv, TypeOK, Bytes
  <2>2. CursorInParent'
    BY DEF IInv, CursorInParent
  <2>3. Cursor' = Cursor
    BY DEF Cursor, Top
  <2>4. PrefixTracksCursor'
    BY <2>3 DEF IInv, PrefixTracksCursor
  <2> QED BY <2>1, <2>2, <2>4 DEF IInv
<1> QED
  BY <1>1, <1>2, <1>3, <1>4, <1>5, <1>6, <1>7, <1>8, <1>9, <1>10, <1>11, <1>12, <1>13,
     <1>14, <1>15, <1>16, <1>17, <1>18, <1>19, <1>20, <1>21, <1>22
  DEF Next, Feed, Parse

\* The invariant holds in every reachable state.
THEOREM Invariance == Spec => []IInv
BY InitIInv, IInvStep, PTL DEF Spec

\* Every variable keeps its type.
THEOREM TypeCorrect == Spec => []TypeOK
<1>1. IInv => TypeOK
  BY DEF IInv
<1> QED BY <1>1, Invariance, PTL

\* No activation of tide_parse_records reads beyond the payload of the group it
\* is in, whatever the bytes are.
THEOREM StaysInParent == Spec => []CursorInParent
<1>1. IInv => CursorInParent
  BY DEF IInv
<1> QED BY <1>1, Invariance, PTL

\* The next feed resumes where the complete prefix ends.
THEOREM Resumes == Spec => []ResumesAtPrefix
<1>1. IInv => ResumesAtPrefix
  BY DEF IInv, PrefixTracksCursor, ResumesAtPrefix
<1> QED BY <1>1, Invariance, PTL

------------------------------------------------------------------------------
(* The valid prefix *)

\* What lies between the cursor of an activation and the end of its record.
LEMMA RecordAfterCursor ==
  ASSUME IInv, pc = "parse", NEW i \in 1..Len(stack),
         CheckRecord(Frame(stack[i].cursor), stack[i].cursor, stack[i].end) = "OK"
  PROVE  LET o == stack[i].cursor
         IN  /\ PayloadEnd(Frame(o), o) \in Nat /\ CrcEnd(Frame(o), o) \in Nat
             /\ o < CrcEnd(Frame(o), o)
             /\ PayloadEnd(Frame(o), o) < CrcEnd(Frame(o), o)
<1> DEFINE o == stack[i].cursor
<1>1. o \in Nat /\ stack[i].end \in Nat
  BY StackNonempty DEF IInv
<1>2. IsFrame(Frame(o))
  BY FrameAtCursor
<1>3. CheckRecord(Frame(o), o, stack[i].end) = "OK"
  OBVIOUS
<1> HIDE DEF o
<1>4. /\ PayloadOffset(Frame(o), o) \in Nat /\ PayloadEnd(Frame(o), o) \in Nat
      /\ CrcEnd(Frame(o), o) \in Nat /\ o <= PayloadOffset(Frame(o), o)
      /\ PayloadEnd(Frame(o), o) = PayloadOffset(Frame(o), o) + Frame(o).payload_size
      /\ PayloadEnd(Frame(o), o) < CrcEnd(Frame(o), o)
  BY <1>1, <1>2, <1>3, FrameBounds
<1>5. Frame(o).payload_size \in Nat
  BY <1>2 DEF IsFrame
<1>6. o < CrcEnd(Frame(o), o)
  BY <1>1, <1>4, <1>5
<1> QED BY <1>4, <1>6 DEF o

\* The innermost activation moves past its record.
LEMMA AdvanceGrows ==
  ASSUME IInv, AtRecord, RecordCheck = "OK", Advance(Len(stack))
  PROVE  valid_prefix <= valid_prefix'
<1>1. pc = "parse" /\ Len(stack) \in 1..Len(stack) /\ Cursor \in Nat /\ valid_prefix \in Nat
  BY StackNonempty DEF AtRecord, IInv, TypeOK
<1>2. Cursor < CrcEnd(Frame(Cursor), Cursor) /\ CrcEnd(Frame(Cursor), Cursor) \in Nat
  BY <1>1, RecordAfterCursor DEF RecordCheck, Cursor, Top
<1>3. valid_prefix' = CrcEnd(Frame(Cursor), Cursor)
  BY DEF Advance, Cursor, Top
<1>4. valid_prefix <= Cursor
  BY <1>1 DEF IInv, PrefixTracksCursor
<1> QED BY <1>1, <1>2, <1>3, <1>4

\* The activation around a group whose children are done moves past the group,
\* which ends after them.
LEMMA LevelDoneGrows ==
  ASSUME IInv, LevelDone
  PROVE  valid_prefix <= valid_prefix'
<1>1. /\ pc = "parse" /\ Cursor \in Nat /\ Top.end \in Nat /\ valid_prefix \in Nat
      /\ Len(stack) \in Nat \ {0} /\ valid_prefix <= Cursor
  BY StackNonempty DEF LevelDone, IInv, TypeOK, PrefixTracksCursor
<1>2. CASE Cursor = Top.end /\ Len(stack) > 1 /\ Advance(Len(stack) - 1)
  <2> DEFINE k == Len(stack) - 1
             o == stack[k].cursor
  <2>1. k \in 1..Len(stack) /\ k \in 1..(Len(stack) - 1) /\ k + 1 = Len(stack)
    BY <1>1, <1>2
  <2>2. Encloses(file, stack[k], stack[k+1])
    BY <2>1 DEF IInv, CursorInParent
  <2>3. CheckRecord(Frame(o), o, stack[k].end) = "OK" /\ Top.end = PayloadEnd(Frame(o), o)
    BY <2>1, <2>2 DEF Encloses, Frame, Bytes, Top
  <2>4. PayloadEnd(Frame(o), o) < CrcEnd(Frame(o), o) /\ CrcEnd(Frame(o), o) \in Nat
    BY <1>1, <2>1, <2>3, RecordAfterCursor
  <2>5. valid_prefix' = CrcEnd(Frame(o), o)
    BY <1>2 DEF Advance
  <2> HIDE DEF o
  <2> QED BY <1>1, <1>2, <2>3, <2>4, <2>5
<1>3. CASE UNCHANGED valid_prefix
  BY <1>1, <1>3
<1> QED BY <1>1, <1>2, <1>3 DEF LevelDone

\* A record was passed, or the parser failed at it.
LEMMA SettleGrows ==
  ASSUME IInv, NEW more, Callbacks(more), NEW s, NEW err, Settle(s, err)
  PROVE  valid_prefix <= valid_prefix'
<1>1. valid_prefix \in Nat
  BY DEF IInv, TypeOK
<1> QED BY <1>1, AdvanceGrows DEF Settle, Callbacks

\* Every step keeps or extends the valid prefix.
LEMMA PrefixStep == IInv /\ [Next]_vars => valid_prefix <= valid_prefix'
<1> SUFFICES ASSUME IInv, [Next]_vars PROVE valid_prefix <= valid_prefix'
  OBVIOUS
<1>0. valid_prefix \in Nat
  BY DEF IInv, TypeOK
<1>1. CASE UNCHANGED valid_prefix
  BY <1>0, <1>1
<1>2. CASE \E n \in 0..Bytes.size, end \in BOOLEAN : FeedParse(n, end)
  <2>1. header_validated \in BOOLEAN
    BY DEF IInv, TypeOK
  <2>2. ~header_validated => valid_prefix = 0
    BY DEF IInv, PrefixTracksCursor
  <2> QED BY <1>0, <1>2, <2>1, <2>2, SizesAssumption DEF FeedParse, AfterHeader
<1>3. CASE RecordTruncated
  <2>1. pc = "parse" /\ valid_prefix' = Cursor
    BY <1>3 DEF RecordTruncated, AtRecord
  <2> QED BY <2>1 DEF IInv, PrefixTracksCursor
<1>4. CASE SkipRecord
  BY <1>4, AdvanceGrows DEF SkipRecord, Callbacks
<1>5. CASE SimpleRecord
  BY <1>5, SettleGrows DEF SimpleRecord
<1>6. CASE StreamNoMemory
  BY <1>6, SettleGrows DEF StreamNoMemory
<1>7. CASE StreamAdded
  BY <1>7, SettleGrows DEF StreamAdded
<1>8. CASE PacketEmitted
  BY <1>8, SettleGrows DEF PacketEmitted
<1>9. CASE LevelDone
  BY <1>9, LevelDoneGrows
<1>10. CASE \/ RecordRejected \/ OnRecordFails \/ UnknownRecord \/ EnterGroup \/ BadGroup
            \/ StreamRejected \/ PacketRejected \/ FeedReturn
  BY <1>1, <1>10 DEF RecordRejected, OnRecordFails, UnknownRecord, EnterGroup, BadGroup,
     StreamRejected, PacketRejected, FeedReturn
<1>11. CASE \/ FeedRejected \/ tide_decoder_cancel \/ tide_decoder_destroy
            \/ \E n \in 0..Bytes.size : \/ FeedNoRoom(n) \/ FeedShortHeader(n)
                                        \/ \E end \in BOOLEAN : FeedBadHeader(n, end)
  BY <1>1, <1>11 DEF FeedRejected, tide_decoder_cancel, tide_decoder_destroy, FeedNoRoom,
     FeedShortHeader, FeedBadHeader, impl
<1>12. CASE UNCHANGED vars
  BY <1>1, <1>12 DEF vars, impl
<1> QED
  BY <1>2, <1>3, <1>4, <1>5, <1>6, <1>7, <1>8, <1>9, <1>10, <1>11, <1>12 DEF Next, Feed, Parse

\* The prefix that tide_decoder_valid_prefix reports of a live decoder never shrinks.
THEOREM PrefixNeverShrinks == Spec => PrefixGrows
<1>1. IInv /\ [Next]_vars => [valid_prefix <= valid_prefix']_vars
  BY PrefixStep
<1> QED BY <1>1, Invariance, PTL DEF Spec, PrefixGrows

------------------------------------------------------------------------------
(* A finished, cancelled or destroyed decoder *)

\* Calls on a finished or cancelled decoder change nothing its accessors report, and
\* those on a destroyed one call nobody back.
THEOREM SealedForever == Spec => Sealed
<1> DEFINE visible == <<size, valid_prefix, tracks, events, error>>
<1>1. ASSUME [Next]_vars, pc = "idle", terminal \/ cancelled \/ ~alive
      PROVE  UNCHANGED visible
  <2>1. \A n : ~Feeding(n)
    BY <1>1 DEF Feeding
  <2>2. ~Parse
    BY <1>1, Zenon DEF Parse, RecordTruncated, RecordRejected, OnRecordFails, SkipRecord,
       UnknownRecord, SimpleRecord, EnterGroup, BadGroup, StreamRejected, StreamNoMemory,
       StreamAdded, PacketRejected, PacketEmitted, LevelDone, FeedReturn, Callbacks, AtRecord
  <2>3. CASE Feed
    BY <2>1, <2>3 DEF Feed, FeedRejected, FeedNoRoom, FeedShortHeader, FeedBadHeader,
       FeedParse, impl
  <2>4. CASE tide_decoder_cancel \/ tide_decoder_destroy
    BY <2>4 DEF tide_decoder_cancel, tide_decoder_destroy, impl
  <2>5. CASE UNCHANGED vars
    BY <2>5 DEF vars, impl
  <2> QED BY <1>1, <2>2, <2>3, <2>4, <2>5 DEF Next
<1>2. [Next]_vars => [pc = "idle" /\ (terminal \/ cancelled \/ ~alive) =>
                        UNCHANGED visible]_vars
  BY <1>1
<1> QED BY <1>2, PTL DEF Spec, Sealed

------------------------------------------------------------------------------
(* The depth of the recursion *)

\* The stack grows by one activation, for a group that is not too deep, or not.
LEMMA StackSteps ==
  ASSUME IInv, [Next]_vars
  PROVE  \/ Len(stack') <= 1 \/ Len(stack') <= Len(stack)
         \/ /\ pc = "parse" /\ Depth < limits.max_depth
            /\ Len(stack') = Len(stack) + 1
<1>0. Len(stack) \in Nat /\ limits.max_depth \in Nat
  BY LenProperties, LimitsAssumption DEF IInv, TypeOK, Limits
<1>1. CASE UNCHANGED stack
  BY <1>0, <1>1
<1>2. CASE stack' = <<>>
  BY <1>2, EmptySeq
<1>3. ASSUME NEW s, NEW err, ParserFails(s, err) PROVE stack' = <<>>
  BY <1>3 DEF ParserFails
<1>4. ASSUME NEW level \in 1..Len(stack), Advance(level), pc = "parse" PROVE Len(stack') = level
  <2>1. stack' = [i \in 1..level |-> stack'[i]]
    BY <1>4 DEF Advance
  <2>2. level \in Nat
    BY <1>0
  <2> QED BY <2>1, <2>2
<1>5. CASE EnterGroup
  <2>1. pc = "parse" /\ stack \in Seq(Activation) /\ stack' = Append(stack, ChildWindow(Frame(Cursor)))
    BY <1>5 DEF EnterGroup, Callbacks, AtRecord, IInv, TypeOK
  <2>2. Len(stack') = Len(stack) + 1
    BY <2>1
  <2>3. Depth < limits.max_depth
    <3>1. GroupStatus(Frame(Cursor), Depth) = "OK"
      BY <1>5 DEF EnterGroup
    <3>2. Depth \in Nat
      BY <1>0, <2>1, StackNonempty, DecoderAssumption DEF Depth, IInv
    <3> QED BY <1>0, <3>1, <3>2 DEF GroupStatus
  <2> QED BY <2>1, <2>2, <2>3
<1>6. ASSUME NEW more, Callbacks(more), NEW s, NEW err, Settle(s, err)
      PROVE  stack' = <<>> \/ Len(stack') = Len(stack)
  BY <1>3, <1>4, <1>6, StackNonempty DEF Settle, Callbacks, AtRecord, IInv
<1>7. CASE SkipRecord
  BY <1>0, <1>4, <1>7, StackNonempty DEF SkipRecord, Callbacks, AtRecord, IInv
<1>8. CASE SimpleRecord
  BY <1>0, <1>2, <1>6, <1>8 DEF SimpleRecord
<1>9. CASE StreamNoMemory
  BY <1>0, <1>2, <1>6, <1>9 DEF StreamNoMemory
<1>10. CASE StreamAdded
  BY <1>0, <1>2, <1>6, <1>10 DEF StreamAdded
<1>11. CASE PacketEmitted
  BY <1>0, <1>2, <1>6, <1>11 DEF PacketEmitted
<1>12. CASE LevelDone
  <2>1. pc = "parse" /\ Len(stack) \in Nat \ {0}
    BY <1>12, StackNonempty DEF LevelDone, IInv
  <2>2. CASE Len(stack) > 1 /\ Advance(Len(stack) - 1)
    <3>1. Len(stack) - 1 \in 1..Len(stack)
      BY <2>1, <2>2
    <3>2. Len(stack') = Len(stack) - 1
      BY <1>4, <2>1, <2>2, <3>1
    <3> QED BY <1>0, <3>2
  <2> QED BY <1>2, <1>3, <1>12, <2>2 DEF LevelDone
<1>13. CASE \/ RecordTruncated \/ RecordRejected \/ OnRecordFails \/ UnknownRecord
            \/ BadGroup \/ StreamRejected \/ PacketRejected
  BY <1>2, <1>3, <1>13 DEF RecordTruncated, RecordRejected, OnRecordFails, UnknownRecord,
     BadGroup, StreamRejected, PacketRejected
<1>14. CASE \E n \in 0..Bytes.size, end \in BOOLEAN : FeedParse(n, end)
  <2>1. PICK w : stack' = <<w>>
    BY <1>14 DEF FeedParse
  <2>2. Len(stack') = 1
    BY <2>1
  <2> QED BY <2>2
<1>15. CASE \/ FeedRejected \/ tide_decoder_cancel \/ tide_decoder_destroy \/ FeedReturn
            \/ \E n \in 0..Bytes.size : \/ FeedNoRoom(n) \/ FeedShortHeader(n)
                                        \/ \E end \in BOOLEAN : FeedBadHeader(n, end)
  BY <1>1, <1>15 DEF FeedRejected, tide_decoder_cancel, tide_decoder_destroy, FeedReturn,
     FeedNoRoom, FeedShortHeader, FeedBadHeader
<1>16. CASE UNCHANGED vars
  BY <1>1, <1>16 DEF vars
<1> QED
  BY <1>5, <1>7, <1>8, <1>9, <1>10, <1>11, <1>12, <1>13, <1>14, <1>15, <1>16
  DEF Next, Feed, Parse

\* The recursion of tide_parse_records is bounded by limits.max_depth, provided
\* that limit is one the uint8_t depth can reach.
THEOREM DepthIsBounded ==
  ASSUME limits.max_depth < DEPTH_SPAN
  PROVE  Spec => []DepthBounded
<1>0. limits.max_depth \in Nat /\ DEPTH_SPAN \in Nat \ {0}
  BY LimitsAssumption, DecoderAssumption DEF Limits
<1>1. Init => DepthBounded
  BY <1>0, EmptySeq DEF Init, DepthBounded
<1>2. ASSUME IInv, DepthBounded, [Next]_vars PROVE DepthBounded'
  <2>1. Len(stack) \in Nat /\ Len(stack) <= limits.max_depth + 1
    BY <1>2, LenProperties DEF IInv, TypeOK, DepthBounded
  <2>2. CASE Len(stack') <= 1
    BY <1>0, <2>2 DEF DepthBounded
  <2>3. CASE Len(stack') <= Len(stack)
    BY <1>0, <2>1, <2>3 DEF DepthBounded
  <2>4. CASE pc = "parse" /\ Depth < limits.max_depth /\ Len(stack') = Len(stack) + 1
    <3>1. Len(stack) \in Nat \ {0}
      BY <1>2, <2>4, StackNonempty DEF IInv
    <3>2. \A n \in Nat \ {0} : n <= limits.max_depth + 1 => (n - 1) % DEPTH_SPAN = n - 1
      BY <1>0
    <3>3. Depth = Len(stack) - 1
      BY <2>1, <3>1, <3>2 DEF Depth
    <3> QED BY <1>0, <2>1, <2>4, <3>1, <3>3 DEF DepthBounded
  <2> QED BY <1>2, <2>2, <2>3, <2>4, StackSteps
<1> QED BY <1>1, <1>2, Invariance, PTL DEF Spec

------------------------------------------------------------------------------
(* The track table *)

\* tide_add_track adds a track it did not find to a table that has room.
LEMMA StreamAddedKeeps ==
  ASSUME IInv, TrackTable, StreamAdded
  PROVE  TrackTable'
<1> DEFINE t == Frame(Cursor).body.track
<1>1. /\ Len(tracks) \in Nat /\ limits.max_tracks \in Nat /\ track_capacity \in Nat
      /\ tracks \in Seq(Track) /\ TRACKS_FIRST \in Nat \ {0}
  BY LenProperties, LimitsAssumption, DecoderAssumption DEF IInv, TypeOK, Limits
<1>2. AddTrackStatus(t) = "OK"
  BY DEF StreamAdded, StreamStatus
<1> HIDE DEF t
<1>3. Len(tracks) < limits.max_tracks /\ \A i \in 1..Len(tracks) : tracks[i] # t
  BY <1>1, <1>2 DEF AddTrackStatus, tide_find_track
<1>4. tracks' = Append(tracks, t)
  BY DEF StreamAdded, t
<1>5. /\ Len(tracks') = Len(tracks) + 1
      /\ \A i \in 1..Len(tracks) : tracks'[i] = tracks[i]
      /\ tracks'[Len(tracks) + 1] = t
  BY <1>1, <1>4
<1>6. \A i, j \in 1..Len(tracks') : tracks'[i] = tracks'[j] => i = j
  <2> SUFFICES ASSUME NEW i \in 1..Len(tracks'), NEW j \in 1..Len(tracks'),
                      tracks'[i] = tracks'[j]
               PROVE  i = j
    OBVIOUS
  <2>1. /\ i \in 1..Len(tracks) \/ i = Len(tracks) + 1
        /\ j \in 1..Len(tracks) \/ j = Len(tracks) + 1
    BY <1>1, <1>5
  <2> QED BY <1>3, <1>5, <2>1 DEF TrackTable
<1>7. Len(tracks) + 1 <= track_capacity'
  <2>1. Len(tracks) <= track_capacity
    BY DEF TrackTable
  <2> QED BY <1>1, <2>1 DEF StreamAdded
<1> QED BY <1>1, <1>3, <1>5, <1>6, <1>7 DEF TrackTable

\* Only an accepted descriptor changes the table.
LEMMA TracksChange ==
  ASSUME [Next]_vars
  PROVE  StreamAdded \/ UNCHANGED <<tracks, track_capacity>>
<1>1. CASE Feed
  BY <1>1 DEF Feed, FeedRejected, FeedNoRoom, FeedShortHeader, FeedBadHeader, FeedParse, impl
<1>2. CASE Parse
  BY <1>2, Zenon DEF Parse, RecordTruncated, RecordRejected, OnRecordFails, SkipRecord,
     UnknownRecord, SimpleRecord, EnterGroup, BadGroup, StreamRejected, StreamNoMemory,
     PacketRejected, PacketEmitted, LevelDone, FeedReturn
<1>3. CASE tide_decoder_cancel \/ tide_decoder_destroy \/ UNCHANGED vars
  BY <1>3 DEF tide_decoder_cancel, tide_decoder_destroy, vars, impl
<1> QED BY <1>1, <1>2, <1>3 DEF Next

\* The track table has no duplicate and never outgrows max_tracks or its memory.
THEOREM TracksAreDistinct == Spec => []TrackTable
<1>1. Init => TrackTable
  BY EmptySeq, LimitsAssumption DEF Init, TrackTable, Limits
<1>2. ASSUME IInv, TrackTable, [Next]_vars PROVE TrackTable'
  <2>1. CASE StreamAdded
    BY <1>2, <2>1, StreamAddedKeeps
  <2>2. CASE UNCHANGED <<tracks, track_capacity>>
    BY <1>2, <2>2 DEF TrackTable
  <2> QED BY <1>2, <2>1, <2>2, TracksChange
<1> QED BY <1>1, <1>2, Invariance, PTL DEF Spec

------------------------------------------------------------------------------
(* The buffer *)

\* Every step keeps the buffer within the aggregate limit.
LEMMA BufferStep == IInv /\ BufferBounded /\ [Next]_vars => BufferBounded'
<1> SUFFICES ASSUME IInv, BufferBounded, [Next]_vars PROVE BufferBounded'
  OBVIOUS
<1>1. CASE UNCHANGED size
  BY <1>1 DEF BufferBounded
<1>2. CASE \E n \in 0..Bytes.size : Fits(n) /\ size' = size + n
  BY <1>2 DEF Fits, WithinLimit, BufferBounded
<1>3. CASE Feed
  BY <1>1, <1>2, <1>3 DEF Feed, FeedRejected, FeedNoRoom, FeedShortHeader, FeedBadHeader,
     FeedParse, impl
<1>4. CASE Parse
  BY <1>1, <1>4, Zenon DEF Parse, RecordTruncated, RecordRejected, OnRecordFails, SkipRecord,
     UnknownRecord, SimpleRecord, EnterGroup, BadGroup, StreamRejected, StreamNoMemory,
     StreamAdded, PacketRejected, PacketEmitted, LevelDone, FeedReturn, Settle, Advance,
     Callbacks
<1>5. CASE tide_decoder_cancel \/ tide_decoder_destroy \/ UNCHANGED vars
  BY <1>1, <1>5 DEF tide_decoder_cancel, tide_decoder_destroy, vars, impl
<1> QED BY <1>3, <1>4, <1>5 DEF Next

\* The decoder never buffers more than a nonzero limits.max_aggregate_alloc.
THEOREM BufferIsBounded == Spec => []BufferBounded
<1>1. Init => BufferBounded
  BY LimitsAssumption DEF Init, BufferBounded, Limits
<1> QED BY <1>1, BufferStep, Invariance, PTL DEF Spec

------------------------------------------------------------------------------
(* The callbacks a step makes *)

\* What one event, or two, add to the callbacks made.
LEMMA OneMore ==
  ASSUME NEW a \in EventType, events \in Seq(EventType), events' = Append(events, a)
  PROVE  /\ Len(events) \in Nat /\ Len(events') = Len(events) + 1
         /\ \A i \in 1..Len(events) : events'[i] = events[i]
         /\ events'[Len(events) + 1] = a
         /\ events' = Append(events, a) \o <<>>
<1>1. Len(events) \in Nat
  BY LenProperties
<1>2. /\ Append(events, a) \in Seq(EventType) /\ Len(Append(events, a)) = Len(events) + 1
      /\ \A i \in 1..Len(events) : Append(events, a)[i] = events[i]
      /\ Append(events, a)[Len(events) + 1] = a
  BY AppendProperties
<1>3. Append(events, a) \o <<>> = Append(events, a)
  BY <1>2, ConcatEmptySeq
<1> QED BY <1>1, <1>2, <1>3

\* The same for two.
LEMMA TwoMore ==
  ASSUME NEW a \in EventType, NEW b \in EventType, events \in Seq(EventType),
         events' = Append(events, a) \o <<b>>
  PROVE  /\ Len(events) \in Nat /\ Len(events') = Len(events) + 2
         /\ \A i \in 1..Len(events) : events'[i] = events[i]
         /\ events'[Len(events) + 1] = a /\ events'[Len(events) + 2] = b
<1> DEFINE s == Append(events, a)
<1>1. Len(events) \in Nat
  BY LenProperties
<1>2. /\ s \in Seq(EventType) /\ Len(s) = Len(events) + 1
      /\ \A i \in 1..Len(events) : s[i] = events[i]
      /\ s[Len(events) + 1] = a
  BY AppendProperties
<1> HIDE DEF s
<1>4. /\ Len(s \o <<b>>) = Len(s) + 1
      /\ \A i \in 1..Len(s) : (s \o <<b>>)[i] = s[i]
      /\ (s \o <<b>>)[Len(s) + 1] = b
  <2>0. s \in Seq(EventType)
    BY <1>2, Zenon
  <2>1. s \o <<b>> = Append(s, b)
    BY <2>0, AppendIsConcat, Zenon
  <2>2. \A q \in Seq(EventType), x \in EventType :
          /\ Len(Append(q, x)) = Len(q) + 1 /\ Append(q, x)[Len(q) + 1] = x
          /\ \A i \in 1..Len(q) : Append(q, x)[i] = q[i]
    BY AppendProperties
  <2>3. /\ Len(Append(s, b)) = Len(s) + 1 /\ Append(s, b)[Len(s) + 1] = b
        /\ \A i \in 1..Len(s) : Append(s, b)[i] = s[i]
    <3> PICK q : q = s
      OBVIOUS
    <3>1. q \in Seq(EventType)
      BY <2>0
    <3>2. /\ Len(Append(q, b)) = Len(q) + 1 /\ Append(q, b)[Len(q) + 1] = b
          /\ \A i \in 1..Len(q) : Append(q, b)[i] = q[i]
      BY <2>2, <3>1, Zenon
    <3> QED BY <3>2, Zenon
  <2> QED BY <2>1, <2>3, Zenon
<1>5. (Len(events) + 1) + 1 = Len(events) + 2 /\ Len(events) + 1 \in 1..(Len(events) + 1)
      /\ 1..Len(events) \subseteq 1..(Len(events) + 1) /\ events' = s \o <<b>>
  BY <1>1 DEF s
<1> QED BY <1>1, <1>2, <1>4, <1>5, Zenon

\* The step makes the callbacks of a record: on_record and those in more.
MakesCallbacks ==
  \E more \in {<<>>, <<Event("stream", Cursor)>>, <<Event("packet", Cursor)>>} :
    Callbacks(more)

\* A step makes no callback, or those of one record, or calls on_error last.
LEMMA EventSteps ==
  ASSUME IInv, [Next]_vars
  PROVE  \/ UNCHANGED events /\ (terminal => terminal')
         \/ MakesCallbacks
         \/ /\ events' = Append(events, Event("error", 0))
            /\ ~terminal /\ terminal' /\ pc' = "idle"
<1>0. pc # "idle" => ~terminal
  BY DEF IInv, PrefixTracksCursor
<1>1. CASE FeedRejected \/ \E n \in 0..Bytes.size : FeedNoRoom(n) \/ FeedShortHeader(n)
  BY <1>1 DEF FeedRejected, FeedNoRoom, FeedShortHeader, impl
<1>2. CASE \E n \in 0..Bytes.size, end \in BOOLEAN : FeedParse(n, end)
  BY <1>2 DEF FeedParse
<1>3. CASE \E n \in 0..Bytes.size, end \in BOOLEAN : FeedBadHeader(n, end)
  BY <1>3 DEF FeedBadHeader, Feeding
<1>4. CASE RecordTruncated \/ RecordRejected \/ LevelDone
  BY <1>4 DEF RecordTruncated, RecordRejected, LevelDone
<1>5. CASE \/ OnRecordFails \/ SkipRecord \/ UnknownRecord \/ SimpleRecord \/ EnterGroup
           \/ BadGroup \/ StreamRejected \/ StreamNoMemory \/ StreamAdded
           \/ PacketRejected \/ PacketEmitted
  BY <1>5 DEF MakesCallbacks, OnRecordFails, SkipRecord, UnknownRecord, SimpleRecord,
     EnterGroup, BadGroup, StreamRejected, StreamNoMemory, StreamAdded, PacketRejected,
     PacketEmitted
<1>6. CASE FeedReturn
  BY <1>0, <1>6, Zenon DEF FeedReturn, Finished
<1>7. CASE tide_decoder_cancel \/ tide_decoder_destroy \/ UNCHANGED vars
  BY <1>7 DEF tide_decoder_cancel, tide_decoder_destroy, vars, impl
<1> QED
  BY <1>1, <1>2, <1>3, <1>4, <1>5, <1>6, <1>7 DEF Next, Feed, Parse

\* What the callbacks of a record add: on_record for the record at the cursor,
\* and perhaps one more for the same record.
LEMMA RecordEvents ==
  ASSUME IInv, MakesCallbacks
  PROVE  /\ pc = "parse" /\ ~terminal /\ Cursor \in Nat /\ Len(events) \in Nat
         /\ Len(events') \in {Len(events) + 1, Len(events) + 2}
         /\ \A i \in 1..Len(events) : events'[i] = events[i]
         /\ events'[Len(events) + 1] = Event("record", Cursor)
         /\ Len(events') = Len(events) + 2 =>
              events'[Len(events) + 2] \in {Event("stream", Cursor), Event("packet", Cursor)}
<1>1. PICK more \in {<<>>, <<Event("stream", Cursor)>>, <<Event("packet", Cursor)>>} :
        Callbacks(more)
  BY DEF MakesCallbacks
<1>2. pc = "parse" /\ events' = Append(events, Event("record", Cursor)) \o more
  BY <1>1 DEF Callbacks, AtRecord
<1>3. ~terminal /\ Cursor \in Nat /\ events \in Seq(EventType)
  BY <1>2, StackNonempty DEF IInv, PrefixTracksCursor, TypeOK, EventType
<1>4. /\ Event("record", Cursor) \in EventType
      /\ Event("stream", Cursor) \in EventType /\ Event("packet", Cursor) \in EventType
  BY <1>3 DEF Event, EventType
<1>5. CASE more = <<>>
  <2>1. events' = Append(events, Event("record", Cursor))
    BY <1>2, <1>3, <1>4, <1>5, AppendProperties, ConcatEmptySeq
  <2>2. /\ Len(events) \in Nat /\ Len(events') = Len(events) + 1
        /\ \A i \in 1..Len(events) : events'[i] = events[i]
        /\ events'[Len(events) + 1] = Event("record", Cursor)
    BY <1>3, <1>4, <2>1, OneMore
  <2>3. Len(events') # Len(events) + 2
    BY <2>2
  <2> QED BY <1>2, <1>3, <2>2, <2>3
<1>6. CASE more = <<Event("stream", Cursor)>>
  BY <1>2, <1>3, <1>4, <1>6, TwoMore
<1>7. CASE more = <<Event("packet", Cursor)>>
  BY <1>2, <1>3, <1>4, <1>7, TwoMore
<1> QED BY <1>1, <1>5, <1>6, <1>7

------------------------------------------------------------------------------
(* The order of the callbacks *)

\* Every step keeps on_error last.
LEMMA ErrorStep == IInv /\ ErrorIsLast /\ [Next]_vars => ErrorIsLast'
<1> SUFFICES ASSUME IInv, ErrorIsLast, [Next]_vars PROVE ErrorIsLast'
  OBVIOUS
<1>1. CASE UNCHANGED events /\ (terminal => terminal')
  BY <1>1 DEF ErrorIsLast
<1>2. CASE MakesCallbacks
  <2>1. \A i \in 1..Len(events) : events[i].cb # "error"
    BY <1>2, RecordEvents DEF ErrorIsLast
  <2>2. \A i \in 1..Len(events') : events'[i].cb # "error"
    <3> TAKE i \in 1..Len(events')
    <3>1. i \in 1..Len(events) \/ i = Len(events) + 1 \/
            (Len(events') = Len(events) + 2 /\ i = Len(events) + 2)
      BY <1>2, RecordEvents
    <3> QED BY <1>2, <2>1, <3>1, RecordEvents DEF Event
  <2> QED BY <2>2 DEF ErrorIsLast
<1>3. CASE events' = Append(events, Event("error", 0)) /\ ~terminal /\ terminal'
  <2>1. \A i \in 1..Len(events) : events[i].cb # "error"
    BY <1>3 DEF ErrorIsLast
  <2>2. Event("error", 0) \in EventType /\ events \in Seq(EventType)
    BY DEF IInv, TypeOK, Event, EventType
  <2>3. /\ Len(events) \in Nat /\ Len(events') = Len(events) + 1
        /\ \A i \in 1..Len(events) : events'[i] = events[i]
    BY <1>3, <2>2, OneMore
  <2> QED BY <1>3, <2>1, <2>3 DEF ErrorIsLast
<1> QED BY <1>1, <1>2, <1>3, EventSteps

\* on_error is called at most once and is the last callback.
THEOREM ErrorEndsCallbacks == Spec => []ErrorIsLast
<1>1. Init => ErrorIsLast
  BY EmptySeq DEF Init, ErrorIsLast
<1> QED BY <1>1, ErrorStep, Invariance, PTL DEF Spec

------------------------------------------------------------------------------
(* Packets come after their streams *)

\* Every track in the table was announced by on_stream.
TracksAnnounced ==
  \A k \in 1..Len(tracks) : \E j \in 1..Len(events) :
    /\ events[j].cb = "stream"
    /\ Frame(events[j].at).body.track = tracks[k]

\* A step accepts a descriptor, or emits a packet, or adds neither.
LEMMA TrackSteps ==
  ASSUME IInv, [Next]_vars
  PROVE  /\ file' = file
         /\ \/ StreamAdded \/ PacketEmitted
            \/ tracks' = tracks /\ events' = events
            \/ tracks' = tracks /\ \E e \in EventType :
                 e.cb \in {"record", "error"} /\ events' = Append(events, e)
<1>0. events \in Seq(EventType) /\ Event("error", 0) \in EventType
  BY DEF IInv, TypeOK, EventType, Event
<1>1. CASE \/ FeedRejected \/ tide_decoder_cancel \/ tide_decoder_destroy \/ UNCHANGED vars
           \/ \E n \in 0..Bytes.size : FeedNoRoom(n) \/ FeedShortHeader(n)
           \/ \E n \in 0..Bytes.size, end \in BOOLEAN : FeedParse(n, end)
           \/ RecordTruncated \/ RecordRejected \/ LevelDone
  BY <1>1, Zenon DEF FeedRejected, FeedNoRoom, FeedShortHeader, FeedParse, RecordTruncated,
     RecordRejected, LevelDone, tide_decoder_cancel, tide_decoder_destroy, vars, impl
<1>2. CASE FeedReturn \/ \E n \in 0..Bytes.size, end \in BOOLEAN : FeedBadHeader(n, end)
  <2>1. UNCHANGED <<file, tracks>> /\ events' \in {events, Append(events, Event("error", 0))}
    BY <1>2 DEF FeedReturn, FeedBadHeader
  <2>2. Event("error", 0).cb = "error"
    BY DEF Event
  <2> QED BY <1>0, <2>1, <2>2
<1>3. ASSUME Callbacks(<<>>), UNCHANGED tracks
      PROVE  /\ UNCHANGED <<file, tracks>>
             /\ \E e \in EventType : e.cb \in {"record", "error"} /\ events' = Append(events, e)
  <2>1. pc = "parse" /\ UNCHANGED file /\ events' = Append(events, Event("record", Cursor)) \o <<>>
    BY <1>3 DEF Callbacks, AtRecord
  <2>2. Event("record", Cursor) \in EventType /\ Event("record", Cursor).cb = "record"
    BY <2>1, StackNonempty DEF IInv, Event, EventType
  <2>3. events' = Append(events, Event("record", Cursor))
    BY <1>0, <2>1, <2>2, AppendProperties, ConcatEmptySeq
  <2> QED BY <1>3, <2>1, <2>2, <2>3
<1>4. CASE \/ OnRecordFails \/ SkipRecord \/ UnknownRecord \/ SimpleRecord \/ EnterGroup
           \/ BadGroup \/ StreamRejected \/ StreamNoMemory \/ PacketRejected
  BY <1>3, <1>4 DEF OnRecordFails, SkipRecord, UnknownRecord, SimpleRecord, EnterGroup,
     BadGroup, StreamRejected, StreamNoMemory, PacketRejected
<1>5. CASE StreamAdded \/ PacketEmitted
  BY <1>5 DEF StreamAdded, PacketEmitted, Callbacks
<1> QED BY <1>1, <1>2, <1>4, <1>5 DEF Next, Feed, Parse

\* on_stream announces the track that tide_add_track adds.
LEMMA StreamAnnounces ==
  ASSUME IInv, TracksAnnounced, PacketAfterStream, StreamAdded, file' = file
  PROVE  TracksAnnounced' /\ PacketAfterStream'
<1> DEFINE n == Len(events)
           t == Frame(Cursor).body.track
<1>1. MakesCallbacks /\ events' = Append(events, Event("record", Cursor)) \o <<Event("stream", Cursor)>>
  BY DEF StreamAdded, MakesCallbacks, Callbacks
<1>2. pc = "parse" /\ Cursor \in Nat /\ events \in Seq(EventType)
  BY <1>1, RecordEvents DEF IInv, TypeOK, EventType
<1>3. Event("record", Cursor) \in EventType /\ Event("stream", Cursor) \in EventType
  BY <1>2 DEF Event, EventType
<1>4. /\ n \in Nat /\ Len(events') = n + 2
      /\ \A i \in 1..n : events'[i] = events[i]
      /\ events'[n + 1] = Event("record", Cursor) /\ events'[n + 2] = Event("stream", Cursor)
  BY <1>1, <1>2, <1>3, TwoMore
<1>6. tracks \in Seq(Track) /\ tracks' = Append(tracks, t) /\ Len(tracks) \in Nat
  BY LenProperties DEF StreamAdded, IInv, TypeOK
<1>7. /\ Len(tracks') = Len(tracks) + 1 /\ tracks'[Len(tracks) + 1] = t
      /\ \A k \in 1..Len(tracks) : tracks'[k] = tracks[k]
  BY <1>6
<1> HIDE DEF n, t
<1>8. TracksAnnounced'
  <2> SUFFICES ASSUME NEW k \in 1..Len(tracks')
               PROVE  \E j \in 1..Len(events') :
                        /\ events'[j].cb = "stream"
                        /\ Media[file].frame[events'[j].at].body.track = tracks'[k]
    BY DEF TracksAnnounced, Frame, Bytes
  <2>1. CASE k \in 1..Len(tracks)
    <3>1. PICK j \in 1..n : events[j].cb = "stream" /\ Frame(events[j].at).body.track = tracks[k]
      BY <2>1 DEF TracksAnnounced, n
    <3>2. j \in 1..Len(events') /\ events'[j] = events[j] /\ tracks'[k] = tracks[k]
      BY <1>4, <1>7, <2>1
    <3> QED BY <3>1, <3>2, Zenon DEF Frame, Bytes
  <2>2. CASE k = Len(tracks) + 1
    <3>1. n + 2 \in 1..Len(events') /\ events'[n + 2] = Event("stream", Cursor)
      BY <1>4
    <3>2. Event("stream", Cursor).cb = "stream" /\ Event("stream", Cursor).at = Cursor
      BY DEF Event
    <3>3. Media[file].frame[Cursor].body.track = tracks'[k]
      BY <1>7, <2>2 DEF t, Frame, Bytes
    <3> QED BY <3>1, <3>2, <3>3
  <2>3. k \in 1..(Len(tracks) + 1)
    BY <1>7
  <2>4. k \in 1..Len(tracks) \/ k = Len(tracks) + 1
    BY <1>6, <2>3
  <2> QED BY <2>1, <2>2, <2>4
<1>9. PacketAfterStream'
  <2> SUFFICES ASSUME NEW i \in 1..Len(events'), events'[i].cb = "packet"
               PROVE  \E j \in 1..(i - 1) :
                        /\ events'[j].cb = "stream"
                        /\ Media[file].frame[events'[j].at].body.track
                             = Media[file].frame[events'[i].at].body.track
    BY Zenon DEF PacketAfterStream, Frame, Bytes
  <2>1. i \in 1..n
    BY <1>4 DEF Event
  <2>2. PICK j \in 1..(i - 1) : /\ events[j].cb = "stream"
                                /\ Frame(events[j].at).body.track = Frame(events[i].at).body.track
    BY <1>4, <2>1 DEF PacketAfterStream, n
  <2>3. events'[j] = events[j] /\ events'[i] = events[i]
    BY <1>4, <2>1
  <2> QED BY <2>2, <2>3, Zenon DEF Frame, Bytes
<1> QED BY <1>8, <1>9

\* A packet is emitted for a track that tide_find_track finds in the table.
LEMMA PacketFollows ==
  ASSUME IInv, TracksAnnounced, PacketAfterStream, PacketEmitted, file' = file
  PROVE  TracksAnnounced' /\ PacketAfterStream'
<1> DEFINE n == Len(events)
<1>1. MakesCallbacks /\ events' = Append(events, Event("record", Cursor)) \o <<Event("packet", Cursor)>>
  BY DEF PacketEmitted, MakesCallbacks, Callbacks
<1>2. pc = "parse" /\ Cursor \in Nat /\ events \in Seq(EventType)
  BY <1>1, RecordEvents DEF IInv, TypeOK, EventType
<1>3. Event("record", Cursor) \in EventType /\ Event("packet", Cursor) \in EventType
  BY <1>2 DEF Event, EventType
<1>4. /\ n \in Nat /\ Len(events') = n + 2
      /\ \A i \in 1..n : events'[i] = events[i]
      /\ events'[n + 1] = Event("record", Cursor) /\ events'[n + 2] = Event("packet", Cursor)
  BY <1>1, <1>2, <1>3, TwoMore
<1>5. tracks' = tracks /\ tide_find_track(tracks, Frame(Cursor).body.track)
  BY DEF PacketEmitted, PacketStatus
<1> HIDE DEF n
<1>6. TracksAnnounced'
  <2> SUFFICES ASSUME NEW k \in 1..Len(tracks)
               PROVE  \E j \in 1..Len(events') :
                        /\ events'[j].cb = "stream"
                        /\ Media[file].frame[events'[j].at].body.track = tracks[k]
    BY <1>5, Zenon DEF TracksAnnounced, Frame, Bytes
  <2>1. PICK j \in 1..n : events[j].cb = "stream" /\ Frame(events[j].at).body.track = tracks[k]
    BY DEF TracksAnnounced, n
  <2>2. j \in 1..Len(events') /\ events'[j] = events[j]
    BY <1>4
  <2> QED BY <2>1, <2>2, Zenon DEF Frame, Bytes
<1>7. PacketAfterStream'
  <2> SUFFICES ASSUME NEW i \in 1..Len(events'), events'[i].cb = "packet"
               PROVE  \E j \in 1..(i - 1) :
                        /\ events'[j].cb = "stream"
                        /\ Media[file].frame[events'[j].at].body.track
                             = Media[file].frame[events'[i].at].body.track
    BY Zenon DEF PacketAfterStream, Frame, Bytes
  <2>1. CASE i \in 1..n
    <3>1. PICK j \in 1..(i - 1) : /\ events[j].cb = "stream"
                                  /\ Frame(events[j].at).body.track = Frame(events[i].at).body.track
      BY <1>4, <2>1, Zenon DEF PacketAfterStream, n
    <3>2. events'[j] = events[j] /\ events'[i] = events[i]
      BY <1>4, <2>1
    <3> QED BY <3>1, <3>2, Zenon DEF Frame, Bytes
  <2>2. CASE i = n + 2
    <3>1. events'[i].at = Cursor
      BY <1>4, <2>2 DEF Event
    <3>2. PICK k \in 1..Len(tracks) : tracks[k] = Frame(Cursor).body.track
      BY <1>5 DEF tide_find_track
    <3>3. PICK j \in 1..n : events[j].cb = "stream" /\ Frame(events[j].at).body.track = tracks[k]
      BY DEF TracksAnnounced, n
    <3>4. j \in 1..(i - 1) /\ events'[j] = events[j]
      BY <1>4, <2>2
    <3> QED BY <3>1, <3>2, <3>3, <3>4, Zenon DEF Frame, Bytes
  <2>3. i # n + 1
    BY <1>4 DEF Event
  <2>4. i \in 1..n \/ i = n + 1 \/ i = n + 2
    BY <1>4
  <2> QED BY <2>1, <2>2, <2>3, <2>4, Zenon
<1> QED BY <1>6, <1>7

\* Neither a descriptor nor a packet: what was announced stays announced.
LEMMA OtherEventKeeps ==
  ASSUME IInv, TracksAnnounced, PacketAfterStream, file' = file, tracks' = tracks,
         NEW e \in EventType, e.cb \in {"record", "error"}, events' = Append(events, e)
  PROVE  TracksAnnounced' /\ PacketAfterStream'
<1> DEFINE n == Len(events)
<1>1. /\ n \in Nat /\ Len(events') = n + 1 /\ events'[n + 1] = e
      /\ \A i \in 1..n : events'[i] = events[i]
  BY OneMore DEF IInv, TypeOK, EventType
<1> HIDE DEF n
<1>2. TracksAnnounced'
  <2> SUFFICES ASSUME NEW k \in 1..Len(tracks)
               PROVE  \E j \in 1..Len(events') :
                        /\ events'[j].cb = "stream"
                        /\ Media[file].frame[events'[j].at].body.track = tracks[k]
    BY Zenon DEF TracksAnnounced, Frame, Bytes
  <2>1. PICK j \in 1..n : events[j].cb = "stream" /\ Frame(events[j].at).body.track = tracks[k]
    BY DEF TracksAnnounced, n
  <2>2. j \in 1..Len(events') /\ events'[j] = events[j]
    BY <1>1
  <2> QED BY <2>1, <2>2, Zenon DEF Frame, Bytes
<1>3. PacketAfterStream'
  <2> SUFFICES ASSUME NEW i \in 1..Len(events'), events'[i].cb = "packet"
               PROVE  \E j \in 1..(i - 1) :
                        /\ events'[j].cb = "stream"
                        /\ Media[file].frame[events'[j].at].body.track
                             = Media[file].frame[events'[i].at].body.track
    BY Zenon DEF PacketAfterStream, Frame, Bytes
  <2>1. i \in 1..n
    <3>1. i \in 1..n \/ i = n + 1
      BY <1>1
    <3> QED BY <1>1, <3>1
  <2>2. PICK j \in 1..(i - 1) : /\ events[j].cb = "stream"
                                /\ Frame(events[j].at).body.track = Frame(events[i].at).body.track
    BY <1>1, <2>1 DEF PacketAfterStream, n
  <2>3. events'[j] = events[j] /\ events'[i] = events[i]
    BY <1>1, <2>1
  <2> QED BY <2>2, <2>3, Zenon DEF Frame, Bytes
<1> QED BY <1>2, <1>3

\* on_packet is only called for tracks that on_stream has announced.
THEOREM PacketsFollowStreams == Spec => []PacketAfterStream
<1>1. Init => TracksAnnounced /\ PacketAfterStream
  BY EmptySeq DEF Init, TracksAnnounced, PacketAfterStream
<1>2. ASSUME IInv, TracksAnnounced /\ PacketAfterStream, [Next]_vars
      PROVE  (TracksAnnounced /\ PacketAfterStream)'
  <2>1. CASE StreamAdded
    BY <1>2, <2>1, TrackSteps, StreamAnnounces
  <2>2. CASE PacketEmitted
    BY <1>2, <2>2, TrackSteps, PacketFollows
  <2>3. CASE tracks' = tracks /\ events' = events /\ file' = file
    BY <1>2, <2>3, Zenon DEF TracksAnnounced, PacketAfterStream, Frame, Bytes
  <2>4. CASE /\ tracks' = tracks /\ file' = file
             /\ \E e \in EventType : e.cb \in {"record", "error"} /\ events' = Append(events, e)
    BY <1>2, <2>4, OtherEventKeeps
  <2> QED BY <1>2, <2>1, <2>2, <2>3, <2>4, TrackSteps
<1> QED BY <1>1, <1>2, Invariance, PTL DEF Spec

------------------------------------------------------------------------------
(* No record is reported twice *)

\* on_record was only called for records before offset o.
Behind(o) == \A i \in 1..Len(events) : events[i].cb = "record" => events[i].at < o

\* The decoder has not failed and may parse on in another feed.
Resumable ==
  \/ pc = "return" /\ status \in {"OK", "TRUNCATED"}
  \/ pc = "idle" /\ ~terminal

\* The records reported lie before the cursor, or before where parsing resumes;
\* no error is recorded while the decoder may go on.
RecordsBehind ==
  /\ pc = "parse" => Behind(Cursor)
  /\ Resumable => Behind(valid_prefix)
  /\ pc = "parse" \/ Resumable => error = "OK"

\* The two ways a step leaves the record at the cursor: the parser goes on after
\* it, or stops for good.
Passed == pc' = "parse" /\ error' = error /\ Cursor' \in Nat /\ Cursor < Cursor'
Stopped == pc' = "return" /\ status' \notin {"OK", "TRUNCATED"}

\* The activation at level goes on behind its record.
LEMMA AdvancePasses ==
  ASSUME IInv, pc = "parse", NEW level \in 1..Len(stack), Advance(level),
         CheckRecord(Frame(stack[level].cursor), stack[level].cursor, stack[level].end) = "OK"
  PROVE  /\ pc' = "parse" /\ error' = error
         /\ Cursor' = CrcEnd(Frame(stack[level].cursor), stack[level].cursor)
         /\ Cursor' \in Nat /\ stack[level].cursor < Cursor'
         /\ PayloadEnd(Frame(stack[level].cursor), stack[level].cursor) < Cursor'
<1> DEFINE o == stack[level].cursor
           next == CrcEnd(Frame(o), o)
<1>1. level \in Nat /\ level \in 1..level /\ stack[level] \in Activation
  BY StackNonempty DEF IInv
<1>2. next \in Nat /\ o < next /\ PayloadEnd(Frame(o), o) < next
  BY RecordAfterCursor, Zenon
<1>3. stack' = [i \in 1..level |-> IF i = level THEN [stack[i] EXCEPT !.cursor = next]
                                   ELSE stack[i]]
  BY DEF Advance
<1> HIDE DEF next, o
<1>4. Len(stack') = level
  BY <1>1, <1>3
<1>5. stack'[level].cursor = next
  BY <1>1, <1>3 DEF Activation
<1>6. Cursor' = next
  BY <1>4, <1>5 DEF Cursor, Top
<1> QED BY <1>2, <1>6 DEF Advance, next, o

\* The record at the cursor is passed, or its processing failed.
LEMMA SettleOutcome ==
  ASSUME IInv, NEW more, Callbacks(more), NEW s, s # "TRUNCATED", NEW err, Settle(s, err)
  PROVE  Passed \/ Stopped
<1>1. pc = "parse" /\ RecordCheck = "OK" /\ Len(stack) \in 1..Len(stack)
  BY StackNonempty DEF Callbacks, AtRecord, IInv
<1>2. CASE Advance(Len(stack))
  BY <1>1, <1>2, AdvancePasses, Zenon DEF RecordCheck, Cursor, Top, Passed
<1>3. CASE s # "OK" /\ ParserFails(s, err)
  BY <1>3 DEF ParserFails, Stopped
<1> QED BY <1>2, <1>3 DEF Settle

\* The children of a group start after the group's own offset.
LEMMA GroupPasses ==
  ASSUME IInv, EnterGroup
  PROVE  Passed
<1> DEFINE f == Frame(Cursor)
<1>1. <<>> \in Seq(EventType) /\ Callbacks(<<>>)
  BY EmptySeq DEF EnterGroup
<1>2. pc = "parse" /\ IsFrame(f) /\ CheckRecord(f, Cursor, Top.end) = "OK"
  BY <1>1, CallbacksStep, Zenon
<1>3. Cursor \in Nat /\ Top.end \in Nat /\ stack \in Seq(Activation) /\ Len(stack) \in Nat
  BY <1>2, StackNonempty DEF IInv, TypeOK
<1>4. /\ stack' = Append(stack, ChildWindow(f)) /\ pc' = "parse" /\ error' = error
  BY <1>2 DEF EnterGroup
<1>5. ChildWindow(f).cursor = PayloadOffset(f, Cursor) + TIDE_GROUP_META_SIZE
  BY DEF ChildWindow
<1> HIDE DEF f
<1>6. PayloadOffset(f, Cursor) \in Nat /\ Cursor <= PayloadOffset(f, Cursor)
  BY <1>2, <1>3, FrameBounds
<1>7. Len(stack') = Len(stack) + 1 /\ stack'[Len(stack) + 1] = ChildWindow(f)
  BY <1>3, <1>4
<1>8. Cursor' = PayloadOffset(f, Cursor) + TIDE_GROUP_META_SIZE
  BY <1>5, <1>7 DEF Cursor, Top
<1> QED BY <1>3, <1>4, <1>6, <1>8, SizesAssumption DEF Passed

\* The steps at a record that passed its checks.
RecordAction ==
  \/ OnRecordFails \/ SkipRecord \/ UnknownRecord \/ SimpleRecord \/ EnterGroup
  \/ BadGroup \/ StreamRejected \/ StreamNoMemory \/ StreamAdded
  \/ PacketRejected \/ PacketEmitted

\* When callbacks do not return TRUNCATED, no step at a record leaves the decoder
\* waiting for more bytes.
LEMMA RecordOutcome ==
  ASSUME IInv, RecordsBehind, "TRUNCATED" \notin CallbackStatus, RecordAction
  PROVE  MakesCallbacks /\ (Passed \/ Stopped)
<1>1. MakesCallbacks
  BY Zenon DEF RecordAction, MakesCallbacks, OnRecordFails, SkipRecord, UnknownRecord, SimpleRecord,
     EnterGroup, BadGroup, StreamRejected, StreamNoMemory, StreamAdded, PacketRejected,
     PacketEmitted
<1> SUFFICES Passed \/ Stopped
  BY <1>1
<1>2. pc = "parse" /\ error = "OK"
  BY <1>1, RecordEvents DEF RecordsBehind
<1>3. ASSUME NEW s, s \notin {"OK", "TRUNCATED"}, NEW err, ParserFails(s, err)
      PROVE  Stopped
  BY <1>3 DEF ParserFails, Stopped
<1>4. CASE OnRecordFails
  BY <1>3, <1>4 DEF OnRecordFails
<1>5. CASE SkipRecord
  <2>1. Callbacks(<<>>) /\ Settle("OK", "OK")
    BY <1>5 DEF SkipRecord, Settle
  <2> QED BY <2>1, SettleOutcome
<1>6. CASE UnknownRecord
  BY <1>3, <1>6 DEF UnknownRecord
<1>7. CASE SimpleRecord
  <2> DEFINE s == tide_emit_simple_record(Frame(Cursor), Cursor, tracks)
  <2>1. Callbacks(<<>>) /\ Settle(s, s) /\ Frame(Cursor).type \in SimpleType
    BY <1>7 DEF SimpleRecord, OnRecordOk
  <2>2. s # "TRUNCATED"
    BY <2>1, SimpleRecordStatus DEF BodyStatus
  <2> HIDE DEF s
  <2> QED BY <2>1, <2>2, SettleOutcome
<1>8. CASE EnterGroup
  BY <1>8, GroupPasses
<1>9. CASE BadGroup
  <2>1. GroupStatus(Frame(Cursor), Depth) # "TRUNCATED"
    BY DEF GroupStatus
  <2> QED BY <1>3, <1>9, <2>1 DEF BadGroup
<1>10. CASE StreamRejected
  <2>1. StreamStatus # "TRUNCATED"
    BY DEF StreamStatus, StreamDescStatus, AddTrackStatus
  <2> QED BY <1>3, <1>10, <2>1 DEF StreamRejected
<1>11. CASE StreamNoMemory
  <2>1. Callbacks(<<>>) /\ Settle(error, error)
    BY <1>11 DEF StreamNoMemory
  <2> QED BY <1>2, <2>1, SettleOutcome
<1>12. CASE StreamAdded
  <2>1. PICK c \in CallbackStatus : Settle(c, error)
    BY <1>12 DEF StreamAdded
  <2>2. Callbacks(<<Event("stream", Cursor)>>)
    BY <1>12 DEF StreamAdded
  <2> QED BY <2>1, <2>2, SettleOutcome
<1>13. CASE PacketRejected
  <2>1. PacketStatus(Frame(Cursor).body, tracks) # "TRUNCATED"
    BY DEF PacketStatus
  <2> QED BY <1>3, <1>13, <2>1 DEF PacketRejected
<1>14. CASE PacketEmitted
  <2>1. PICK c \in CallbackStatus : Settle(c, error)
    BY <1>14 DEF PacketEmitted
  <2>2. Callbacks(<<Event("packet", Cursor)>>)
    BY <1>14 DEF PacketEmitted
  <2> QED BY <2>1, <2>2, SettleOutcome
<1> QED
  BY <1>4, <1>5, <1>6, <1>7, <1>8, <1>9, <1>10, <1>11, <1>12, <1>13, <1>14
  DEF RecordAction

\* Callbacks are made at offsets.
LEMMA EventOffsets ==
  ASSUME IInv
  PROVE  \A i \in 1..Len(events) : events[i].at \in Nat
<1> TAKE i \in 1..Len(events)
<1>1. events \in Seq(EventType)
  BY DEF IInv, TypeOK, EventType
<1>2. events[i] \in EventType
  BY <1>1, ElementOfSeq
<1> QED BY <1>2 DEF EventType

\* The callbacks of a record are in order, and behind whatever comes next.
LEMMA RecordOrder ==
  ASSUME IInv, NoDuplicateCallback, RecordsBehind, MakesCallbacks, Passed \/ Stopped
  PROVE  NoDuplicateCallback' /\ RecordsBehind'
<1> DEFINE n == Len(events)
<1>1. /\ pc = "parse" /\ Cursor \in Nat /\ n \in Nat
      /\ Len(events') \in {n + 1, n + 2}
      /\ \A i \in 1..n : events'[i] = events[i]
      /\ events'[n + 1] = Event("record", Cursor)
      /\ Len(events') = n + 2 =>
           events'[n + 2] \in {Event("stream", Cursor), Event("packet", Cursor)}
  BY RecordEvents
<1>2. \A i \in 1..n : events[i].at \in Nat
  BY EventOffsets
<1>3. \A i \in 1..n : events[i].cb = "record" => events[i].at < Cursor
  BY <1>1 DEF RecordsBehind, Behind
<1> HIDE DEF n
<1>4. \A i \in 1..Len(events') : events'[i].cb = "record" =>
        \/ i \in 1..n /\ events'[i] = events[i]
        \/ i = n + 1 /\ events'[i].at = Cursor
  <2> TAKE i \in 1..Len(events')
  <2>1. i \in 1..n \/ i = n + 1 \/ (i = n + 2 /\ Len(events') = n + 2)
    BY <1>1
  <2>2. CASE i = n + 2 /\ Len(events') = n + 2
    BY <1>1, <2>2 DEF Event
  <2>3. CASE i = n + 1
    BY <1>1, <2>3 DEF Event
  <2> QED BY <1>1, <2>1, <2>2, <2>3
<1>5. NoDuplicateCallback'
  <2> SUFFICES ASSUME NEW i \in 1..Len(events'), NEW j \in 1..Len(events'), i < j,
                      events'[i].cb = "record", events'[j].cb = "record"
               PROVE  events'[i].at < events'[j].at
    BY DEF NoDuplicateCallback
  <2>1. CASE j \in 1..n /\ events'[j] = events[j]
    <3>1. i \in 1..n /\ events'[i] = events[i]
      BY <1>1, <2>1
    <3> QED BY <2>1, <3>1 DEF NoDuplicateCallback, n
  <2>2. CASE j = n + 1 /\ events'[j].at = Cursor
    <3>1. i \in 1..n /\ events'[i] = events[i]
      BY <1>1, <2>2
    <3> QED BY <1>3, <2>2, <3>1
  <2> QED BY <1>4, <2>1, <2>2
<1>6. CASE Passed
  <2>1. Cursor' \in Nat /\ Cursor < Cursor' /\ pc' = "parse" /\ error' = "OK"
    BY <1>1, <1>6 DEF Passed, RecordsBehind
  <2>2. \A i \in 1..n : events[i].cb = "record" => events[i].at < Cursor'
    BY <1>1, <1>2, <1>3, <2>1
  <2>3. Behind(Cursor)'
    <3> SUFFICES ASSUME NEW i \in 1..Len(events'), events'[i].cb = "record"
                 PROVE  events'[i].at < Cursor'
      BY DEF Behind
    <3> QED BY <1>4, <2>1, <2>2
  <2> QED BY <1>5, <2>1, <2>3 DEF RecordsBehind, Resumable
<1>7. CASE Stopped
  BY <1>5, <1>7 DEF Stopped, RecordsBehind, Resumable
<1> QED BY <1>6, <1>7

\* The end of a group's children: the activation around goes on behind them.
LEMMA LevelDoneOrder ==
  ASSUME IInv, NoDuplicateCallback, RecordsBehind, LevelDone
  PROVE  NoDuplicateCallback' /\ RecordsBehind'
<1>1. /\ pc = "parse" /\ Cursor \in Nat /\ Top.end \in Nat
      /\ Len(stack) \in Nat \ {0} /\ events' = events
  BY StackNonempty DEF LevelDone, IInv
<1>2. NoDuplicateCallback'
  BY <1>1 DEF NoDuplicateCallback
<1>3. Behind(Cursor) /\ error = "OK"
  BY <1>1 DEF RecordsBehind
<1>4. \A i \in 1..Len(events) : events[i].at \in Nat
  BY EventOffsets
<1>5. CASE Cursor # Top.end
  BY <1>2, <1>5 DEF LevelDone, ParserFails, RecordsBehind, Resumable
<1>6. CASE Cursor = Top.end /\ Len(stack) > 1
  <2> DEFINE k == Len(stack) - 1
             o == stack[k].cursor
  <2>1. k \in 1..Len(stack) /\ k \in 1..(Len(stack) - 1) /\ k + 1 = Len(stack)
    BY <1>1, <1>6
  <2>2. Advance(k)
    BY <1>6 DEF LevelDone
  <2>3. Encloses(file, stack[k], stack[k+1])
    BY <2>1 DEF IInv, CursorInParent
  <2>4. CheckRecord(Frame(o), o, stack[k].end) = "OK" /\ Top.end = PayloadEnd(Frame(o), o)
    BY <2>1, <2>3, Zenon DEF Encloses, Frame, Bytes, Top
  <2>5. pc' = "parse" /\ error' = error /\ Cursor' \in Nat /\ PayloadEnd(Frame(o), o) < Cursor'
    <3> HIDE DEF k
    <3> QED BY <1>1, <2>1, <2>2, <2>4, AdvancePasses, Zenon
  <2> HIDE DEF o, k
  <2>6. Cursor < Cursor'
    BY <1>6, <2>4, <2>5
  <2>7. \A i \in 1..Len(events) : events[i].cb = "record" => events[i].at < Cursor'
    BY <1>1, <1>3, <1>4, <2>5, <2>6 DEF Behind
  <2>8. Behind(Cursor)'
    BY <1>1, <2>7 DEF Behind
  <2> QED BY <1>2, <1>3, <2>5, <2>8 DEF RecordsBehind, Resumable
<1>7. CASE Cursor = Top.end /\ ~(Len(stack) > 1)
  <2>1. pc' = "return" /\ status' = "OK" /\ UNCHANGED <<valid_prefix, error>>
    BY <1>7 DEF LevelDone
  <2>2. Len(stack) = 1
    <3>1. \A m \in Nat \ {0} : ~(m > 1) => m = 1
      OBVIOUS
    <3> QED BY <1>1, <1>7, <3>1, Zenon
  <2>3. valid_prefix = Cursor
    BY <1>1, <2>2 DEF IInv, PrefixTracksCursor
  <2>4. Behind(valid_prefix)'
    BY <1>1, <1>3, <2>1, <2>3 DEF Behind
  <2> QED BY <1>2, <1>3, <2>1, <2>4 DEF RecordsBehind, Resumable
<1> QED BY <1>5, <1>6, <1>7

\* The calls and returns of a feed: on_record is not called, and parsing resumes
\* at the valid prefix.
LEMMA FeedOrder ==
  ASSUME IInv, NoDuplicateCallback, RecordsBehind,
         \/ FeedReturn
         \/ \E n \in 0..Bytes.size, end \in BOOLEAN : FeedBadHeader(n, end) \/ FeedParse(n, end)
  PROVE  NoDuplicateCallback' /\ RecordsBehind'
<1>0. /\ events \in Seq(EventType) /\ Event("error", 0) \in EventType
      /\ Event("error", 0).cb = "error" /\ valid_prefix \in Nat
  BY DEF IInv, TypeOK, EventType, Event
<1>1. ASSUME events' \in {events, Append(events, Event("error", 0))}
      PROVE  \A i \in 1..Len(events') : events'[i].cb = "record" =>
               i \in 1..Len(events) /\ events'[i] = events[i]
  <2>1. CASE events' = events
    BY <2>1
  <2>2. CASE events' = Append(events, Event("error", 0))
    <3>1. /\ Len(events) \in Nat /\ Len(events') = Len(events) + 1
          /\ \A i \in 1..Len(events) : events'[i] = events[i]
          /\ events'[Len(events) + 1] = Event("error", 0)
      BY <1>0, <2>2, OneMore
    <3> TAKE i \in 1..Len(events')
    <3>2. i \in 1..Len(events) \/ i = Len(events) + 1
      BY <3>1
    <3> QED BY <1>0, <3>1, <3>2
  <2> QED BY <1>1, <2>1, <2>2
<1>2. ASSUME events' \in {events, Append(events, Event("error", 0))}
      PROVE  NoDuplicateCallback'
  <2> SUFFICES ASSUME NEW i \in 1..Len(events'), NEW j \in 1..Len(events'), i < j,
                      events'[i].cb = "record", events'[j].cb = "record"
               PROVE  events'[i].at < events'[j].at
    BY DEF NoDuplicateCallback
  <2>1. /\ i \in 1..Len(events) /\ events'[i] = events[i]
        /\ j \in 1..Len(events) /\ events'[j] = events[j]
    BY <1>1, <1>2
  <2> QED BY <2>1 DEF NoDuplicateCallback
<1>3. CASE FeedReturn
  <2>1. /\ pc = "return" /\ pc' = "idle" /\ terminal' = Finished
        /\ UNCHANGED <<valid_prefix, error>>
        /\ events' = IF Failed THEN Append(events, Event("error", 0)) ELSE events
    BY <1>3 DEF FeedReturn
  <2>2. CASE Finished
    BY <1>2, <2>1, <2>2 DEF RecordsBehind, Resumable
  <2>3. CASE ~Finished
    <3>1. status \in {"OK", "TRUNCATED"} /\ events' = events
      BY <2>1, <2>3 DEF Finished, Failed, Returned
    <3>2. Behind(valid_prefix)' /\ error' = "OK"
      BY <2>1, <3>1 DEF RecordsBehind, Resumable, Behind
    <3> QED BY <1>2, <2>1, <3>1, <3>2 DEF RecordsBehind
  <2> QED BY <2>2, <2>3
<1>4. CASE \E n \in 0..Bytes.size, end \in BOOLEAN : FeedBadHeader(n, end)
  <2>1. pc' = "idle" /\ terminal' /\ events' \in {events, Append(events, Event("error", 0))}
    BY <1>4 DEF FeedBadHeader, Feeding
  <2> QED BY <1>2, <2>1 DEF RecordsBehind, Resumable
<1>5. CASE \E n \in 0..Bytes.size, end \in BOOLEAN : FeedParse(n, end)
  <2>1. /\ pc = "idle" /\ ~terminal /\ pc' = "parse" /\ UNCHANGED <<events, error>>
        /\ stack' = <<[cursor |-> AfterHeader(parse_offset), end |-> size']>>
    BY <1>5 DEF FeedParse, Feeding
  <2>2. Cursor' = AfterHeader(parse_offset)
    BY <2>1 DEF Cursor, Top
  <2>3. AfterHeader(parse_offset) \in Nat /\ valid_prefix <= AfterHeader(parse_offset)
    <3>1. CASE header_validated
      <4>1. AfterHeader(parse_offset) = parse_offset
        BY <3>1 DEF AfterHeader
      <4>2. parse_offset = valid_prefix
        BY <2>1, <3>1, Zenon DEF IInv, PrefixTracksCursor
      <4> QED BY <1>0, <4>1, <4>2
    <3>2. CASE ~header_validated
      <4>1. AfterHeader(parse_offset) = TIDE_HEADER_SIZE
        BY <3>2 DEF AfterHeader
      <4>2. valid_prefix = 0
        BY <3>2 DEF IInv, PrefixTracksCursor
      <4> QED BY <4>1, <4>2, SizesAssumption
    <3> QED BY <3>1, <3>2
  <2>4. Behind(valid_prefix) /\ error = "OK"
    BY <2>1 DEF RecordsBehind, Resumable
  <2>5. \A i \in 1..Len(events) : events[i].cb = "record" => events[i].at < Cursor'
    BY <1>0, <2>2, <2>3, <2>4, EventOffsets DEF Behind
  <2>6. Behind(Cursor)'
    BY <2>1, <2>5, Zenon DEF Behind
  <2> QED BY <1>2, <2>1, <2>4, <2>6 DEF RecordsBehind, Resumable
<1> QED BY <1>3, <1>4, <1>5

\* Steps that make no callback and leave the cursor where it is, or fail there.
LEMMA QuietOrder ==
  ASSUME IInv, NoDuplicateCallback, RecordsBehind,
         \/ FeedRejected \/ tide_decoder_cancel \/ tide_decoder_destroy \/ UNCHANGED vars
         \/ \E n \in 0..Bytes.size : FeedNoRoom(n) \/ FeedShortHeader(n)
         \/ RecordTruncated \/ RecordRejected
  PROVE  NoDuplicateCallback' /\ RecordsBehind'
<1>1. events' = events
  BY DEF FeedRejected, FeedNoRoom, FeedShortHeader, RecordTruncated, RecordRejected,
     tide_decoder_cancel, tide_decoder_destroy, vars
<1>2. NoDuplicateCallback'
  BY <1>1, Zenon DEF NoDuplicateCallback
<1>3. CASE \/ FeedRejected \/ tide_decoder_cancel \/ tide_decoder_destroy
           \/ \E n \in 0..Bytes.size : FeedNoRoom(n) \/ FeedShortHeader(n)
  <2>1. pc = "idle" /\ pc' = "idle" /\ UNCHANGED <<terminal, valid_prefix, error>>
    BY <1>3, Zenon DEF FeedRejected, FeedNoRoom, FeedShortHeader, Feeding, tide_decoder_cancel,
       tide_decoder_destroy, impl
  <2>2. Resumable' => Resumable
    BY <2>1 DEF Resumable
  <2>3. Behind(valid_prefix) => Behind(valid_prefix)'
    BY <1>1, <2>1, Zenon DEF Behind
  <2> QED BY <1>2, <2>1, <2>2, <2>3 DEF RecordsBehind
<1>4. CASE UNCHANGED vars
  <2>1. UNCHANGED <<pc, status, terminal, valid_prefix, error, stack>>
    BY <1>4 DEF vars, impl
  <2>2. Cursor' = Cursor /\ (Resumable' <=> Resumable)
    BY <2>1 DEF Cursor, Top, Resumable
  <2>3. (Behind(valid_prefix) => Behind(valid_prefix)') /\ (Behind(Cursor) => Behind(Cursor)')
    BY <1>1, <2>1, <2>2 DEF Behind
  <2> QED BY <1>2, <2>1, <2>2, <2>3 DEF RecordsBehind
<1>5. CASE RecordTruncated
  <2>1. pc = "parse" /\ pc' = "return" /\ valid_prefix' = Cursor
    BY <1>5 DEF RecordTruncated, AtRecord, ParserFails
  <2>2. Behind(valid_prefix)'
    BY <1>1, <2>1 DEF RecordsBehind, Behind
  <2>3. Resumable' => error' = "OK"
    BY <1>5, <2>1 DEF RecordTruncated, ParserFails, Resumable, RecordsBehind
  <2> QED BY <1>2, <2>1, <2>2, <2>3 DEF RecordsBehind
<1>6. CASE RecordRejected
  <2>1. pc' = "return" /\ status' \notin {"OK", "TRUNCATED"}
    BY <1>6 DEF RecordRejected, ParserFails
  <2> QED BY <1>2, <2>1 DEF RecordsBehind, Resumable
<1> QED BY <1>3, <1>4, <1>5, <1>6

\* Unless a callback returns TRUNCATED, no record is reported twice or out of
\* order, however the bytes are split into feeds.
THEOREM RecordsReportedOnce ==
  ASSUME "TRUNCATED" \notin CallbackStatus
  PROVE  Spec => []NoDuplicateCallback
<1>1. Init => NoDuplicateCallback /\ RecordsBehind
  BY EmptySeq DEF Init, NoDuplicateCallback, RecordsBehind, Resumable, Behind
<1>2. ASSUME IInv, NoDuplicateCallback /\ RecordsBehind, [Next]_vars
      PROVE  (NoDuplicateCallback /\ RecordsBehind)'
  <2>1. CASE RecordAction
    BY <1>2, <2>1, RecordOutcome, RecordOrder
  <2>2. CASE LevelDone
    BY <1>2, <2>2, LevelDoneOrder
  <2>3. CASE \/ FeedReturn
             \/ \E n \in 0..Bytes.size, end \in BOOLEAN : FeedBadHeader(n, end) \/ FeedParse(n, end)
    BY <1>2, <2>3, FeedOrder
  <2>4. CASE \/ FeedRejected \/ tide_decoder_cancel \/ tide_decoder_destroy \/ UNCHANGED vars
             \/ \E n \in 0..Bytes.size : FeedNoRoom(n) \/ FeedShortHeader(n)
             \/ RecordTruncated \/ RecordRejected
    BY <1>2, <2>4, QuietOrder
  <2> QED BY <1>2, <2>1, <2>2, <2>3, <2>4 DEF Next, Feed, Parse, RecordAction
<1> QED BY <1>1, <1>2, Invariance, PTL DEF Spec

=============================================================================
