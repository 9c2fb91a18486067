-------------------------- MODULE DecoderStepProofs --------------------------
(****************************************************************************)
(* A step of the parser as a step of the single parse: at every record the  *)
(* parser visits, what is left to do - in the activation at the top of the  *)
(* stack, then in the ones below it - leads to the result of the single     *)
(* parse, not only of the bytes given so far but of every longer part of    *)
(* the stream.                                                              *)
(****************************************************************************)
EXTENDS DecoderReference, DecoderProofs

------------------------------------------------------------------------------
(* The state of the decoder as a parse *)

\* The single parse of the first n bytes, and the parse the decoder has done so far.
Whole(n) == ParseRecords(Bytes, n, {})
Now(t) == [status |-> "OK", valid_prefix |-> valid_prefix, tracks |-> tracks,
           events |-> events, top |-> t]

\* While the parser runs, what is left to do leads to the single parse of every part
\* of the stream that has at least the bytes given so far.
Goes ==
  \A n \in size..Bytes.size : LeadsTo(Bytes, stack, n, Now(stack[1].cursor), Whole(n))

\* Between feeds, resuming at valid_prefix does.
ResumeCall(n) == [cursor |-> valid_prefix, end |-> n, depth |-> 0, seen |-> Now(valid_prefix)]
GoesOnLater ==
  \A n \in size..Bytes.size : Whole(n) = tide_parse_records(Bytes, {})[ResumeCall(n)]

\* A record that is complete stays complete when its window grows.
LEMMA CheckGrows ==
  ASSUME NEW f, IsFrame(f), NEW o \in Nat, NEW e \in Nat, NEW n \in Nat, e <= n,
         CheckRecord(f, o, e) = "OK"
  PROVE  CheckRecord(f, o, n) = "OK"
<1>1. CrcEnd(f, o) \in Nat /\ CrcEnd(f, o) <= e
  BY FrameBounds
<1>2. f.prefix_size \in Nat
  BY DEF IsFrame
<1>3. tide_decode_record_prefix(f, o, e) = "OK"
  BY DEF CheckRecord
<1>4. tide_decode_record_prefix(f, o, n) = "OK"
  BY <1>1, <1>2, <1>3, SizesAssumption DEF tide_decode_record_prefix
<1> QED BY <1>3, <1>4 DEF CheckRecord

\* The stream is one.
LEMMA BytesData ==
  ASSUME IInv
  PROVE  IsData(Bytes) /\ Bytes.size \in Nat /\ size \in Nat /\ size <= Bytes.size
BY MediaAssumption DEF IsData, IInv, TypeOK, Bytes

\* The parse the decoder has done so far is one.
LEMMA NowParsed ==
  ASSUME IInv, events \in Seq(EventsOf), NEW t \in Nat
  PROVE  /\ Now(t) \in Parsed /\ Now(t).status = "OK" /\ Now(t).top = t
         /\ Now(t).valid_prefix = valid_prefix /\ Now(t).tracks = tracks
         /\ Now(t).events = events
BY DEF IInv, TypeOK, Now, Parsed, Status, EventsOf

\* The call that goes on in the innermost activation.
Innermost(a, n, p) ==
  /\ a \in Calls(Bytes) /\ a.seen = p
  /\ a.cursor = Cursor /\ a.depth = Len(stack) - 1 /\ At(Bytes, a) = Frame(Cursor)
  /\ a.end \in Nat /\ Top.end <= a.end /\ (n = size => a.end = Top.end)
  /\ Len(stack) > 1 => a.end = Top.end

\* It is a call of the parser.
LEMMA InnermostCall ==
  ASSUME IInv, pc = "parse", NEW n \in size..Bytes.size, NEW p \in Parsed
  PROVE  Innermost(LevelCall(stack, Len(stack), n, p), n, p)
<1> DEFINE a == LevelCall(stack, Len(stack), n, p)
<1>1. /\ Len(stack) \in Nat \ {0} /\ Len(stack) \in 1..Len(stack)
      /\ Cursor \in Nat /\ Top.end \in Nat
      /\ Cursor = stack[Len(stack)].cursor /\ Top.end = stack[Len(stack)].end
  BY StackNonempty DEF IInv, Cursor, Top
<1>2. n \in Nat /\ size <= n /\ n <= Bytes.size /\ size \in Nat /\ Bytes.size \in Nat
  BY BytesData
<1>3. Cursor <= Top.end /\ Top.end <= size
  BY <1>1 DEF IInv, CursorInParent
<1>4. Len(stack) = 1 => Top.end = size
  BY <1>1 DEF IInv, PrefixTracksCursor
<1>5. /\ a.cursor = Cursor /\ a.end = IF Len(stack) = 1 THEN n ELSE Top.end
      /\ a.depth = Len(stack) - 1 /\ a.seen = p
  BY <1>1 DEF LevelCall, EndOf
<1>6. /\ a.end \in 0..Bytes.size /\ a.cursor \in 0..Bytes.size /\ a.depth \in Nat
      /\ Top.end <= a.end /\ (n = size => a.end = Top.end)
  BY <1>1, <1>2, <1>3, <1>4, <1>5
<1>7. a \in Calls(Bytes)
  BY <1>5, <1>6 DEF Calls, LevelCall
<1> HIDE DEF a
<1>8. Innermost(a, n, p)
  BY <1>1, <1>2, <1>5, <1>6, <1>7 DEF At, Frame, Innermost
<1> QED BY <1>8 DEF a

\* Its record passes the checks too.
LEMMA InnermostChecked ==
  ASSUME IInv, AtRecord, RecordCheck = "OK", NEW n \in size..Bytes.size, NEW p \in Parsed,
         NEW a, a = LevelCall(stack, Len(stack), n, p)
  PROVE  a.cursor < a.end /\ Check(Bytes, a) = "OK"
<1>1. /\ pc = "parse" /\ Cursor < Top.end /\ Cursor \in Nat /\ Top.end \in Nat
      /\ CheckRecord(Frame(Cursor), Cursor, Top.end) = "OK"
  BY StackNonempty DEF AtRecord, RecordCheck, IInv
<1>2. a.cursor = Cursor /\ At(Bytes, a) = Frame(Cursor) /\ a.end \in Nat /\ Top.end <= a.end
  <2>1. Innermost(a, n, p)
    BY <1>1, InnermostCall
  <2> QED BY <2>1 DEF Innermost
<1>3. IsFrame(Frame(Cursor))
  BY <1>1, FrameAtCursor, StackNonempty DEF IInv, Cursor, Top
<1>4. CheckRecord(Frame(Cursor), Cursor, a.end) = "OK"
  BY <1>1, <1>2, <1>3, CheckGrows
<1> QED BY <1>1, <1>2, <1>4 DEF Check, At

\* Processing a record that is no group leaves the prefix to the loop around it.
LEMMA LeafKeepsPrefix ==
  ASSUME NEW f, IsFrame(f), f.type # "GROUP", NEW o, NEW lost, NEW seen \in Parsed
  PROVE  /\ ProcessLeaf(f, o, lost, seen).valid_prefix = seen.valid_prefix
         /\ ProcessLeaf(f, o, lost, seen).top = seen.top
<1>1. f.type \in {"SKIPPABLE", "UNKNOWN", "STREAM_DESC", "PACKET"} \cup SimpleType
  BY DEF IsFrame, RecordType
<1> QED BY <1>1 DEF ProcessLeaf, Parsed, SimpleType

\* A parse is given by its fields.
LEMMA SameParse ==
  ASSUME NEW p \in Parsed, NEW q \in Parsed, p.status = q.status,
         p.valid_prefix = q.valid_prefix, p.tracks = q.tracks, p.events = q.events,
         p.top = q.top
  PROVE  p = q
<1>1. PICK S, V, T, E, N :
        /\ p \in [status: S, valid_prefix: V, tracks: T, events: E, top: N]
        /\ q \in [status: S, valid_prefix: V, tracks: T, events: E, top: N]
  BY ZenonT(60) DEF Parsed
<1> QED BY <1>1

\* The innermost activation, or the one around it, moves on to where the decoder is.
LEMMA AdvanceIsMove ==
  ASSUME IInv, IInv', pc = "parse", NEW level \in 1..Len(stack), Advance(level),
         events' \in Seq(EventsOf), NEW q \in Parsed, q.status = "OK",
         q.tracks = tracks', q.events = events', q.top = stack[1].cursor,
         NEW next, next = CrcEnd(Frame(stack[level].cursor), stack[level].cursor)
  PROVE  /\ IsMoved(stack, level, next, stack') /\ next \in Nat
         /\ MovedTo(q, next, level - 1) = Now(stack[1].cursor)'
<1>1. /\ valid_prefix' = next /\ pc' = "parse"
      /\ stack' = [i \in 1..level |-> IF i = level THEN [stack[i] EXCEPT !.cursor = next]
                                      ELSE stack[i]]
  BY DEF Advance
<1>2. next \in Nat /\ stack \in Seq(Activation) /\ level \in Nat \ {0}
  BY <1>1 DEF IInv, TypeOK
<1>3. IsMoved(stack, level, next, stack')
  BY <1>1, <1>2, MovedStack
<1>4. stack'[1].cursor = IF level = 1 THEN next ELSE stack[1].cursor
  BY <1>2, <1>3 DEF IsMoved
<1>5. stack'[1].cursor \in Nat
  <2>1. 1 \in 1..Len(stack) /\ stack[1].cursor \in Nat
    BY <1>2, StackNonempty DEF IInv
  <2> QED BY <1>2, <1>4, <2>1
<1>6. /\ Now(stack[1].cursor)' \in Parsed /\ Now(stack[1].cursor)'.status = "OK"
      /\ Now(stack[1].cursor)'.top = stack'[1].cursor
      /\ Now(stack[1].cursor)'.valid_prefix = valid_prefix'
      /\ Now(stack[1].cursor)'.tracks = tracks' /\ Now(stack[1].cursor)'.events = events'
  BY <1>5, <1>2 DEF IInv, TypeOK, Now, Parsed, Status, EventsOf
<1>7. level - 1 \in Nat /\ (level - 1 = 0 <=> level = 1)
  BY <1>2
<1>8. MovedTo(q, next, level - 1) = Now(stack[1].cursor)'
  <2> DEFINE m == MovedTo(q, next, level - 1)
             now == Now(stack[1].cursor)'
  <2>1. /\ m \in Parsed /\ m.status = q.status /\ m.valid_prefix = next /\ m.tracks = q.tracks
        /\ m.events = q.events /\ m.top = IF level - 1 = 0 THEN next ELSE q.top
    BY <1>2, <1>7, Zenon DEF Parsed, MovedTo
  <2>2. /\ now \in Parsed /\ now.status = "OK" /\ now.top = stack'[1].cursor
        /\ now.valid_prefix = valid_prefix' /\ now.tracks = tracks' /\ now.events = events'
    BY <1>6
  <2> HIDE DEF m, now
  <2>3. m.top = now.top
    BY <1>4, <1>7, <2>1, <2>2
  <2>4. m = now
    BY <1>1, <2>1, <2>2, <2>3, SameParse
  <2> QED BY <2>4 DEF m, now
<1> QED BY <1>2, <1>3, <1>8

\* A record that is no group was passed.
LEMMA LeafStep ==
  ASSUME IInv, IInv', Goes, AtRecord, RecordCheck = "OK", events \in Seq(EventsOf),
         UNCHANGED <<file, size>>, Frame(Cursor).type # "GROUP", Advance(Len(stack)),
         NEW r, r = ProcessLeaf(Frame(Cursor), Cursor, {}, Called(Now(stack[1].cursor), Cursor)),
         r.status = "OK", r.tracks = tracks', r.events = events'
  PROVE  Goes'
<1> DEFINE p == Now(stack[1].cursor)
           next == CrcEnd(Frame(Cursor), Cursor)
<1>1. /\ pc = "parse" /\ Len(stack) \in 1..Len(stack) /\ Cursor = stack[Len(stack)].cursor
      /\ Cursor \in Nat /\ stack[1].cursor \in Nat /\ stack \in Seq(Activation) /\ stack # <<>>
  <2>1. pc = "parse" /\ Cursor = stack[Len(stack)].cursor /\ stack \in Seq(Activation)
    BY Zenon DEF AtRecord, IInv, TypeOK, Cursor, Top
  <2> QED BY <2>1, StackNonempty DEF IInv
<1>2. p \in Parsed /\ p.top = stack[1].cursor
  BY <1>1, NowParsed, Zenon
<1>3. Called(p, Cursor) \in Parsed /\ Called(p, Cursor).top = p.top
  BY <1>1, <1>2, CalledParsed, Zenon DEF Called, Parsed
<1>4. IsFrame(Frame(Cursor))
  BY <1>1, FrameAtCursor
<1>5. r \in Parsed /\ r.top = stack[1].cursor
  BY <1>1, <1>2, <1>3, <1>4, ProcessLeafParsed, LeafKeepsPrefix
<1>6. events' \in Seq(EventsOf)
  BY <1>5, ParsedFields, Zenon
<1>7. /\ IsMoved(stack, Len(stack), next, stack')
      /\ MovedTo(r, next, Len(stack) - 1) = Now(stack[1].cursor)'
  BY <1>1, <1>5, <1>6, AdvanceIsMove, Zenon
<1> SUFFICES ASSUME NEW n \in size..Bytes.size
             PROVE  LeadsTo(Bytes, stack', n, Now(stack[1].cursor)', Whole(n))
  BY DEF Goes, Whole, Bytes
<1> DEFINE a == LevelCall(stack, Len(stack), n, p)
<1> HIDE DEF p
<1>8. a \in Calls(Bytes) /\ a.cursor = Cursor /\ At(Bytes, a) = Frame(Cursor)
  <2>1. Innermost(a, n, p)
    BY <1>1, <1>2, InnermostCall
  <2> HIDE DEF a
  <2> QED BY <2>1 DEF Innermost
<1>9. a.cursor < a.end /\ Check(Bytes, a) = "OK"
  BY <1>2, InnermostChecked
<1>10. LeadsTo(Bytes, stack, n, p, Whole(n))
  BY DEF Goes, p
<1>11. r = ProcessLeaf(At(Bytes, a), a.cursor, {}, Called(p, a.cursor))
  BY <1>8 DEF p
<1>12. next = CrcEnd(At(Bytes, a), a.cursor)
  BY <1>8
<1> HIDE DEF a, next
<1>13. IsData(Bytes)
  BY BytesData
<1>14. LeadsTo(Bytes, stack', n, MovedTo(r, next, Len(stack) - 1), Whole(n))
  <2>1. GoesTo(Bytes, stack, n, p, Whole(n), a)
    BY <1>1, <1>2, <1>8, <1>10, <1>13, Zenon DEF GoesTo, a
  <2>2. PassesLeaf(Bytes, stack, p, a, r, next, stack')
    BY <1>7, <1>8, <1>9, <1>11, <1>12, Zenon DEF PassesLeaf
  <2> QED BY <2>1, <2>2, LeafPassed, Zenon
<1> QED BY <1>7, <1>14

\* The depth that is compared is the number of activations, as no uint8_t wraps.
LEMMA DepthIsLevel ==
  ASSUME IInv, pc = "parse", DepthBounded, limits.max_depth < DEPTH_SPAN
  PROVE  Depth = Len(stack) - 1
<1>1. limits.max_depth \in Nat /\ DEPTH_SPAN \in Nat \ {0}
  BY LimitsAssumption, DecoderAssumption DEF Limits
<1>2. Len(stack) \in Nat \ {0} /\ Len(stack) <= limits.max_depth + 1
  BY StackNonempty DEF IInv, DepthBounded
<1>3. \A k \in Nat \ {0} : k <= limits.max_depth + 1 => (k - 1) % DEPTH_SPAN = k - 1
  BY <1>1
<1> QED BY <1>2, <1>3 DEF Depth

\* The parser enters a group.
LEMMA EnterStep ==
  ASSUME IInv, Goes, EnterGroup, events \in Seq(EventsOf), Depth = Len(stack) - 1
  PROVE  Goes'
<1> DEFINE p == Now(stack[1].cursor)
           f == Frame(Cursor)
           child == ChildWindow(f)
<1>1. /\ AtRecord /\ RecordCheck = "OK" /\ pc = "parse" /\ f.type = "GROUP"
      /\ GroupStatus(f, Depth) = "OK" /\ stack' = Append(stack, child)
      /\ UNCHANGED <<file, size, valid_prefix, tracks>>
      /\ events' = Append(events, Event("record", Cursor)) \o <<>>
  BY DEF EnterGroup, Callbacks, OnRecordOk, AtRecord
<1>2. /\ Len(stack) \in 1..Len(stack) /\ Cursor = stack[Len(stack)].cursor
      /\ Cursor \in Nat /\ stack[1].cursor \in Nat /\ stack \in Seq(Activation) /\ stack # <<>>
      /\ stack[1] \in Activation
  BY <1>1, StackNonempty DEF IInv, TypeOK, Cursor, Top
<1>3. p \in Parsed /\ p.top = stack[1].cursor
  BY <1>2, NowParsed
<1>4. child \in Activation
  <2>1. IsFrame(f) /\ CheckRecord(f, Cursor, Top.end) = "OK" /\ Top.end \in Nat
    BY <1>1, <1>2, FrameAtCursor, StackNonempty DEF RecordCheck, IInv
  <2>2. PayloadOffset(f, Cursor) \in Nat /\ PayloadEnd(f, Cursor) \in Nat
    <3> HIDE DEF f
    <3> QED BY <1>2, <2>1, FrameBounds
  <2> QED BY <2>2, SizesAssumption DEF ChildWindow, Activation
<1>5. /\ child.cursor = PayloadOffset(f, Cursor) + TIDE_GROUP_META_SIZE
      /\ child.end = PayloadEnd(f, Cursor)
  BY DEF ChildWindow
<1>6. Called(p, Cursor) = Now(stack[1].cursor)'
  <2>1. Event("record", Cursor) \in EventsOf
    BY <1>2 DEF Event, EventsOf
  <2>2. events' = Append(events, Event("record", Cursor))
    BY <1>1, <2>1, AppendProperties, ConcatEmptySeq
  <2>3. stack'[1] = stack[1]
    BY <1>1, <1>2, <1>4, AppendProperties
  <2> QED BY <1>1, <2>2, <2>3 DEF Called, Now, Event
<1> HIDE DEF p, f, child
<1> SUFFICES ASSUME NEW n \in size..Bytes.size
             PROVE  LeadsTo(Bytes, stack', n, Now(stack[1].cursor)', Whole(n))
  BY <1>1 DEF Goes, Whole, Bytes
<1> DEFINE a == LevelCall(stack, Len(stack), n, p)
<1>7. /\ a \in Calls(Bytes) /\ a.cursor = Cursor /\ At(Bytes, a) = f /\ a.depth = Depth
  <2>1. Innermost(a, n, p)
    BY <1>1, <1>3, InnermostCall
  <2> HIDE DEF a
  <2> QED BY <1>1, <2>1 DEF Innermost, f
<1>8. a.cursor < a.end /\ Check(Bytes, a) = "OK"
  BY <1>1, <1>3, InnermostChecked
<1>9. LeadsTo(Bytes, stack, n, p, Whole(n)) /\ IsData(Bytes)
  BY BytesData DEF Goes, p
<1> HIDE DEF a
<1>10. LeadsTo(Bytes, Append(stack, child), n, Called(p, a.cursor), Whole(n))
  <2>1. GoesTo(Bytes, stack, n, p, Whole(n), a)
    BY <1>2, <1>3, <1>7, <1>9, Zenon DEF GoesTo, a
  <2>2. EntersGroup(Bytes, a, f, child)
    BY <1>1, <1>4, <1>5, <1>7, <1>8, Zenon DEF EntersGroup
  <2> QED BY <2>1, <2>2, GroupEntered, Zenon
<1> QED BY <1>1, <1>6, <1>7, <1>10

\* The parser leaves a group.
LEMMA LeaveStep ==
  ASSUME IInv, IInv', Goes, pc = "parse", events \in Seq(EventsOf), Cursor = Top.end,
         Len(stack) > 1, Advance(Len(stack) - 1), UNCHANGED <<file, size, tracks, events>>
  PROVE  Goes'
<1> DEFINE p == Now(stack[1].cursor)
           k == Len(stack) - 1
           next == CrcEnd(Frame(stack[k].cursor), stack[k].cursor)
<1>1. /\ Len(stack) \in Nat /\ k \in 1..Len(stack) /\ stack \in Seq(Activation)
      /\ stack[1].cursor \in Nat
  BY StackNonempty DEF IInv, TypeOK
<1>2. /\ p \in Parsed /\ p.status = "OK" /\ p.top = stack[1].cursor
      /\ p.tracks = tracks' /\ p.events = events'
  BY <1>1, NowParsed
<1>3. /\ IsMoved(stack, k, next, stack') /\ MovedTo(p, next, k - 1) = Now(stack[1].cursor)'
  <2> HIDE DEF p
  <2> QED BY <1>1, <1>2, AdvanceIsMove
<1>4. k - 1 = Len(stack) - 2
  BY <1>1
<1> SUFFICES ASSUME NEW n \in size..Bytes.size
             PROVE  LeadsTo(Bytes, stack', n, Now(stack[1].cursor)', Whole(n))
  BY DEF Goes, Whole, Bytes
<1> DEFINE a == LevelCall(stack, Len(stack), n, p)
<1>5. LeadsTo(Bytes, stack, n, p, Whole(n)) /\ IsData(Bytes)
  BY BytesData DEF Goes
<1> HIDE DEF p
<1>6. a \in Calls(Bytes) /\ a.cursor = a.end
  <2>1. Innermost(a, n, p)
    BY <1>2, InnermostCall
  <2> HIDE DEF a
  <2> QED BY <2>1 DEF Innermost
<1>7. next = CrcEnd(Bytes.frame[stack[k].cursor], stack[k].cursor)
  BY DEF Frame
<1> HIDE DEF a, next
<1>8. LeadsTo(Bytes, stack', n, MovedTo(p, next, Len(stack) - 2), Whole(n))
  <2>1. GoesTo(Bytes, stack, n, p, Whole(n), a)
    BY <1>1, <1>2, <1>5, <1>6, Zenon DEF GoesTo, IInv, TypeOK, a
  <2>2. LeavesGroup(Bytes, stack, p, a, next, stack')
    BY <1>2, <1>3, <1>6, <1>7, Zenon DEF LeavesGroup
  <2> QED BY <2>1, <2>2, GroupLeft, Zenon
<1> QED BY <1>3, <1>4, <1>8

------------------------------------------------------------------------------
(* The parser returns *)

\* The statuses after which the decoder may go on.
GoesOn == {"OK", "TRUNCATED"}

\* The single parse ended with s and the callbacks e, as the decoder did.
Ended(s, e) ==
  /\ Whole(size).status = s /\ s # "PARTIAL"
  /\ Whole(size).valid_prefix = valid_prefix
  /\ Whole(size).tracks = tracks /\ Whole(size).events = e
  /\ s \in GoesOn => Whole(size).top = valid_prefix
  /\ s \notin GoesOn => error = s

\* A record was rejected with s.
LEMMA FailStep ==
  ASSUME IInv, Goes, pc = "parse", UNCHANGED <<file, size>>,
         NEW s \in Status \ {"OK", "PARTIAL", "TRUNCATED"}, ParserFails(s, s),
         NEW r \in Parsed, r.status = s, r.valid_prefix = valid_prefix', r.tracks = tracks',
         r.events = events',
         r = tide_parse_records(Bytes, {})[LevelCall(stack, Len(stack), size,
                                                     Now(stack[1].cursor))]
  PROVE  Ended(status, events)' /\ status' \notin GoesOn
<1>1. status' = s /\ error' = s
  BY DEF ParserFails
<1>2. stack \in Seq(Activation) /\ stack # <<>> /\ size \in size..Bytes.size
  BY BytesData DEF IInv, TypeOK
<1>3. LeadsTo(Bytes, stack, size, Now(stack[1].cursor), Whole(size))
  BY <1>2, Zenon DEF Goes
<1>4. Whole(size) = IF Len(stack) = 1 THEN r ELSE OutOfGroup(r)
  BY <1>2, <1>3, FailureUnwinds, Zenon
<1>5. Whole(size) = r
  BY <1>4 DEF OutOfGroup
<1>6. Whole(size)' = Whole(size)
  BY Zenon DEF Whole, Bytes
<1> QED BY <1>1, <1>5, <1>6, Zenon DEF Ended, GoesOn

\* A record that is no group was rejected.
LEMMA LeafFails ==
  ASSUME IInv, Goes, AtRecord, RecordCheck = "OK", events \in Seq(EventsOf),
         UNCHANGED <<file, size, valid_prefix>>, Frame(Cursor).type # "GROUP",
         NEW s \in Status \ {"OK", "PARTIAL", "TRUNCATED"}, ParserFails(s, s),
         NEW r, r = ProcessLeaf(Frame(Cursor), Cursor, {}, Called(Now(stack[1].cursor), Cursor)),
         r.status = s, r.tracks = tracks', r.events = events'
  PROVE  Ended(status, events)' /\ status' \notin GoesOn
<1> DEFINE p == Now(stack[1].cursor)
           parse == tide_parse_records(Bytes, {})
           a == LevelCall(stack, Len(stack), size, p)
<1>1. /\ pc = "parse" /\ Len(stack) \in 1..Len(stack) /\ Cursor = stack[Len(stack)].cursor
      /\ Cursor \in Nat /\ stack[1].cursor \in Nat /\ size \in size..Bytes.size
  BY StackNonempty, BytesData DEF AtRecord, IInv, TypeOK, Cursor, Top
<1>2. p \in Parsed /\ p.valid_prefix = valid_prefix
  BY <1>1, NowParsed
<1>3. Called(p, Cursor) \in Parsed /\ Called(p, Cursor).valid_prefix = valid_prefix
  BY <1>1, <1>2, CalledParsed, Zenon DEF Called, Parsed
<1>4. IsFrame(Frame(Cursor))
  BY <1>1, FrameAtCursor, Zenon
<1>5. r \in Parsed /\ r.valid_prefix = valid_prefix'
  BY <1>1, <1>2, <1>3, <1>4, ProcessLeafParsed, LeafKeepsPrefix
<1>6. r = ProcessLeaf(Frame(Cursor), Cursor, {}, Called(p, Cursor))
  OBVIOUS
<1> HIDE DEF p
<1>7. a \in Calls(Bytes) /\ a.cursor = Cursor /\ At(Bytes, a) = Frame(Cursor) /\ a.seen = p
  <2>1. Innermost(a, size, p)
    BY <1>1, <1>2, InnermostCall
  <2> HIDE DEF a
  <2> QED BY <2>1 DEF Innermost
<1>8. a.cursor < a.end /\ Check(Bytes, a) = "OK" /\ IsData(Bytes)
  BY <1>1, <1>2, InnermostChecked, BytesData, Zenon
<1> HIDE DEF a
<1>9. parse[a] = r
  <2>1. parse[a] = Onward(parse, a, CrcEnd(At(Bytes, a), a.cursor),
                          Process(parse, At(Bytes, a), a, {}, Called(a.seen, a.cursor)))
    BY <1>7, <1>8, CallGoesOn, Zenon
  <2> QED BY <1>6, <1>7, <2>1 DEF Onward, Process
<1> QED BY <1>1, <1>5, <1>9, FailStep, Zenon DEF a, p

\* The parser goes on to a group whose fields are rejected.
LEMMA GroupFails ==
  ASSUME IInv, Goes, BadGroup, events \in Seq(EventsOf), Depth = Len(stack) - 1
  PROVE  Ended(status, events)' /\ status' \notin GoesOn
<1> DEFINE p == Now(stack[1].cursor)
           f == Frame(Cursor)
           s == GroupStatus(f, Depth)
           parse == tide_parse_records(Bytes, {})
           a == LevelCall(stack, Len(stack), size, p)
           r == WithStatus(Called(p, Cursor), s)
<1>1. /\ AtRecord /\ RecordCheck = "OK" /\ pc = "parse" /\ f.type = "GROUP" /\ s # "OK"
      /\ ParserFails(s, s) /\ UNCHANGED <<file, size, valid_prefix, tracks>>
      /\ events' = Append(events, Event("record", Cursor)) \o <<>>
  BY DEF BadGroup, Callbacks, OnRecordOk, AtRecord
<1>2. Cursor \in Nat /\ stack[1].cursor \in Nat /\ size \in size..Bytes.size
  BY <1>1, StackNonempty, BytesData DEF IInv
<1>3. s \in Status \ {"OK", "PARTIAL", "TRUNCATED"}
  BY <1>1 DEF GroupStatus, Status
<1>4. events' = Append(events, Event("record", Cursor))
  <2>1. Event("record", Cursor) \in EventsOf
    BY <1>2 DEF Event, EventsOf
  <2> QED BY <1>1, <2>1, AppendProperties, ConcatEmptySeq
<1>5. p \in Parsed
  BY <1>2, NowParsed
<1>6. Called(p, Cursor) \in Parsed
  BY <1>2, <1>5, CalledParsed
<1>7. /\ Called(p, Cursor).valid_prefix = valid_prefix' /\ Called(p, Cursor).tracks = tracks'
      /\ Called(p, Cursor).events = events'
  BY <1>1, <1>4 DEF Called, Now, Event
<1> HIDE DEF p, f, s
<1>8. /\ r \in Parsed /\ r.status = s /\ r.valid_prefix = valid_prefix'
      /\ r.tracks = tracks' /\ r.events = events'
  BY <1>3, <1>6, <1>7, Zenon DEF WithStatus, Parsed
<1>9. /\ a \in Calls(Bytes) /\ a.cursor = Cursor /\ At(Bytes, a) = f /\ a.seen = p
      /\ a.depth = Depth
  <2>1. Innermost(a, size, p)
    BY <1>1, <1>2, <1>5, InnermostCall
  <2> HIDE DEF a
  <2> QED BY <1>1, <1>2, <2>1 DEF Innermost, f
<1>10. a.cursor < a.end /\ Check(Bytes, a) = "OK" /\ IsData(Bytes)
  BY <1>1, <1>2, <1>5, InnermostChecked, BytesData
<1> HIDE DEF a
<1>11. parse[a] = r
  <2>1. parse[a] = Onward(parse, a, CrcEnd(At(Bytes, a), a.cursor),
                          Process(parse, At(Bytes, a), a, {}, Called(a.seen, a.cursor)))
    BY <1>9, <1>10, CallGoesOn, Zenon
  <2>2. Process(parse, f, a, {}, Called(p, Cursor)) = r
    BY <1>1, <1>9 DEF Process, WithStatus, s
  <2>3. r.status # "OK"
    BY <1>1, <1>8
  <2> HIDE DEF r
  <2> QED BY <1>9, <2>1, <2>2, <2>3, Zenon DEF Onward
<1> HIDE DEF r
<1> QED BY <1>1, <1>3, <1>8, <1>11, FailStep, Zenon DEF a, p

\* The checks of a record reject it.
LEMMA RejectStep ==
  ASSUME IInv, Goes, RecordRejected, events \in Seq(EventsOf)
  PROVE  Ended(status, events)' /\ status' \notin GoesOn
<1> DEFINE p == Now(stack[1].cursor)
           s == RecordCheck
           a == LevelCall(stack, Len(stack), size, p)
           r == WithStatus(p, s)
<1>1. /\ AtRecord /\ pc = "parse" /\ Cursor < Top.end /\ s \notin {"OK", "TRUNCATED"}
      /\ ParserFails(s, s) /\ UNCHANGED <<file, size, valid_prefix, tracks, events>>
  BY DEF RecordRejected, AtRecord
<1>2. /\ Cursor \in Nat /\ stack[1].cursor \in Nat /\ size \in size..Bytes.size
      /\ Len(stack) \in 1..Len(stack) /\ Cursor = stack[Len(stack)].cursor
  BY <1>1, StackNonempty, BytesData DEF IInv, Cursor, Top
<1>3. s \in Status \ {"OK", "PARTIAL", "TRUNCATED"}
  <2>1. IsFrame(Frame(Cursor))
    BY <1>1, <1>2, FrameAtCursor
  <2> QED BY <1>1, <2>1, CheckRecordStatus DEF RecordCheck, Status
<1>4. /\ p \in Parsed /\ p.valid_prefix = valid_prefix /\ p.tracks = tracks /\ p.events = events
  BY <1>2, NowParsed
<1> HIDE DEF p, s
<1>5. /\ r \in Parsed /\ r.status = s /\ r.valid_prefix = valid_prefix'
      /\ r.tracks = tracks' /\ r.events = events'
  BY <1>1, <1>3, <1>4 DEF WithStatus, Parsed
<1>6. /\ a \in Calls(Bytes) /\ a.cursor = Cursor /\ a.seen = p /\ a.end = Top.end
      /\ At(Bytes, a) = Frame(Cursor) /\ IsData(Bytes)
  <2>1. Innermost(a, size, p)
    BY <1>1, <1>2, <1>4, InnermostCall
  <2> HIDE DEF a
  <2> QED BY <2>1, BytesData DEF Innermost
<1>7. Check(Bytes, a) = s
  BY <1>6, Zenon DEF Check, s, RecordCheck
<1> HIDE DEF a
<1>8. tide_parse_records(Bytes, {})[a] = r
  BY <1>1, <1>6, <1>7, CallStops, Zenon
<1> HIDE DEF r
<1> QED BY <1>1, <1>3, <1>5, <1>8, FailStep, Zenon DEF a, p

\* The outermost activation stopped at its cursor, where the next feed resumes.
LEMMA ResumeStep ==
  ASSUME IInv, Goes, pc = "parse", Len(stack) = 1, events \in Seq(EventsOf),
         UNCHANGED <<file, size, tracks, events>>, valid_prefix' = Cursor
  PROVE  GoesOnLater' /\ Now(stack[1].cursor) = Now(valid_prefix)' /\ stack[1].cursor = Cursor
<1>1. Cursor = stack[1].cursor /\ valid_prefix = Cursor /\ Cursor \in Nat
  BY StackNonempty DEF Cursor, Top, IInv, PrefixTracksCursor
<1>2. Now(stack[1].cursor) = Now(valid_prefix)'
  BY <1>1 DEF Now
<1> SUFFICES ASSUME NEW n \in size..Bytes.size
             PROVE  Whole(n) = tide_parse_records(Bytes, {})[ResumeCall(n)']
  BY <1>1, <1>2 DEF GoesOnLater, Whole, Bytes
<1> DEFINE p == Now(stack[1].cursor)
           a == LevelCall(stack, 1, n, p)
<1>3. LeadsTo(Bytes, stack, n, p, Whole(n)) /\ IsData(Bytes) /\ stack \in Seq(Activation)
  BY BytesData DEF Goes, IInv, TypeOK
<1>4. p \in Parsed
  BY <1>1, NowParsed
<1>5. a = ResumeCall(n)'
  BY <1>1, <1>2 DEF LevelCall, EndOf, ResumeCall
<1> HIDE DEF p
<1>6. a \in Calls(Bytes)
  <2>1. Innermost(a, n, p)
    BY <1>4, InnermostCall
  <2> HIDE DEF a
  <2> QED BY <2>1 DEF Innermost
<1>7. Whole(n) = tide_parse_records(Bytes, {})[a]
  BY <1>3, <1>4, <1>6, OneActivation
<1> QED BY <1>5, <1>7

\* The record at the cursor is incomplete.
LEMMA TruncatedStep ==
  ASSUME IInv, Goes, RecordTruncated, events \in Seq(EventsOf)
  PROVE  Ended(status, events)' /\ (status' \in GoesOn => GoesOnLater')
<1> DEFINE p == Now(stack[1].cursor)
           a == LevelCall(stack, Len(stack), size, p)
           r == TruncatedAt(p, Cursor)
<1>1. /\ AtRecord /\ pc = "parse" /\ Cursor < Top.end /\ RecordCheck = "TRUNCATED"
      /\ ParserFails("TRUNCATED", error) /\ UNCHANGED <<file, size, tracks, events>>
      /\ valid_prefix' = Cursor
  BY DEF RecordTruncated, AtRecord
<1>2. /\ Cursor \in Nat /\ stack[1].cursor \in Nat /\ size \in size..Bytes.size
      /\ Len(stack) \in Nat \ {0} /\ stack \in Seq(Activation) /\ stack # <<>>
  BY <1>1, StackNonempty, BytesData DEF IInv, TypeOK
<1>3. /\ p \in Parsed /\ p.tracks = tracks /\ p.events = events /\ p.top = stack[1].cursor
  BY <1>2, NowParsed
<1>4. LeadsTo(Bytes, stack, size, p, Whole(size))
  BY <1>2 DEF Goes
<1>5. Len(stack) = 1 => GoesOnLater' /\ stack[1].cursor = Cursor
  BY <1>1, ResumeStep
<1> HIDE DEF p
<1>6. /\ r \in Parsed /\ r.status = "TRUNCATED" /\ r.valid_prefix = Cursor
      /\ r.tracks = tracks /\ r.events = events /\ r.top = stack[1].cursor
  BY <1>2, <1>3, Zenon DEF TruncatedAt, Parsed, Status
<1>7. /\ a \in Calls(Bytes) /\ a.cursor = Cursor /\ a.seen = p /\ a.end = Top.end
      /\ At(Bytes, a) = Frame(Cursor) /\ IsData(Bytes)
  <2>1. Innermost(a, size, p)
    BY <1>1, <1>2, <1>3, InnermostCall
  <2> HIDE DEF a
  <2> QED BY <2>1, BytesData DEF Innermost
<1>8. Check(Bytes, a) = "TRUNCATED"
  BY <1>1, <1>7 DEF Check, RecordCheck
<1> HIDE DEF a
<1>9. tide_parse_records(Bytes, {})[a] = r
  BY <1>1, <1>7, <1>8, CallStops
<1> HIDE DEF r
<1>10. Whole(size) = IF Len(stack) = 1 THEN r ELSE OutOfGroup(r)
  BY <1>2, <1>4, <1>6, <1>9, FailureUnwinds DEF a
<1>11. Whole(size)' = Whole(size)
  BY <1>1 DEF Whole, Bytes
<1>12. CASE Len(stack) = 1
  <2>1. status' = "TRUNCATED"
    BY <1>1, <1>12 DEF ParserFails
  <2> QED BY <1>1, <1>5, <1>6, <1>10, <1>11, <1>12, <2>1 DEF Ended, GoesOn
<1>13. CASE Len(stack) # 1
  <2>1. status' = "FORMAT" /\ error' = "FORMAT"
    <3>1. \A k \in Nat \ {0} : k # 1 => k > 1
      OBVIOUS
    <3>2. Len(stack) > 1
      BY <1>2, <1>13, <3>1, Zenon
    <3> QED BY <1>1, <3>2 DEF ParserFails
  <2>2. /\ OutOfGroup(r).status = "FORMAT" /\ OutOfGroup(r).valid_prefix = Cursor
        /\ OutOfGroup(r).tracks = tracks /\ OutOfGroup(r).events = events
    BY <1>6 DEF OutOfGroup, Parsed
  <2> QED BY <1>1, <1>10, <1>11, <1>13, <2>1, <2>2 DEF Ended, GoesOn
<1> QED BY <1>12, <1>13

\* The outermost activation reached the end of the buffer.
LEMMA DoneStep ==
  ASSUME IInv, Goes, LevelDone, Len(stack) = 1, events \in Seq(EventsOf)
  PROVE  Ended(status, events)' /\ GoesOnLater' /\ pc' = "return" /\ status' = "OK"
<1> DEFINE p == Now(stack[1].cursor)
           a == LevelCall(stack, 1, size, p)
<1>1. pc = "parse" /\ Cursor >= Top.end /\ Len(stack) \in 1..Len(stack)
      /\ Cursor \in Nat /\ Top.end \in Nat /\ stack[1].cursor \in Nat
      /\ size \in size..Bytes.size /\ stack \in Seq(Activation)
  BY StackNonempty, BytesData DEF LevelDone, IInv, TypeOK
<1>2. Cursor = Top.end /\ Cursor = stack[1].cursor /\ valid_prefix = Cursor
  <2>1. stack[1].cursor <= stack[1].end
    BY <1>1 DEF IInv, CursorInParent
  <2> QED BY <1>1, <2>1 DEF Cursor, Top, IInv, PrefixTracksCursor
<1>3. /\ status' = "OK" /\ pc' = "return"
      /\ UNCHANGED <<file, size, valid_prefix, tracks, events>>
  BY <1>2 DEF LevelDone
<1>4. GoesOnLater'
  BY <1>1, <1>2, <1>3, ResumeStep
<1>5. /\ p \in Parsed /\ p.status = "OK" /\ p.valid_prefix = valid_prefix
      /\ p.tracks = tracks /\ p.events = events /\ p.top = stack[1].cursor
  BY <1>1, NowParsed
<1>6. LeadsTo(Bytes, stack, size, p, Whole(size)) /\ IsData(Bytes)
  BY <1>1, BytesData, Zenon DEF Goes
<1> HIDE DEF p
<1>7. a \in Calls(Bytes) /\ a.cursor = a.end /\ a.seen = p
  <2>1. Innermost(a, size, p)
    BY <1>1, <1>2, <1>5, InnermostCall, SMTT(30)
  <2> HIDE DEF a
  <2> QED BY <1>1, <1>2, <2>1 DEF Innermost
<1>8. Whole(size) = tide_parse_records(Bytes, {})[a]
  BY <1>1, <1>5, <1>6, <1>7, OneActivation
<1> HIDE DEF a
<1>9. tide_parse_records(Bytes, {})[a] = WithStatus(p, "OK")
  BY <1>6, <1>7, CallDone, Zenon
<1>10. WithStatus(p, "OK") = p
  BY <1>5 DEF WithStatus, Parsed
<1>11. Whole(size)' = Whole(size)
  BY <1>3 DEF Whole, Bytes
<1> QED BY <1>2, <1>3, <1>4, <1>5, <1>8, <1>9, <1>10, <1>11 DEF Ended, GoesOn

\* The callbacks of the record at the cursor.
LEMMA CalledFields ==
  ASSUME IInv, pc = "parse", events \in Seq(EventsOf), NEW c,
         c = Called(Now(stack[1].cursor), Cursor)
  PROVE  /\ c \in Parsed /\ c.status = "OK" /\ c.tracks = tracks
         /\ c.events = Append(events, Event("record", Cursor))
         /\ c.events = Append(events, Event("record", Cursor)) \o <<>>
         /\ \A cb : Append(c.events, [cb |-> cb, at |-> Cursor])
                    = Append(events, Event("record", Cursor)) \o <<Event(cb, Cursor)>>
<1>1. Cursor \in Nat /\ stack[1].cursor \in Nat
  BY StackNonempty DEF IInv
<1>2. Now(stack[1].cursor) \in Parsed
  BY <1>1, NowParsed
<1>3. c \in Parsed
  BY <1>1, <1>2, CalledParsed
<1>4. c.status = "OK" /\ c.tracks = tracks /\ c.events = Append(events, Event("record", Cursor))
  BY DEF Called, Now, Event
<1>5. Append(events, Event("record", Cursor)) \in Seq(EventsOf)
  BY <1>3, <1>4, ParsedFields, Zenon
<1>6. Append(events, Event("record", Cursor)) \o <<>> = Append(events, Event("record", Cursor))
  BY <1>5, ConcatEmptySeq
<1>7. ASSUME NEW cb
      PROVE  Append(c.events, [cb |-> cb, at |-> Cursor])
               = Append(events, Event("record", Cursor)) \o <<Event(cb, Cursor)>>
  BY <1>4, <1>5, AppendIsConcat DEF Event
<1> QED BY <1>3, <1>4, <1>6, <1>7, SMTT(30)

------------------------------------------------------------------------------
(* The records that are no groups *)

\* The parser is still at work, or it returned what the single parse did.
ParsedOn ==
  \/ pc' = "parse" /\ Goes' /\ events' \in Seq(EventsOf)
  \/ /\ pc' = "return" /\ Ended(status, events)' /\ events' \in Seq(EventsOf)
     /\ (status' \in GoesOn => GoesOnLater')

\* A record that is no group was processed as the single parse does it.
LEMMA LeafParsedOn ==
  ASSUME IInv, IInv', Goes, AtRecord, RecordCheck = "OK", events \in Seq(EventsOf),
         UNCHANGED <<file, size>>, Frame(Cursor).type # "GROUP",
         NEW r, r = ProcessLeaf(Frame(Cursor), Cursor, {}, Called(Now(stack[1].cursor), Cursor)),
         r.status \notin {"PARTIAL", "TRUNCATED"}, r.tracks = tracks', r.events = events',
         \/ r.status = "OK" /\ Advance(Len(stack))
         \/ r.status # "OK" /\ ParserFails(r.status, r.status) /\ UNCHANGED valid_prefix
  PROVE  ParsedOn
<1>1. /\ pc = "parse" /\ Len(stack) \in 1..Len(stack) /\ Cursor = stack[Len(stack)].cursor
      /\ Cursor \in Nat
  BY StackNonempty, Zenon DEF AtRecord, IInv, Cursor, Top
<1>2. Called(Now(stack[1].cursor), Cursor) \in Parsed
  BY <1>1, CalledFields, Zenon
<1>3. IsFrame(Frame(Cursor))
  BY <1>1, FrameAtCursor, Zenon
<1>4. r \in Parsed
  BY <1>1, <1>2, <1>3, ProcessLeafParsed, Zenon
<1>5. events' \in Seq(EventsOf) /\ r.status \in Status
  BY <1>4, ParsedFields, Zenon
<1>6. CASE r.status = "OK" /\ Advance(Len(stack))
  <2>1. Goes'
    BY <1>6, LeafStep
  <2>2. pc' = "parse"
    BY <1>1, <1>6 DEF Advance
  <2> QED BY <1>5, <2>1, <2>2 DEF ParsedOn
<1>7. CASE r.status # "OK" /\ ParserFails(r.status, r.status) /\ UNCHANGED valid_prefix
  <2>1. Ended(status, events)' /\ status' \notin GoesOn
    BY <1>5, <1>7, LeafFails
  <2>2. pc' = "return"
    BY <1>7 DEF ParserFails
  <2> QED BY <1>5, <2>1, <2>2 DEF ParsedOn
<1> QED BY <1>6, <1>7

\* A record whose type needs no processing, or is not known.
LEMMA OtherRecords ==
  ASSUME IInv, IInv', Goes, events \in Seq(EventsOf), SkipRecord \/ UnknownRecord
  PROVE  ParsedOn
<1> DEFINE c == Called(Now(stack[1].cursor), Cursor)
           r == ProcessLeaf(Frame(Cursor), Cursor, {}, c)
<1>1. /\ AtRecord /\ RecordCheck = "OK" /\ pc = "parse" /\ UNCHANGED <<file, size, tracks>>
      /\ events' = Append(events, Event("record", Cursor)) \o <<>>
  BY DEF SkipRecord, UnknownRecord, Callbacks, AtRecord
<1>2. /\ c \in Parsed /\ c.tracks = tracks' /\ c.events = events'
  BY <1>1, CalledFields, Zenon
<1> HIDE DEF c
<1>3. CASE SkipRecord
  <2>1. Frame(Cursor).type = "SKIPPABLE" /\ Advance(Len(stack))
    BY <1>3 DEF SkipRecord, OnRecordOk
  <2>2. r.status = "OK" /\ r.tracks = tracks' /\ r.events = events'
    BY <1>2, <2>1 DEF ProcessLeaf, Parsed, SimpleType
  <2> QED BY <1>1, <2>1, <2>2, LeafParsedOn DEF c
<1>4. CASE UnknownRecord
  <2>1. /\ Frame(Cursor).type = "UNKNOWN" /\ ParserFails("UNSUPPORTED", "UNSUPPORTED")
        /\ UNCHANGED valid_prefix
    BY <1>4 DEF UnknownRecord, OnRecordOk
  <2>2. r.status = "UNSUPPORTED" /\ r.tracks = tracks' /\ r.events = events'
    BY <1>2, <2>1 DEF ProcessLeaf, Parsed, SimpleType
  <2> QED BY <1>1, <2>1, <2>2, LeafParsedOn DEF c
<1> QED BY <1>3, <1>4

\* A record that tide_emit_simple_record checks.
LEMMA SimpleRecords ==
  ASSUME IInv, IInv', Goes, events \in Seq(EventsOf), SimpleRecord
  PROVE  ParsedOn
<1> DEFINE c == Called(Now(stack[1].cursor), Cursor)
           r == ProcessLeaf(Frame(Cursor), Cursor, {}, c)
           s == tide_emit_simple_record(Frame(Cursor), Cursor, tracks)
<1>1. /\ AtRecord /\ RecordCheck = "OK" /\ pc = "parse" /\ UNCHANGED <<file, size, tracks>>
      /\ events' = Append(events, Event("record", Cursor)) \o <<>>
      /\ Frame(Cursor).type \in SimpleType /\ Settle(s, s)
  BY DEF SimpleRecord, Callbacks, AtRecord, OnRecordOk
<1>2. /\ c \in Parsed /\ c.tracks = tracks /\ c.events = events'
  BY <1>1, CalledFields, Zenon
<1>3. s \in BodyStatus
  BY <1>1, SimpleRecordStatus
<1> HIDE DEF c
<1>4. r = WithStatus(c, s)
  BY <1>1, <1>2 DEF ProcessLeaf, SimpleType, WithStatus
<1> HIDE DEF s
<1>5. r.status = s /\ r.tracks = tracks' /\ r.events = events'
  BY <1>1, <1>2, <1>4, Zenon DEF WithStatus, Parsed
<1>6. r.status \notin {"PARTIAL", "TRUNCATED"} /\ Frame(Cursor).type # "GROUP"
  BY <1>1, <1>3, <1>5 DEF BodyStatus, SimpleType
<1>7. \/ r.status = "OK" /\ Advance(Len(stack))
      \/ r.status # "OK" /\ ParserFails(r.status, r.status) /\ UNCHANGED valid_prefix
  BY <1>1, <1>5 DEF Settle
<1> QED BY <1>1, <1>5, <1>6, <1>7, LeafParsedOn, Zenon DEF c

\* A stream descriptor.
LEMMA StreamRecords ==
  ASSUME IInv, IInv', Goes, events \in Seq(EventsOf), CallbackStatus = {"OK"},
         StreamRejected \/ StreamAdded
  PROVE  ParsedOn
<1> DEFINE c == Called(Now(stack[1].cursor), Cursor)
           r == ProcessLeaf(Frame(Cursor), Cursor, {}, c)
           body == Frame(Cursor).body
<1>1. /\ AtRecord /\ RecordCheck = "OK" /\ pc = "parse" /\ UNCHANGED <<file, size>>
      /\ Frame(Cursor).type = "STREAM_DESC"
  BY DEF StreamRejected, StreamAdded, Callbacks, AtRecord, OnRecordOk
<1>2. /\ c \in Parsed /\ c.status = "OK" /\ c.tracks = tracks
      /\ c.events = Append(events, Event("record", Cursor)) \o <<>>
      /\ Append(c.events, [cb |-> "stream", at |-> Cursor])
           = Append(events, Event("record", Cursor)) \o <<Event("stream", Cursor)>>
  BY <1>1, CalledFields, Zenon
<1> HIDE DEF c
<1>3. CASE StreamRejected
  <2>1. /\ StreamStatus # "OK" /\ ParserFails(StreamStatus, StreamStatus)
        /\ UNCHANGED <<tracks, valid_prefix>> /\ events' = c.events
    BY <1>2, <1>3 DEF StreamRejected, Callbacks
  <2>2. r = WithStatus(c, StreamStatus)
    BY <1>1, <1>2, <2>1 DEF ProcessLeaf, SimpleType, WithStatus, StreamStatus, AddTrackStatus
  <2>3. StreamStatus \notin {"PARTIAL", "TRUNCATED"}
    BY DEF StreamStatus, AddTrackStatus, StreamDescStatus
  <2> DEFINE s == StreamStatus
  <2> HIDE DEF s
  <2>4. r.status = StreamStatus /\ r.tracks = tracks' /\ r.events = events'
    BY <1>2, <2>1, <2>2, Zenon DEF WithStatus, Parsed
  <2> QED BY <1>1, <2>1, <2>3, <2>4, LeafParsedOn, Zenon DEF c
<1>4. CASE StreamAdded
  <2>1. /\ StreamStatus = "OK" /\ tracks' = Append(tracks, body.track)
        /\ events' = Append(events, Event("record", Cursor)) \o <<Event("stream", Cursor)>>
        /\ Advance(Len(stack))
    BY <1>4 DEF StreamAdded, Callbacks, Settle
  <2>2. /\ StreamDescStatus(body) = "OK" /\ ~tide_find_track(tracks, body.track)
        /\ ~(Len(tracks) >= limits.max_tracks)
    BY <2>1 DEF StreamStatus, AddTrackStatus
  <2>3. r = [c EXCEPT !.tracks = Append(@, body.track),
                      !.events = Append(c.events, [cb |-> "stream", at |-> Cursor])]
    BY <1>1, <1>2, <2>2 DEF ProcessLeaf, SimpleType
  <2>4. r.status = "OK" /\ r.tracks = tracks' /\ r.events = events'
    BY <1>2, <2>1, <2>3, Zenon DEF Parsed
  <2> QED BY <1>1, <2>1, <2>4, LeafParsedOn DEF c
<1> QED BY <1>3, <1>4

\* A packet.
LEMMA PacketRecords ==
  ASSUME IInv, IInv', Goes, events \in Seq(EventsOf), CallbackStatus = {"OK"},
         PacketRejected \/ PacketEmitted
  PROVE  ParsedOn
<1> DEFINE c == Called(Now(stack[1].cursor), Cursor)
           r == ProcessLeaf(Frame(Cursor), Cursor, {}, c)
           s == PacketStatus(Frame(Cursor).body, tracks)
<1>1. /\ AtRecord /\ RecordCheck = "OK" /\ pc = "parse" /\ UNCHANGED <<file, size, tracks>>
      /\ Frame(Cursor).type = "PACKET"
  BY DEF PacketRejected, PacketEmitted, Callbacks, AtRecord, OnRecordOk
<1>2. /\ c \in Parsed /\ c.status = "OK" /\ c.tracks = tracks
      /\ c.events = Append(events, Event("record", Cursor)) \o <<>>
      /\ Append(c.events, [cb |-> "packet", at |-> Cursor])
           = Append(events, Event("record", Cursor)) \o <<Event("packet", Cursor)>>
  BY <1>1, CalledFields, Zenon
<1> HIDE DEF c
<1>3. CASE PacketRejected
  <2>1. /\ s # "OK" /\ ParserFails(s, s) /\ UNCHANGED valid_prefix /\ events' = c.events
    BY <1>2, <1>3, Zenon DEF PacketRejected, Callbacks
  <2>2. r = WithStatus(c, s)
    BY <1>1, <1>2, <2>1 DEF ProcessLeaf, SimpleType, WithStatus
  <2>3. s \notin {"PARTIAL", "TRUNCATED"}
    BY DEF PacketStatus
  <2> HIDE DEF s
  <2>4. r.status = s /\ r.tracks = tracks' /\ r.events = events'
    BY <1>1, <1>2, <2>1, <2>2, SMTT(30) DEF WithStatus, Parsed
  <2> QED BY <1>1, <2>1, <2>3, <2>4, LeafParsedOn, Zenon DEF c
<1>4. CASE PacketEmitted
  <2>1. /\ s = "OK" /\ Advance(Len(stack))
        /\ events' = Append(events, Event("record", Cursor)) \o <<Event("packet", Cursor)>>
    BY <1>4 DEF PacketEmitted, Callbacks, Settle
  <2>2. r = [c EXCEPT !.events = Append(c.events, [cb |-> "packet", at |-> Cursor])]
    BY <1>1, <1>2, <2>1 DEF ProcessLeaf, SimpleType
  <2>3. r.status = "OK" /\ r.tracks = tracks' /\ r.events = events'
    BY <1>1, <1>2, <2>1, <2>2, Zenon DEF Parsed
  <2> QED BY <1>1, <2>1, <2>3, LeafParsedOn DEF c
<1> QED BY <1>3, <1>4

=============================================================================
