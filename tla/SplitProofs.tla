----------------------------- MODULE SplitProofs -----------------------------
(****************************************************************************)
(* The incremental decoder does what a single parse does, for every byte    *)
(* stream and every way of splitting it into feeds, when callbacks return   *)
(* OK and allocations succeed.                                              *)
(****************************************************************************)
EXTENDS DecoderStepProofs

------------------------------------------------------------------------------
(* The inductive invariant *)

Header == tide_validate_header(Bytes.header, size)

\* What a call that ended the decode returns, and what a call after it may return.
Final(s) == IF s = "TRUNCATED" THEN "PARTIAL" ELSE s
Afterwards(s) == {Final(s), "CANCELLED", "INVALID_ARGUMENT"}

\* Before the header is accepted nothing is called back but on_error.
AwaitsHeader ==
  ~header_validated =>
    /\ pc = "idle" /\ tracks = <<>> /\ DataEvents = <<>>
    /\ ~terminal => Header = "TRUNCATED"
    /\ terminal => error = Header /\ Header # "OK" /\ status \in Afterwards(Header)

\* Between feeds the decoder agrees with the single parse, and can go on unless it
\* is finished.
Rests ==
  pc = "idle" /\ header_validated =>
    /\ Ended(Whole(size).status, DataEvents)
    /\ ~terminal => Whole(size).status \in GoesOn /\ GoesOnLater
    /\ terminal => status \in Afterwards(Whole(size).status)

SplitInv ==
  /\ ~terminal => events \in Seq(EventsOf)
  /\ AwaitsHeader
  /\ header_validated => Header = "OK"
  /\ pc = "parse" => Goes
  /\ pc = "return" => Ended(status, events) /\ (status \in GoesOn => GoesOnLater)
  /\ Rests

\* Without an on_error the callbacks compared are all of them.
LEMMA NoError ==
  ASSUME events \in Seq(EventsOf)
  PROVE  DataEvents = events
<1>1. ~Reported
  <2> SUFFICES ASSUME events # <<>> PROVE events[Len(events)].cb # "error"
    BY DEF Reported
  <2>1. Len(events) \in 1..Len(events)
    BY LenProperties, EmptySeq
  <2>2. events[Len(events)] \in EventsOf
    BY <2>1, ElementOfSeq
  <2> QED BY <2>2 DEF EventsOf
<1> QED BY <1>1 DEF DataEvents

\* After an on_error they are the ones before it.
LEMMA ErrorAppended ==
  ASSUME events \in Seq(EventsOf), events' = Append(events, Event("error", 0))
  PROVE  DataEvents' = events
<1> DEFINE T == EventsOf \cup {Event("error", 0)}
<1>1. events \in Seq(T)
  <2>1. Len(events) \in Nat /\ events \in [1..Len(events) -> T]
    BY LenProperties, ElementOfSeq
  <2> QED BY <2>1, SeqDef
<1>2. Event("error", 0) \in T
  OBVIOUS
<1> HIDE DEF T
<1>3. /\ events' \in Seq(T) /\ Len(events') = Len(events) + 1
      /\ \A i \in 1..Len(events) : events'[i] = events[i]
      /\ events'[Len(events) + 1] = Event("error", 0) /\ Len(events) \in Nat
  BY <1>1, <1>2, AppendProperties, LenProperties
<1>4. Reported'
  BY <1>3 DEF Reported, Event
<1>5. SubSeq(events', 1, Len(events)) = SubSeq(events, 1, Len(events))
  BY <1>3
<1>6. SubSeq(events, 1, Len(events)) = events
  BY SubSeqFull
<1> QED BY <1>3, <1>4, <1>5, <1>6 DEF DataEvents

\* A header that was accepted stays accepted, and none is before it is complete.
LEMMA HeaderGrows ==
  ASSUME NEW header, NEW n \in Nat, NEW m \in Nat, n <= m,
         tide_validate_header(header, n) = "OK"
  PROVE  tide_validate_header(header, m) = "OK"
<1>1. TIDE_HEADER_SIZE <= n
  BY HeaderStatuses
<1>2. ~(n < TIDE_HEADER_SIZE) /\ ~(m < TIDE_HEADER_SIZE)
  BY <1>1, SizesAssumption
<1> QED BY <1>2 DEF tide_validate_header

\* A decoder as tide_decoder_init leaves it.
LEMMA InitSplit == Init => SplitInv
<1> SUFFICES ASSUME Init PROVE SplitInv
  OBVIOUS
<1>1. events \in Seq(EventsOf) /\ events = <<>>
  BY EmptySeq DEF Init
<1>2. DataEvents = <<>>
  BY <1>1, NoError
<1>3. Header = "TRUNCATED"
  BY SizesAssumption DEF Init, Header, tide_validate_header
<1> QED BY <1>1, <1>2, <1>3 DEF Init, SplitInv, AwaitsHeader, Rests

\* The parser goes on, or returns.
LEMMA ParseStep ==
  ASSUME IInv, SplitInv, pc = "parse", ParsedOn,
         UNCHANGED <<file, size, terminal, header_validated>>
  PROVE  SplitInv'
<1>1. header_validated /\ ~terminal
  BY DEF IInv, PrefixTracksCursor
<1>2. Header' = "OK"
  BY <1>1 DEF SplitInv, Header, Bytes
<1>3. pc' # "idle" /\ events' \in Seq(EventsOf)
  BY DEF ParsedOn
<1>4. AwaitsHeader' /\ Rests'
  BY <1>1, <1>3 DEF AwaitsHeader, Rests
<1>5. /\ pc' = "parse" => Goes'
      /\ pc' = "return" => Ended(status, events)' /\ (status' \in GoesOn => GoesOnLater')
  BY DEF ParsedOn
<1> QED BY <1>1, <1>2, <1>3, <1>4, <1>5 DEF SplitInv

\* The feed returns.
LEMMA ReturnStep ==
  ASSUME IInv, SplitInv, FeedReturn
  PROVE  SplitInv'
<1>1. /\ pc = "return" /\ pc' = "idle" /\ status' = Returned /\ terminal' = Finished
      /\ UNCHANGED <<file, size, valid_prefix, header_validated, error, tracks>>
      /\ events' = IF Failed THEN Append(events, Event("error", 0)) ELSE events
  BY DEF FeedReturn
<1>2. header_validated /\ events \in Seq(EventsOf)
  BY <1>1 DEF IInv, PrefixTracksCursor, SplitInv
<1>3. Ended(status, events) /\ (status \in GoesOn => GoesOnLater)
  BY <1>1 DEF SplitInv
<1>4. DataEvents' = events
  <2>1. CASE Failed
    BY <1>1, <1>2, <2>1, ErrorAppended
  <2>2. CASE ~Failed
    <3>1. events' = events /\ events' \in Seq(EventsOf)
      BY <1>1, <1>2, <2>2
    <3>2. DataEvents' = DataEvents
      BY <3>1 DEF DataEvents, Reported
    <3> QED BY <1>2, <3>2, NoError
  <2> QED BY <2>1, <2>2
<1>5. Whole(size)' = Whole(size) /\ Whole(size).status = status
  BY <1>1, <1>3 DEF Whole, Bytes, Ended
<1>6. Ended(Whole(size).status, DataEvents)'
  BY <1>1, <1>3, <1>4, <1>5 DEF Ended
<1>7. ASSUME ~terminal'
      PROVE  Whole(size)'.status \in GoesOn /\ GoesOnLater' /\ events' \in Seq(EventsOf)
  <2>1. ~final /\ Returned = "OK" /\ ~Failed
    BY <1>1, <1>7, Zenon DEF Finished, Failed
  <2>2. status \in GoesOn /\ events' = events
    BY <1>1, <2>1 DEF Returned, GoesOn
  <2>3. GoesOnLater'
    <3>1. \A n : ResumeCall(n)' = ResumeCall(n) /\ Whole(n)' = Whole(n)
      BY <1>1, <2>2 DEF ResumeCall, Now, Whole, Bytes
    <3>2. Bytes' = Bytes /\ size' = size
      BY <1>1 DEF Bytes
    <3> QED BY <1>3, <2>2, <3>1, <3>2 DEF GoesOnLater
  <2> QED BY <1>2, <1>5, <2>2, <2>3
<1>8. ASSUME terminal' PROVE status' \in Afterwards(Whole(size).status)'
  BY <1>1, <1>5, <1>8, Zenon DEF Afterwards, Final, Returned, Finished, Failed
<1>9. Header' = "OK"
  BY <1>1, <1>2 DEF SplitInv, Header, Bytes
<1>10. Rests'
  BY <1>6, <1>7, <1>8 DEF Rests
<1>11. AwaitsHeader'
  BY <1>1, <1>2 DEF AwaitsHeader
<1> QED BY <1>1, <1>7, <1>9, <1>10, <1>11 DEF SplitInv

\* A call that only returns a status, and the calls that return none.
LEMMA RestStep ==
  ASSUME IInv, SplitInv, pc = "idle",
         UNCHANGED <<file, size, valid_prefix, terminal, header_validated, error, tracks, pc,
                     stack, events>>,
         terminal => status' \in {status, "CANCELLED", "INVALID_ARGUMENT"}
  PROVE  SplitInv'
<1>1. Bytes' = Bytes /\ Header' = Header /\ Whole(size)' = Whole(size)
  BY DEF Bytes, Header, Whole
<1>2. DataEvents' = DataEvents
  BY DEF DataEvents, Reported
<1>3. Ended(Whole(size).status, DataEvents)' <=> Ended(Whole(size).status, DataEvents)
  BY <1>1, <1>2 DEF Ended
<1>4. GoesOnLater' <=> GoesOnLater
  <2>1. \A n : ResumeCall(n)' = ResumeCall(n) /\ Whole(n)' = Whole(n)
    BY DEF ResumeCall, Now, Whole, Bytes
  <2> QED BY <1>1, <2>1 DEF GoesOnLater
<1>5. AwaitsHeader'
  BY <1>1, <1>2 DEF SplitInv, AwaitsHeader, Afterwards
<1>6. Rests'
  BY <1>1, <1>3, <1>4 DEF SplitInv, Rests, Afterwards
<1> QED BY <1>1, <1>5, <1>6 DEF SplitInv

\* A feed returns before the parser: the header is short or bad.
LEMMA HeaderStep ==
  ASSUME IInv, SplitInv, NEW n \in 0..Bytes.size,
         FeedShortHeader(n) \/ \E end \in BOOLEAN : FeedBadHeader(n, end)
  PROVE  SplitInv'
<1>1. /\ pc = "idle" /\ ~terminal /\ ~header_validated /\ HeaderStatus(n) # "OK"
      /\ size' = size + n /\ UNCHANGED <<file, tracks, header_validated, pc>>
  BY DEF FeedShortHeader, FeedBadHeader, Feeding, HeaderStatus
<1>2. Header' = HeaderStatus(n)
  BY <1>1 DEF Header, HeaderStatus, Bytes
<1>3. events \in Seq(EventsOf) /\ events = <<>> /\ tracks = <<>>
  BY <1>1, NoError DEF SplitInv, AwaitsHeader
<1>4. CASE FeedShortHeader(n)
  <2>1. HeaderStatus(n) = "TRUNCATED" /\ UNCHANGED <<terminal, events>>
    BY <1>4 DEF FeedShortHeader
  <2>2. DataEvents' = <<>>
    <3>1. DataEvents' = DataEvents
      BY <2>1 DEF DataEvents, Reported
    <3> QED BY <1>3, <3>1, NoError
  <2>3. AwaitsHeader'
    BY <1>1, <1>2, <1>3, <2>1, <2>2 DEF AwaitsHeader
  <2> QED BY <1>1, <1>3, <2>1, <2>3, Zenon DEF SplitInv, Rests
<1>5. CASE \E end \in BOOLEAN : FeedBadHeader(n, end)
  <2>1. PICK end \in BOOLEAN : FeedBadHeader(n, end)
    BY <1>5
  <2>2. /\ terminal' = TRUE /\ error' = HeaderStatus(n)
        /\ status' = Final(HeaderStatus(n))
        /\ events' = IF end THEN events ELSE Append(events, Event("error", 0))
    BY <2>1 DEF FeedBadHeader, Final
  <2>3. DataEvents' = <<>>
    <3>1. CASE end
      <4>1. DataEvents' = DataEvents
        BY <2>2, <3>1 DEF DataEvents, Reported
      <4> QED BY <1>3, <4>1, NoError
    <3>2. CASE ~end
      BY <1>3, <2>2, <3>2, ErrorAppended
    <3> QED BY <3>1, <3>2
  <2>4. AwaitsHeader'
    BY <1>1, <1>2, <1>3, <2>2, <2>3 DEF AwaitsHeader, Afterwards
  <2> QED BY <1>1, <2>2, <2>4, Zenon DEF SplitInv, Rests
<1> QED BY <1>4, <1>5

\* The parser is entered, at the header's end or where the last feed stopped.
LEMMA EnterParser ==
  ASSUME IInv, IInv', SplitInv, NEW n \in 0..Bytes.size, NEW end \in BOOLEAN,
         FeedParse(n, end)
  PROVE  SplitInv'
<1>1. /\ pc = "idle" /\ ~terminal /\ HeaderStatus(n) = "OK" /\ size' = size + n
      /\ header_validated' = TRUE /\ pc' = "parse" /\ UNCHANGED <<file, terminal, tracks, events>>
      /\ stack' = <<[cursor |-> parse_offset', end |-> size']>>
      /\ parse_offset' = IF header_validated THEN parse_offset ELSE TIDE_HEADER_SIZE
      /\ valid_prefix' = IF header_validated THEN valid_prefix ELSE TIDE_HEADER_SIZE
  BY DEF FeedParse, Feeding, AfterHeader
<1>2. events \in Seq(EventsOf)
  BY <1>1 DEF SplitInv
<1>3. /\ IsData(Bytes) /\ Bytes' = Bytes /\ size \in Nat /\ size' \in Nat /\ size <= size'
      /\ Bytes.size \in Nat /\ n \in Nat
  BY <1>1, BytesData DEF Bytes
<1>4. Header' = "OK"
  <2>1. CASE header_validated
    <3>1. tide_validate_header(Bytes.header, size) = "OK"
      BY <2>1 DEF SplitInv, Header
    <3> QED BY <1>3, <3>1, HeaderGrows DEF Header
  <2>2. CASE ~header_validated
    BY <1>1, <1>3, <2>2 DEF HeaderStatus, Header
  <2> QED BY <2>1, <2>2
<1>5. /\ stack' \in Seq(Activation) /\ Len(stack') = 1 /\ stack'[1].cursor = valid_prefix'
      /\ valid_prefix' \in Nat /\ valid_prefix' <= size' /\ size' <= Bytes.size
  <2>1. stack' \in Seq(Activation) /\ valid_prefix' \in Nat /\ size' <= Bytes.size
    BY <1>3 DEF IInv, TypeOK
  <2>2. valid_prefix' <= size'
    BY <1>1 DEF IInv, PrefixTracksCursor
  <2>3. header_validated => parse_offset = valid_prefix
    BY <1>1 DEF IInv, PrefixTracksCursor
  <2> QED BY <1>1, <2>1, <2>2, <2>3
<1>6. Now(stack[1].cursor)' \in Parsed
  BY <1>1, <1>2, <1>5, Zenon DEF IInv, TypeOK, Now, Parsed, Status, EventsOf
<1>7. Goes'
  <2> SUFFICES ASSUME NEW m \in size'..Bytes.size
               PROVE  LeadsTo(Bytes, stack', m, Now(stack[1].cursor)', Whole(m))
    BY <1>3 DEF Goes, Whole
  <2> DEFINE p == Now(stack[1].cursor)'
             a == LevelCall(stack', 1, m, p)
  <2>1. a = [cursor |-> valid_prefix', end |-> m, depth |-> 0, seen |-> p]
    BY <1>5 DEF LevelCall, EndOf
  <2>2. m \in 0..Bytes.size /\ valid_prefix' \in 0..Bytes.size /\ m \in size..Bytes.size
    BY <1>3, <1>5
  <2>3. a \in Calls(Bytes)
    <3> HIDE DEF p
    <3> QED BY <1>6, <2>1, <2>2 DEF Calls, p
  <2>4. Whole(m) = tide_parse_records(Bytes, {})[a]
    <3>1. CASE header_validated
      <4>1. GoesOnLater
        BY <1>1, <3>1 DEF SplitInv, Rests
      <4>2. Whole(m) = tide_parse_records(Bytes, {})[ResumeCall(m)]
        BY <2>2, <4>1 DEF GoesOnLater
      <4>3. ResumeCall(m) = a
        BY <1>1, <1>5, <2>1, <3>1 DEF ResumeCall, Now
      <4> QED BY <4>2, <4>3
    <3>2. CASE ~header_validated
      <4>1. tracks = <<>> /\ events = <<>>
        BY <1>2, <3>2, NoError DEF SplitInv, AwaitsHeader
      <4>2. p = Unparsed(TIDE_HEADER_SIZE) /\ valid_prefix' = TIDE_HEADER_SIZE
        BY <1>1, <1>5, <3>2, <4>1 DEF Now, Unparsed
      <4> HIDE DEF p
      <4> QED BY <2>1, <4>2, Zenon DEF Whole, ParseRecords
    <3> QED BY <3>1, <3>2
  <2> HIDE DEF p
  <2>5. LeadsTo(Bytes, stack', m, p, Whole(m))
    BY <1>3, <1>5, <1>6, <2>3, <2>4, OneActivation, Zenon DEF p
  <2> QED BY <2>5 DEF p
<1>8. AwaitsHeader' /\ Rests'
  BY <1>1 DEF AwaitsHeader, Rests
<1> QED BY <1>1, <1>2, <1>4, <1>7, <1>8 DEF SplitInv

\* The records of an activation are done.
LEMMA LevelParsedOn ==
  ASSUME IInv, IInv', Goes, events \in Seq(EventsOf), LevelDone
  PROVE  ParsedOn
<1>1. /\ pc = "parse" /\ Cursor >= Top.end /\ UNCHANGED <<file, size, tracks, events>>
  BY DEF LevelDone
<1>2. /\ Len(stack) \in Nat \ {0} /\ Len(stack) \in 1..Len(stack)
      /\ Cursor \in Nat /\ Top.end \in Nat
  BY <1>1, StackNonempty DEF IInv
<1>3. Cursor = Top.end
  <2>1. Cursor <= Top.end
    BY <1>2 DEF IInv, CursorInParent, Cursor, Top
  <2> QED BY <1>1, <1>2, <2>1
<1>4. CASE Len(stack) > 1
  <2>1. Advance(Len(stack) - 1)
    BY <1>3, <1>4 DEF LevelDone
  <2>2. Goes' /\ pc' = "parse"
    BY <1>1, <1>3, <1>4, <2>1, LeaveStep DEF Advance
  <2> QED BY <1>1, <2>2 DEF ParsedOn
<1>5. CASE Len(stack) = 1
  BY <1>1, <1>5, DoneStep DEF ParsedOn
<1>6. \A k \in Nat \ {0} : k > 1 \/ k = 1
  OBVIOUS
<1> QED BY <1>2, <1>4, <1>5, <1>6, Zenon

\* Every step inside a feed but its return.
LEMMA ParserSteps ==
  ASSUME IInv, IInv', SplitInv, pc = "parse", DepthBounded, limits.max_depth < DEPTH_SPAN,
         CallbackStatus = {"OK"}, AllocationsFail = FALSE, Parse
  PROVE  ParsedOn
<1>1. Goes /\ events \in Seq(EventsOf) /\ Depth = Len(stack) - 1
  <2>1. ~terminal
    BY DEF IInv, PrefixTracksCursor
  <2> QED BY <2>1, DepthIsLevel DEF SplitInv
<1>2. CASE RecordTruncated
  <2>1. pc' = "return" /\ UNCHANGED events
    BY <1>2 DEF RecordTruncated, ParserFails
  <2> QED BY <1>1, <1>2, <2>1, TruncatedStep DEF ParsedOn
<1>3. CASE RecordRejected
  <2>1. pc' = "return" /\ UNCHANGED events
    BY <1>3 DEF RecordRejected, ParserFails
  <2> QED BY <1>1, <1>3, <2>1, RejectStep DEF ParsedOn
<1>4. CASE EnterGroup \/ BadGroup
  <2>1. events' \in Seq(EventsOf)
    <3>1. events' = Append(events, Event("record", Cursor)) \o <<>>
      BY <1>4 DEF EnterGroup, BadGroup, Callbacks
    <3>2. Called(Now(stack[1].cursor), Cursor).events = events'
          /\ Called(Now(stack[1].cursor), Cursor) \in Parsed
      BY <1>1, <3>1, CalledFields, Zenon
    <3> QED BY <3>2, ParsedFields, Zenon
  <2>2. CASE EnterGroup
    <3>1. pc' = "parse"
      BY <2>2 DEF EnterGroup
    <3> QED BY <1>1, <2>1, <2>2, <3>1, EnterStep DEF ParsedOn
  <2>3. CASE BadGroup
    <3>1. pc' = "return"
      BY <2>3 DEF BadGroup, ParserFails
    <3> QED BY <1>1, <2>1, <2>3, <3>1, GroupFails DEF ParsedOn
  <2> QED BY <1>4, <2>2, <2>3
<1>5. ~OnRecordFails /\ ~StreamNoMemory /\ ~FeedReturn
  BY DEF OnRecordFails, StreamNoMemory, FeedReturn
<1> QED
  BY <1>1, <1>2, <1>3, <1>4, <1>5, OtherRecords, SimpleRecords, StreamRecords, PacketRecords,
     LevelParsedOn DEF Parse

\* Every step keeps the invariant.
LEMMA SplitStep ==
  ASSUME IInv, IInv', DepthBounded, SplitInv, [Next]_vars,
         limits.max_depth < DEPTH_SPAN, CallbackStatus = {"OK"}, AllocationsFail = FALSE
  PROVE  SplitInv'
<1>1. CASE Parse /\ pc = "parse"
  <2>1. UNCHANGED <<file, size, terminal, header_validated>>
    BY <1>1, Zenon DEF Parse, RecordTruncated, RecordRejected, OnRecordFails, SkipRecord,
       UnknownRecord, SimpleRecord, EnterGroup, BadGroup, StreamRejected, StreamNoMemory,
       StreamAdded, PacketRejected, PacketEmitted, LevelDone, FeedReturn, Callbacks
  <2> QED BY <1>1, <2>1, ParserSteps, ParseStep, Zenon
<1>2. CASE Parse /\ pc # "parse"
  <2>1. FeedReturn
    BY <1>2, Zenon DEF Parse, RecordTruncated, RecordRejected, OnRecordFails, SkipRecord,
       UnknownRecord, SimpleRecord, EnterGroup, BadGroup, StreamRejected, StreamNoMemory,
       StreamAdded, PacketRejected, PacketEmitted, LevelDone, Callbacks, AtRecord
  <2> QED BY <2>1, ReturnStep
<1>3. CASE FeedRejected \/ \E n \in 0..Bytes.size : FeedNoRoom(n)
  BY <1>3, RestStep DEF FeedRejected, FeedNoRoom, Feeding, impl
<1>4. CASE tide_decoder_cancel \/ tide_decoder_destroy
  BY <1>4, RestStep DEF tide_decoder_cancel, tide_decoder_destroy, impl
<1>5. CASE \E n \in 0..Bytes.size : \/ FeedShortHeader(n)
                                    \/ \E end \in BOOLEAN : FeedBadHeader(n, end)
  BY <1>5, HeaderStep
<1>6. CASE \E n \in 0..Bytes.size, end \in BOOLEAN : FeedParse(n, end)
  BY <1>6, EnterParser
<1>7. CASE UNCHANGED vars
  BY <1>7, Zenon DEF vars, impl, SplitInv, AwaitsHeader, Rests, Header, Goes, Ended, GoesOnLater,
     ResumeCall, Now, Whole, Bytes, DataEvents, Reported
<1> QED BY <1>1, <1>2, <1>3, <1>4, <1>5, <1>6, <1>7 DEF Next, Feed

------------------------------------------------------------------------------
(* What the caller sees *)

\* The single parse that the decoder is compared with: before the header is accepted,
LEMMA ReferenceBefore ==
  ASSUME Header # "OK"
  PROVE  /\ Reference.status = Final(Header) /\ Reference.valid_prefix = 0
         /\ Reference.tracks = <<>> /\ Reference.events = <<>>
BY DEF Reference, tide_parse_tide_bytes, ParseLosing, Header, Unparsed, Final

\* and after.
LEMMA ReferenceAfter ==
  ASSUME IInv, Header = "OK"
  PROVE  /\ Reference.status = Final(Whole(size).status)
         /\ Reference.valid_prefix = Whole(size).valid_prefix
         /\ Reference.tracks = Whole(size).tracks /\ Reference.events = Whole(size).events
         /\ Reference.top = Whole(size).top
<1> DEFINE w == Whole(size)
<1>1. w \in Parsed
  <2>1. TIDE_HEADER_SIZE \in 0..Bytes.size /\ size \in 0..Bytes.size /\ IsData(Bytes)
    <3>1. size \in Nat /\ Bytes.size \in Nat /\ size <= Bytes.size /\ IsData(Bytes)
      BY BytesData
    <3>2. TIDE_HEADER_SIZE <= size
      BY <3>1, HeaderStatuses DEF Header
    <3> QED BY <3>1, <3>2, SizesAssumption
  <2>2. Unparsed(TIDE_HEADER_SIZE) \in Parsed
    BY SizesAssumption, EmptySeq DEF Unparsed, Parsed, Status
  <2>3. [cursor |-> TIDE_HEADER_SIZE, end |-> size, depth |-> 0,
         seen |-> Unparsed(TIDE_HEADER_SIZE)] \in Calls(Bytes)
    BY <2>1, <2>2 DEF Calls
  <2> QED BY <2>1, <2>3, ParseUnfolds DEF Whole, ParseRecords
<1>2. Reference = IF w.status = "TRUNCATED" THEN [w EXCEPT !.status = "PARTIAL"] ELSE w
  BY DEF Reference, tide_parse_tide_bytes, ParseLosing, Header, Whole
<1> HIDE DEF w
<1>3. /\ Reference.status = Final(w.status) /\ Reference.valid_prefix = w.valid_prefix
      /\ Reference.tracks = w.tracks /\ Reference.events = w.events /\ Reference.top = w.top
  BY <1>1, <1>2 DEF Parsed, Final
<1> QED BY <1>3 DEF w

\* The properties follow from the invariant.
LEMMA SplitImplies ==
  IInv /\ SplitInv => SplitIndependent /\ PrefixIsComplete /\ ErrorRecorded
<1> SUFFICES ASSUME IInv, SplitInv, pc = "idle"
             PROVE  SplitIndependent /\ PrefixIsComplete /\ ErrorRecorded
  BY DEF SplitIndependent, PrefixIsComplete, ErrorRecorded
<1>1. CASE ~header_validated
  <2>1. /\ tracks = <<>> /\ DataEvents = <<>> /\ valid_prefix = 0 /\ Header # "OK"
        /\ ~terminal => Header = "TRUNCATED"
        /\ terminal => error = Header /\ status \in Afterwards(Header)
    BY <1>1 DEF SplitInv, AwaitsHeader, IInv, PrefixTracksCursor
  <2> QED BY <1>1, <2>1, ReferenceBefore
          DEF SplitIndependent, PrefixIsComplete, ErrorRecorded, Afterwards, Final
<1>2. CASE header_validated
  <2> DEFINE s == Whole(size).status
  <2>1. /\ Header = "OK" /\ Ended(s, DataEvents) /\ (~terminal => s \in GoesOn)
        /\ terminal => status \in Afterwards(s)
    BY <1>2 DEF SplitInv, Rests
  <2>2. /\ Reference.status = Final(s) /\ Reference.valid_prefix = valid_prefix
        /\ Reference.tracks = tracks /\ Reference.events = DataEvents
        /\ s \in GoesOn => Reference.top = valid_prefix
        /\ s \notin GoesOn => error = s
        /\ s # "PARTIAL"
    BY <2>1, ReferenceAfter DEF Ended
  <2> HIDE DEF s
  <2> QED BY <2>1, <2>2
          DEF SplitIndependent, PrefixIsComplete, ErrorRecorded, Afterwards, Final, GoesOn
<1> QED BY <1>1, <1>2

\* The depth limit fits its uint8_t, callbacks return OK (they may cancel) and
\* allocations succeed.
WellBehaved ==
  limits.max_depth < DEPTH_SPAN /\ CallbackStatus = {"OK"} /\ AllocationsFail = FALSE

\* In every state of such a decoder what is left to do leads to the single parse.
THEOREM SplitInvariance ==
  ASSUME WellBehaved
  PROVE  Spec => []SplitInv
<1>1. IInv /\ IInv' /\ DepthBounded /\ SplitInv /\ [Next]_vars => SplitInv'
  BY SplitStep, Zenon DEF WellBehaved
<1>2. Spec => []DepthBounded
  BY DepthIsBounded DEF WellBehaved
<1> QED BY <1>1, <1>2, InitSplit, Invariance, PTL DEF Spec

\* However the bytes are split into feeds, every feed that returned has made the
\* callbacks, and reported the prefix, the tracks and the status, of one parse of the
\* same bytes.
THEOREM SplitsDoNotMatter ==
  ASSUME WellBehaved
  PROVE  Spec => []SplitIndependent
BY SplitInvariance, SplitImplies, Invariance, PTL

\* Unless a record was rejected, valid_prefix is the end of the last complete record
\* that is in no group.
THEOREM PrefixIsAlwaysComplete ==
  ASSUME WellBehaved
  PROVE  Spec => []PrefixIsComplete
BY SplitInvariance, SplitImplies, Invariance, PTL

\* impl->error names the status of every decode that failed.
THEOREM ErrorIsRecorded ==
  ASSUME WellBehaved
  PROVE  Spec => []ErrorRecorded
BY SplitInvariance, SplitImplies, Invariance, PTL

------------------------------------------------------------------------------
(* The decoder implements DecoderContract *)

\* impl->error names no rejection before one, and a parse that stopped at an
\* incomplete record stopped before the end of the buffer.
ErrorClear ==
  /\ ~terminal /\ pc # "return" => error \in GoesOn
  /\ pc = "return" /\ status \in GoesOn => error \in GoesOn
  /\ pc = "return" /\ status = "TRUNCATED" => valid_prefix < size

\* The parser returns from a record it did not process.
LEMMA FailKeepsClear ==
  ASSUME IInv, error \in GoesOn, AtRecord, NEW s, NEW err \in {s, error}, ParserFails(s, err),
         valid_prefix' \in {valid_prefix, Cursor}, size' = size
  PROVE  ErrorClear'
<1>1. valid_prefix' < size'
  <2>1. pc = "parse" /\ Cursor < Top.end
    BY DEF AtRecord
  <2>2. Cursor \in Nat /\ Top.end \in Nat /\ Top.end <= size /\ size \in Nat
    BY <2>1, StackNonempty, BytesData DEF IInv, CursorInParent, Top, Cursor
  <2>3. valid_prefix \in Nat /\ valid_prefix <= Cursor
    BY <2>1 DEF IInv, TypeOK, PrefixTracksCursor
  <2> QED BY <2>1, <2>2, <2>3
<1>2. pc' = "return" /\ (status' \in GoesOn => error' \in GoesOn)
  BY DEF ParserFails, GoesOn
<1> QED BY <1>1, <1>2 DEF ErrorClear

\* Every step keeps that.
LEMMA ClearStep ==
  ASSUME IInv, ErrorClear, [Next]_vars, CallbackStatus = {"OK"}, AllocationsFail = FALSE
  PROVE  ErrorClear'
<1>1. pc = "parse" => error \in GoesOn /\ ~terminal
  BY DEF ErrorClear, IInv, PrefixTracksCursor
<1>2. ASSUME pc = "parse", UNCHANGED <<pc, error>> PROVE ErrorClear'
  BY <1>1, <1>2 DEF ErrorClear
<1>3. CASE RecordTruncated \/ RecordRejected
  BY <1>1, <1>3, FailKeepsClear DEF RecordTruncated, RecordRejected, AtRecord
<1>4. CASE LevelDone
  BY <1>1, <1>4 DEF LevelDone, ParserFails, Advance, ErrorClear, GoesOn
<1>5. CASE OnRecordFails \/ StreamNoMemory
  BY <1>5 DEF OnRecordFails, StreamNoMemory
<1>6. CASE SkipRecord \/ EnterGroup
  <2>1. pc = "parse" /\ UNCHANGED <<pc, error>>
    BY <1>6 DEF SkipRecord, EnterGroup, Callbacks, AtRecord, Advance
  <2> QED BY <1>2, <2>1
<1>7. CASE UnknownRecord \/ BadGroup \/ StreamRejected \/ PacketRejected
  <2>1. AtRecord /\ size' = size /\ valid_prefix' = valid_prefix /\ \E s : ParserFails(s, s)
    BY <1>7 DEF UnknownRecord, BadGroup, StreamRejected, PacketRejected, Callbacks
  <2> QED BY <1>1, <2>1, FailKeepsClear DEF AtRecord
<1>8. CASE SimpleRecord \/ StreamAdded \/ PacketEmitted
  <2>1. AtRecord /\ size' = size /\ \E s : Settle(s, s) \/ Settle(s, error)
    BY <1>8 DEF SimpleRecord, StreamAdded, PacketEmitted, Callbacks
  <2>2. PICK s : Settle(s, s) \/ Settle(s, error)
    BY <2>1
  <2>3. CASE s = "OK"
    BY <1>2, <2>1, <2>2, <2>3 DEF Settle, Advance, AtRecord
  <2>4. CASE s # "OK"
    BY <1>1, <2>1, <2>2, <2>4, FailKeepsClear DEF Settle, AtRecord
  <2> QED BY <2>3, <2>4
<1>9. CASE FeedReturn
  BY <1>9, Zenon DEF FeedReturn, ErrorClear, Finished, Failed, Returned, GoesOn
<1>10. CASE FeedRejected \/ \E n \in 0..Bytes.size : FeedNoRoom(n) \/ FeedShortHeader(n)
  BY <1>10 DEF FeedRejected, FeedNoRoom, FeedShortHeader, Feeding, impl, ErrorClear
<1>11. CASE \E n \in 0..Bytes.size, end \in BOOLEAN : FeedBadHeader(n, end) \/ FeedParse(n, end)
  BY <1>11 DEF FeedBadHeader, FeedParse, Feeding, ErrorClear
<1>12. CASE tide_decoder_cancel \/ tide_decoder_destroy \/ UNCHANGED vars
  BY <1>12 DEF tide_decoder_cancel, tide_decoder_destroy, vars, impl, ErrorClear
<1> QED
  BY <1>3, <1>4, <1>5, <1>6, <1>7, <1>8, <1>9, <1>10, <1>11, <1>12 DEF Next, Feed, Parse

\* The callbacks made are the first ones of the single parse of the bytes given.
LEMMA MadeSoFar ==
  ASSUME IInv, SplitInv, pc = "parse"
  PROVE  Begins(events, Whole(size).events) /\ Whole(size) \in Parsed
<1> DEFINE k == Len(stack)
           p == Now(stack[1].cursor)
<1>1. Goes /\ events \in Seq(EventsOf)
  BY DEF SplitInv, IInv, PrefixTracksCursor
<1>2. /\ k \in Nat \ {0} /\ stack \in Seq(Activation) /\ stack # <<>>
      /\ \A i \in 1..k : stack[i].cursor \in Nat /\ stack[i].end \in Nat
      /\ stack[1].end = size
  BY StackNonempty DEF IInv, TypeOK, PrefixTracksCursor
<1>3. IsData(Bytes) /\ size \in Nat /\ Bytes.size \in Nat /\ size <= Bytes.size
      /\ size \in size..Bytes.size
  BY BytesData
<1>4. p \in Parsed /\ p.events = events
  BY <1>1, <1>2, NowParsed
<1>5. LeadsTo(Bytes, stack, size, p, Whole(size))
  BY <1>1, <1>3 DEF Goes
<1>6. LevelCall(stack, k, size, p) \in Calls(Bytes)
  <2>1. Innermost(LevelCall(stack, k, size, p), size, p)
    BY <1>3, <1>4, InnermostCall
  <2> QED BY <2>1 DEF Innermost
<1>7. ASSUME NEW i \in 1..(k - 1), NEW q \in Parsed
      PROVE  LET a == LevelCall(stack, i, size, q)
             IN  a \in Calls(Bytes) /\ a.cursor < a.end /\ Check(Bytes, a) = "OK"
  <2> DEFINE o == stack[i].cursor
             e == stack[i].end
  <2>1. i \in 1..k /\ i \in Nat \ {0} /\ i - 1 \in Nat
    BY <1>2
  <2>2. /\ o \in Nat /\ e \in Nat /\ o <= e /\ e <= size
        /\ CheckRecord(Bytes.frame[o], o, e) = "OK"
    BY <1>2, <2>1, Zenon DEF IInv, CursorInParent, Encloses, Bytes
  <2>3. LevelCall(stack, i, size, q) = [cursor |-> o, end |-> e, depth |-> i - 1, seen |-> q]
    BY <1>2, Zenon DEF LevelCall, EndOf
  <2>4. [cursor |-> o, end |-> e, depth |-> i - 1, seen |-> q] \in Calls(Bytes)
    BY <1>3, <2>1, <2>2 DEF Calls
  <2>5. o < e
    <3>1. IsFrame(Bytes.frame[o])
      BY <1>2, <2>1, FrameAtCursor DEF Frame
    <3>2. /\ PayloadOffset(Bytes.frame[o], o) \in Nat /\ PayloadEnd(Bytes.frame[o], o) \in Nat
          /\ CrcEnd(Bytes.frame[o], o) \in Nat /\ o <= PayloadOffset(Bytes.frame[o], o)
          /\ PayloadEnd(Bytes.frame[o], o)
               = PayloadOffset(Bytes.frame[o], o) + Bytes.frame[o].payload_size
          /\ PayloadEnd(Bytes.frame[o], o) < CrcEnd(Bytes.frame[o], o)
          /\ CrcEnd(Bytes.frame[o], o) <= e /\ Bytes.frame[o].payload_size \in Nat
      <4> HIDE DEF o, e
      <4> QED BY <2>2, <3>1, FrameBounds, Zenon DEF IsFrame
    <3> HIDE DEF o, e
    <3> QED BY <2>2, <3>2
  <2>6. PICK a : a = [cursor |-> o, end |-> e, depth |-> i - 1, seen |-> q]
    BY Zenon
  <2> HIDE DEF o, e
  <2>7. a.cursor = o /\ a.end = e
    BY <2>6
  <2>8. a.cursor < a.end /\ Check(Bytes, a) = "OK"
    BY <2>2, <2>5, <2>7 DEF Check, At
  <2> QED BY <2>3, <2>4, <2>6, <2>8
<1> HIDE DEF k, p
<1>8. Begins(p.events, Whole(size).events)
  BY <1>2, <1>3, <1>4, <1>5, <1>6, <1>7, LeadsToExtends DEF k
<1>9. Whole(size) \in Parsed
  <2>1. PICK R : R \in [1..k -> Parsed] /\ R[1] = Whole(size)
    BY <1>5, Zenon DEF LeadsTo, Returns, k
  <2> QED BY <1>2, <2>1
<1> QED BY <1>4, <1>8, <1>9

\* What the contract's script and verdict are before the header is accepted,
LEMMA ScriptBefore ==
  ASSUME NEW m, NEW n, tide_validate_header(Media[m].header, n) # "OK"
  PROVE  Script(m, n) = <<>> /\ Verdict(m, n) = Final(tide_validate_header(Media[m].header, n))
BY DEF Script, Verdict, tide_parse_tide_bytes, ParseLosing, Unparsed, Final

\* and after.
LEMMA ScriptAfter ==
  ASSUME IInv, Header = "OK"
  PROVE  /\ Script(file, size) = Whole(size).events
         /\ Verdict(file, size) = Final(Whole(size).status)
<1>1. Script(file, size) = Reference.events /\ Verdict(file, size) = Reference.status
  BY DEF Script, Verdict, Reference, Bytes
<1> QED BY <1>1, ReferenceAfter

\* Between feeds a decoder that is not finished has made every callback.
LEMMA CaughtUp ==
  ASSUME IInv, SplitInv, pc = "idle", ~terminal
  PROVE  /\ DataEvents = Script(file, size) /\ Verdict(file, size) \in {"OK", "PARTIAL"}
         /\ ~header_validated => DataEvents = <<>>
<1>1. CASE ~header_validated
  <2>1. DataEvents = <<>> /\ Header = "TRUNCATED"
    BY <1>1 DEF SplitInv, AwaitsHeader
  <2>2. tide_validate_header(Media[file].header, size) = "TRUNCATED"
    BY <2>1 DEF Header, Bytes
  <2>3. Script(file, size) = <<>> /\ Verdict(file, size) = Final("TRUNCATED")
    BY <2>2, ScriptBefore
  <2> QED BY <2>1, <2>3 DEF Final
<1>2. CASE header_validated
  <2>1. /\ Header = "OK" /\ Ended(Whole(size).status, DataEvents)
        /\ Whole(size).status \in GoesOn
    BY <1>2 DEF SplitInv, Rests
  <2>2. Whole(size).events = DataEvents
    BY <2>1 DEF Ended
  <2> QED BY <1>2, <2>1, <2>2, ScriptAfter DEF Final, GoesOn
<1> QED BY <1>1, <1>2

\* A feed that hands over bytes is Accept, one of no bytes changes nothing that the
\* contract sees.
LEMMA AcceptStep ==
  ASSUME IInv, SplitInv, pc = "idle", ~terminal, ~terminal', NEW n \in Nat,
         size' = size + n, UNCHANGED <<file, events>>
  PROVE  [Contract!Next]_Contract!vars
<1>1. DataEvents' = DataEvents
  BY DEF DataEvents, Reported
<1>2. Told = "none" /\ Told' = "none"
  BY DEF Told
<1>3. DataEvents = Script(file, size) /\ Verdict(file, size) \in {"OK", "PARTIAL"}
  BY CaughtUp
<1>4. size \in Nat
  BY BytesData
<1>5. CASE n = 0
  <2>1. size' = size
    BY <1>4, <1>5
  <2> QED BY <1>1, <1>2, <2>1 DEF Contract!vars
<1>6. CASE n # 0
  <2>1. size' \in Nat /\ size' > size
    BY <1>4, <1>6
  <2>2. Contract!Accept
    BY <1>1, <1>2, <1>3, <2>1 DEF Contract!Accept
  <2> QED BY <2>2 DEF Contract!Next
<1> QED BY <1>5, <1>6

\* A header that is rejected, or that the last feed leaves incomplete, is
\* AcceptAndFinish.
LEMMA BadHeaderStep ==
  ASSUME IInv, SplitInv, NEW n \in 0..Bytes.size, NEW end, FeedBadHeader(n, end)
  PROVE  Contract!AcceptAndFinish
<1> DEFINE h == tide_validate_header(Media[file].header, size + n)
<1>1. /\ pc = "idle" /\ ~terminal /\ terminal' /\ ~header_validated /\ ~header_validated'
      /\ file' = file /\ size' = size + n /\ error' = h /\ h # "OK"
      /\ events' \in {events, Append(events, Event("error", 0))}
  BY Zenon DEF FeedBadHeader, Feeding, HeaderStatus, Bytes
<1>2. /\ DataEvents = Script(file, size) /\ DataEvents = <<>>
  BY <1>1, CaughtUp
<1>3. DataEvents' = DataEvents
  <2>1. events \in Seq(EventsOf)
    BY <1>1 DEF SplitInv
  <2>2. DataEvents = events
    BY <2>1, NoError
  <2>3. CASE events' = events
    BY <2>3 DEF DataEvents, Reported
  <2>4. CASE events' = Append(events, Event("error", 0))
    BY <2>1, <2>2, <2>4, ErrorAppended
  <2> QED BY <1>1, <2>3, <2>4
<1>4. Script(file, size') = <<>> /\ Verdict(file, size') = Final(h)
  BY <1>1, ScriptBefore
<1>5. size' \in Nat /\ size' >= size
  <2>1. size \in Nat /\ n \in Nat
    BY BytesData
  <2> QED BY <1>1, <2>1
<1> HIDE DEF h
<1>6. Told = "none" /\ Told' = Final(h)
  BY <1>1 DEF Told, Final
<1> QED BY <1>1, <1>2, <1>3, <1>4, <1>5, <1>6 DEF Contract!AcceptAndFinish

\* After a step too the callbacks compared are all of them,
LEMMA NoErrorNext == (events \in Seq(EventsOf) => DataEvents = events)'
<1>1. events \in Seq(EventsOf) => DataEvents = events
  BY NoError
<1> QED BY <1>1, PTL

\* and the first ones of the single parse.
LEMMA MadeSoFarNext ==
  (IInv /\ SplitInv /\ pc = "parse" => Begins(events, Whole(size).events))'
<1>1. IInv /\ SplitInv /\ pc = "parse" => Begins(events, Whole(size).events)
  BY MadeSoFar
<1> QED BY <1>1, PTL

\* The callbacks of a record are Deliver.
LEMMA DeliverStep ==
  ASSUME IInv, IInv', SplitInv, SplitInv', MakesCallbacks, pc' \in {"parse", "return"},
         UNCHANGED <<file, size, terminal, header_validated>>
  PROVE  Contract!Deliver
<1> DEFINE w == Whole(size)
           n == Len(events)
<1>1. /\ pc = "parse" /\ ~terminal /\ n \in Nat /\ Len(events') \in {n + 1, n + 2}
      /\ header_validated
  BY RecordEvents DEF IInv, PrefixTracksCursor
<1>2. events \in Seq(EventsOf) /\ events' \in Seq(EventsOf)
  BY <1>1 DEF SplitInv
<1>3. DataEvents = events /\ DataEvents' = events'
  <2>1. events \in Seq(EventsOf) => DataEvents = events
    BY NoError
  <2> QED BY <1>2, <2>1, NoErrorNext
<1>4. w' = w
  BY DEF Whole, Bytes
<1>5. w \in Parsed /\ w.events \in Seq(EventsOf)
  BY <1>1, MadeSoFar, ParsedFields, Zenon
<1>6. Begins(events', w.events)
  <2>1. CASE pc' = "parse"
    BY <1>4, <2>1, MadeSoFarNext
  <2>2. CASE pc' = "return"
    <3>1. w'.events = events'
      BY <2>2, Zenon DEF SplitInv, Ended
    <3> QED BY <1>2, <1>4, <3>1, BeginsFacts
  <2> QED BY <2>1, <2>2
<1>7. Script(file, size) = w.events
  BY <1>1, ScriptAfter DEF SplitInv
<1> HIDE DEF w
<1>8. PICK k \in 1..2 : Len(events') = n + k
  BY <1>1
<1>9. n + k <= Len(w.events) /\ events' = SubSeq(w.events, 1, n + k)
  <2>1. Len(events') \in Nat /\ Len(w.events) \in Nat
    BY <1>2, <1>5, LenProperties
  <2>2. /\ Len(events') <= Len(w.events)
        /\ \A i \in 1..Len(events') : w.events[i] = events'[i]
    BY <1>6 DEF Begins
  <2>3. events' = [i \in 1..Len(events') |-> events'[i]]
    BY <1>2
  <2>4. SubSeq(w.events, 1, Len(events')) = [i \in 1..Len(events') |-> w.events[i]]
    BY <1>5, <2>1, <2>2
  <2> QED BY <1>8, <2>2, <2>3, <2>4
<1>10. Told = "none" /\ Told' = "none"
  BY <1>1 DEF Told
<1> QED BY <1>3, <1>7, <1>8, <1>9, <1>10 DEF Contract!Deliver

\* The return of the feed that finishes the decoder is Finish.
LEMMA FinishStep ==
  ASSUME IInv, SplitInv, ErrorClear, FeedReturn
  PROVE  [Contract!Next]_Contract!vars
<1> DEFINE w == Whole(size)
<1>1. /\ pc = "return" /\ ~terminal /\ header_validated
      /\ UNCHANGED <<file, size, valid_prefix, header_validated, error>>
      /\ terminal' = Finished
      /\ events' \in {events, Append(events, Event("error", 0))}
  BY DEF FeedReturn, IInv, PrefixTracksCursor
<1>2. events \in Seq(EventsOf) /\ Header = "OK" /\ Ended(status, events)
  BY <1>1 DEF SplitInv
<1>3. DataEvents = events /\ DataEvents' = events
  <2>1. DataEvents = events
    BY <1>2, NoError
  <2>2. CASE events' = events
    BY <2>1, <2>2 DEF DataEvents, Reported
  <2>3. CASE events' = Append(events, Event("error", 0))
    BY <1>2, <2>1, <2>3, ErrorAppended
  <2> QED BY <1>1, <2>1, <2>2, <2>3
<1>4. Script(file, size) = events /\ Verdict(file, size) = Final(status)
  BY <1>2, ScriptAfter, Zenon DEF Ended
<1>5. Told = "none" /\ (~terminal' => Told' = "none")
  BY <1>1 DEF Told
<1>6. CASE ~terminal'
  BY <1>1, <1>3, <1>5, <1>6 DEF Contract!vars
<1>7. CASE terminal'
  <2>1. ASSUME status \notin GoesOn PROVE Told' = Final(status)
    <3>1. error' = status
      BY <1>1, <1>2, <2>1 DEF Ended
    <3> QED BY <1>7, <2>1, <3>1 DEF Told, Final, GoesOn
  <2>2. ASSUME status = "OK" PROVE Told' = Final(status)
    <3>1. error' \in GoesOn /\ valid_prefix' = size' /\ header_validated'
      BY <1>1, <2>2 DEF ErrorClear, IInv, PrefixTracksCursor, GoesOn
    <3> QED BY <1>7, <2>2, <3>1 DEF Told, Final, GoesOn
  <2>3. ASSUME status = "TRUNCATED" PROVE Told' = Final(status)
    <3>1. error' \in GoesOn /\ valid_prefix' < size' /\ valid_prefix' \in Nat /\ size' \in Nat
      BY <1>1, <2>3, BytesData DEF ErrorClear, IInv, TypeOK, GoesOn
    <3>2. valid_prefix' # size'
      BY <3>1
    <3> QED BY <1>7, <2>3, <3>1, <3>2 DEF Told, Final, GoesOn
  <2>4. Told' = Final(status)
    BY <2>1, <2>2, <2>3 DEF GoesOn
  <2>5. Contract!Finish
    BY <1>1, <1>3, <1>4, <1>5, <2>4 DEF Contract!Finish
  <2> QED BY <2>5 DEF Contract!Next
<1> QED BY <1>6, <1>7

\* Every step is one of the contract's, or changes nothing it sees.
LEMMA ContractStep ==
  ASSUME IInv, IInv', SplitInv, SplitInv', ErrorClear, [Next]_vars
  PROVE  [Contract!Next]_Contract!vars
<1>1. ASSUME UNCHANGED <<file, size, events, terminal, error, header_validated, valid_prefix>>
      PROVE  UNCHANGED Contract!vars
  BY <1>1 DEF Contract!vars, Told, DataEvents, Reported
<1>2. CASE FeedRejected \/ (\E n \in 0..Bytes.size : FeedNoRoom(n)) \/ tide_decoder_cancel
           \/ tide_decoder_destroy \/ UNCHANGED vars
  BY <1>1, <1>2, Zenon DEF FeedRejected, FeedNoRoom, tide_decoder_cancel, tide_decoder_destroy, vars, impl
<1>3. CASE \E n \in 0..Bytes.size : FeedShortHeader(n) \/ \E end \in BOOLEAN : FeedParse(n, end)
  <2>1. PICK n \in 0..Bytes.size : FeedShortHeader(n) \/ \E end \in BOOLEAN : FeedParse(n, end)
    BY <1>3
  <2>2. /\ pc = "idle" /\ ~terminal /\ ~terminal' /\ size' = size + n
        /\ UNCHANGED <<file, events>>
    BY <2>1 DEF FeedShortHeader, FeedParse, Feeding
  <2>3. n \in Nat
    BY BytesData
  <2> QED BY <2>2, <2>3, AcceptStep
<1>4. CASE \E n \in 0..Bytes.size, end \in BOOLEAN : FeedBadHeader(n, end)
  BY <1>4, BadHeaderStep DEF Contract!Next
<1>5. CASE FeedReturn
  BY <1>5, FinishStep
<1>6. CASE Parse /\ ~FeedReturn
  <2>1. UNCHANGED <<file, size, terminal, header_validated>> /\ pc = "parse"
    BY <1>6, Zenon DEF Parse, RecordTruncated, RecordRejected, OnRecordFails, SkipRecord,
       UnknownRecord, SimpleRecord, EnterGroup, BadGroup, StreamRejected, StreamNoMemory,
       StreamAdded, PacketRejected, PacketEmitted, LevelDone, Callbacks, AtRecord
  <2>2. ~terminal
    BY <2>1, Zenon DEF IInv, PrefixTracksCursor
  <2>3. CASE UNCHANGED events
    <3>1. Told = "none" /\ Told' = "none"
      BY <2>1, <2>2 DEF Told
    <3>2. DataEvents' = DataEvents
      BY <2>3 DEF DataEvents, Reported
    <3> QED BY <2>1, <3>1, <3>2 DEF Contract!vars
  <2>4. CASE MakesCallbacks
    <3>1. pc' \in {"parse", "return"}
      <4>1. pc' # "idle"
        BY <1>6, <2>1, Zenon DEF Parse, RecordTruncated, RecordRejected, OnRecordFails, SkipRecord,
           UnknownRecord, SimpleRecord, EnterGroup, BadGroup, StreamRejected, StreamNoMemory,
           StreamAdded, PacketRejected, PacketEmitted, LevelDone, Settle, Advance, ParserFails
      <4> QED BY <4>1 DEF IInv, TypeOK
    <3>2. Contract!Deliver
      BY <2>1, <2>4, <3>1, DeliverStep
    <3> QED BY <3>2 DEF Contract!Next
  <2> QED BY <2>1, <2>2, <2>3, <2>4, EventSteps
<1> QED BY <1>2, <1>3, <1>4, <1>5, <1>6 DEF Next, Feed

\* A decoder as tide_decoder_init leaves it.
LEMMA ContractInit == Init => Contract!Init /\ ErrorClear
<1> SUFFICES ASSUME Init PROVE Contract!Init /\ ErrorClear
  OBVIOUS
<1>1. DataEvents = <<>>
  <2>1. events \in Seq(EventsOf) /\ events = <<>>
    BY EmptySeq DEF Init
  <2> QED BY <2>1, NoError
<1> QED BY <1>1 DEF Init, Contract!Init, Told, ErrorClear, GoesOn

\* The incremental decoder implements DecoderContract: it makes the callbacks of a
\* single parse of the bytes given, in the same order and each once, takes more bytes
\* only when it has made them all, and when it is finished tells that parse's status.
THEOREM DecoderImplementsContract ==
  ASSUME WellBehaved
  PROVE  Spec => ImplementsContract
<1>1. IInv /\ ErrorClear /\ [Next]_vars => ErrorClear'
  BY ClearStep, Zenon DEF WellBehaved
<1>2. IInv /\ IInv' /\ SplitInv /\ SplitInv' /\ ErrorClear /\ [Next]_vars
        => [Contract!Next]_Contract!vars
  BY ContractStep
<1> QED
  BY <1>1, <1>2, ContractInit, Invariance, SplitInvariance, PTL
     DEF Spec, ImplementsContract, Contract!Spec

=============================================================================
