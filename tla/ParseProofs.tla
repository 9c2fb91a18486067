----------------------------- MODULE ParseProofs -----------------------------
(****************************************************************************)
(* The byte format and tide_parse_records: where a record that passed its   *)
(* checks ends, which statuses the checks have, and that the recursion of   *)
(* the parser is well founded, so that the parse of every byte stream is    *)
(* what its definition says.  What the activations of a parse lead to, that *)
(* it only adds callbacks, and facts about sequences.                       *)
(****************************************************************************)
EXTENDS ParseBytes, TLAPS
LOCAL INSTANCE WellFoundedInduction

------------------------------------------------------------------------------
(* Sequences *)

\* A sequence is a function on an initial segment of the positive numbers.
LEMMA SeqDef == \A S : Seq(S) = UNION {[1..n -> S] : n \in Nat}
OBVIOUS

\* The elements of a sequence,
LEMMA ElementOfSeq ==
  ASSUME NEW S, NEW s \in Seq(S), NEW i \in 1..Len(s)
  PROVE  s[i] \in S
OBVIOUS

\* its length and domain,
LEMMA LenProperties ==
  ASSUME NEW S, NEW s \in Seq(S)
  PROVE  Len(s) \in Nat /\ DOMAIN s = 1..Len(s) /\ s \in [1..Len(s) -> S]
OBVIOUS

\* and the sequence without any.
LEMMA EmptySeq ==
  ASSUME NEW S
  PROVE  <<>> \in Seq(S) /\ \A s \in Seq(S) : Len(s) = 0 <=> s = <<>>
OBVIOUS

\* A sequence and one more element.
LEMMA AppendProperties ==
  ASSUME NEW S, NEW s \in Seq(S), NEW x \in S
  PROVE  /\ Append(s, x) \in Seq(S) /\ Append(s, x) # <<>>
         /\ Len(Append(s, x)) = Len(s) + 1 /\ Append(s, x)[Len(s) + 1] = x
         /\ \A i \in 1..Len(s) : Append(s, x)[i] = s[i]
OBVIOUS

\* t is s and then x,
EndsWith(t, s, x) ==
  /\ Len(s) \in Nat /\ Len(t) = Len(s) + 1 /\ DOMAIN t = 1..(Len(s) + 1) /\ t[Len(s) + 1] = x
  /\ \A i \in 1..Len(s) : t[i] = s[i]

\* as it is when x was appended.
LEMMA AppendEnds ==
  ASSUME NEW S, NEW s \in Seq(S), NEW x \in S, NEW t, t = Append(s, x)
  PROVE  EndsWith(t, s, x)
BY DEF EndsWith

\* An index into that.
LEMMA LastIndex == \A n \in Nat : \A i \in 1..(n + 1) : i \in 1..n \/ i = n + 1
OBVIOUS

\* A sequence after another,
LEMMA ConcatProperties ==
  ASSUME NEW S, NEW s \in Seq(S), NEW t \in Seq(S)
  PROVE  /\ s \o t \in Seq(S) /\ Len(s \o t) = Len(s) + Len(t)
         /\ \A i \in 1..(Len(s) + Len(t)) :
              (s \o t)[i] = IF i <= Len(s) THEN s[i] ELSE t[i - Len(s)]
OBVIOUS

\* before or after an empty one,
LEMMA ConcatEmptySeq ==
  ASSUME NEW S, NEW s \in Seq(S)
  PROVE  s \o <<>> = s /\ <<>> \o s = s
OBVIOUS

\* and before one of length 1.
LEMMA AppendIsConcat ==
  ASSUME NEW S, NEW s \in Seq(S), NEW x \in S
  PROVE  Append(s, x) = s \o <<x>>
OBVIOUS

\* A sequence is the whole of its elements.
LEMMA SubSeqFull ==
  ASSUME NEW S, NEW s \in Seq(S)
  PROVE  SubSeq(s, 1, Len(s)) = s
OBVIOUS

------------------------------------------------------------------------------
(* A recursive function exists.  f[x \in D] == e stands for a choice of an f *)
(* with f = [x \in D |-> e], of which nothing is known before such an f has  *)
(* been shown to exist.  It does when e, as a function of f, is given by what *)
(* f is where a measure is smaller.                                           *)

\* B[f][x] depends on what f is where M is smaller than M[x] only.
Descends(B, M, D, R) ==
  \A f, g \in [D -> R] : \A x \in D :
    (\A y \in D : M[y] < M[x] => f[y] = g[y]) => B[f][x] = B[g][x]

\* f solves the equation where M is below n.
Solves(f, n, B, M, D) == \A x \in D : M[x] < n => f[x] = B[f][x]

\* The equation has a solution.
HasSolution(B, D, R) == \E f \in [D -> R] : f = B[f]

\* f and g are the same there.
Agree(f, g, n, M, D) == \A x \in D : M[x] < n => f[x] = g[x]

\* A set of natural numbers that is not empty has a least element.
LEMMA LeastNumber ==
  ASSUME NEW X \in SUBSET Nat, X # {}
  PROVE  \E n \in X : \A m \in X : n <= m
<1>1. PICK n \in X : \A m \in X : ~(<<m, n>> \in OpToRel(<, Nat))
  BY NatLessThanWellFounded, WFMin, Zenon
<1>2. \A m \in X : n <= m
  <2> SUFFICES ASSUME NEW m \in X PROVE ~(m < n)
    OBVIOUS
  <2> QED BY <1>1, Zenon DEF OpToRel
<1> QED BY <1>2

\* A set on which a measure is defined has an element where it is least.
LEMMA LeastMeasure ==
  ASSUME NEW D, NEW M \in [D -> Nat], NEW X \in SUBSET D, X # {}
  PROVE  \E x \in X : \A y \in X : M[x] <= M[y]
<1> DEFINE V == {M[x] : x \in X}
<1>1. V \in SUBSET Nat /\ V # {}
  OBVIOUS
<1>2. PICK n \in V : \A m \in V : n <= m
  <2> HIDE DEF V
  <2> QED BY <1>1, LeastNumber
<1>3. PICK x \in X : n = M[x]
  OBVIOUS
<1> QED BY <1>2, <1>3

\* Two solutions agree as far as both solve the equation.
LEMMA SolutionsAgree ==
  ASSUME NEW D, NEW R, NEW B \in [[D -> R] -> [D -> R]], NEW M \in [D -> Nat],
         Descends(B, M, D, R)
  PROVE  \A f, g \in [D -> R], n \in Nat :
           Solves(f, n, B, M, D) /\ Solves(g, n, B, M, D) => Agree(f, g, n, M, D)
<1> SUFFICES ASSUME NEW f \in [D -> R], NEW g \in [D -> R], NEW n \in Nat,
                    Solves(f, n, B, M, D), Solves(g, n, B, M, D)
             PROVE  \A x \in D : M[x] < n => f[x] = g[x]
  BY DEF Agree
<1> DEFINE X == {x \in D : M[x] < n /\ f[x] # g[x]}
<1> SUFFICES ASSUME X # {} PROVE FALSE
  OBVIOUS
<1>1. PICK x \in X : \A y \in X : M[x] <= M[y]
  <2>1. X \in SUBSET D
    OBVIOUS
  <2> HIDE DEF X
  <2> QED BY <2>1, LeastMeasure
<1>2. \A y \in D : M[y] < M[x] => f[y] = g[y]
  <2> SUFFICES ASSUME NEW y \in D, M[y] < M[x], f[y] # g[y] PROVE FALSE
    OBVIOUS
  <2>1. M[y] \in Nat /\ M[x] \in Nat
    OBVIOUS
  <2> QED BY <1>1, <2>1
<1>3. B[f][x] = B[g][x]
  BY <1>2 DEF Descends
<1> QED BY <1>3 DEF Solves

\* The equation can be solved up to every n.
LEMMA PartlySolved ==
  ASSUME NEW D, NEW R, R # {}, NEW B \in [[D -> R] -> [D -> R]], NEW M \in [D -> Nat],
         Descends(B, M, D, R), NEW n \in Nat
  PROVE  \E f \in [D -> R] : Solves(f, n, B, M, D)
<1> DEFINE X == {k \in Nat : ~\E f \in [D -> R] : Solves(f, k, B, M, D)}
<1> SUFFICES ASSUME X # {} PROVE FALSE
  BY Zenon
<1>1. PICK k \in X : \A m \in X : k <= m
  <2>1. X \in SUBSET Nat
    OBVIOUS
  <2> HIDE DEF X
  <2> QED BY <2>1, LeastNumber
<1>2. k # 0
  <2>1. PICK r \in R : TRUE
    OBVIOUS
  <2>2. [x \in D |-> r] \in [D -> R] /\ \A x \in D : ~(M[x] < 0)
    OBVIOUS
  <2>3. Solves([x \in D |-> r], 0, B, M, D)
    BY <2>2 DEF Solves
  <2> QED BY <1>1, <2>2, <2>3
<1>3. k - 1 \in Nat /\ k - 1 \notin X
  BY <1>1, <1>2
<1>4. PICK f \in [D -> R] : Solves(f, k - 1, B, M, D)
  BY <1>3
<1> DEFINE g == B[f]
<1>5. g \in [D -> R]
  OBVIOUS
<1>6. ASSUME NEW x \in D, M[x] < k PROVE g[x] = B[g][x]
  <2>1. \A y \in D : M[y] < M[x] => f[y] = g[y]
    <3> SUFFICES ASSUME NEW y \in D, M[y] < M[x] PROVE f[y] = g[y]
      OBVIOUS
    <3>1. M[x] \in Nat /\ M[y] \in Nat
      OBVIOUS
    <3>2. M[y] < k - 1
      BY <1>6, <3>1
    <3> QED BY <1>4, <3>2 DEF Solves
  <2> HIDE DEF g
  <2>2. B[f][x] = B[g][x]
    BY <1>5, <2>1 DEF Descends
  <2> QED BY <2>2 DEF g
<1>7. Solves(g, k, B, M, D)
  <2> HIDE DEF g
  <2> QED BY <1>6 DEF Solves
<1> QED BY <1>1, <1>5, <1>7

\* An equation that descends has a solution.
LEMMA RecursiveFunction ==
  ASSUME NEW D, NEW R, R # {}, NEW B \in [[D -> R] -> [D -> R]], NEW M \in [D -> Nat],
         Descends(B, M, D, R)
  PROVE  HasSolution(B, D, R)
<1>0. \A g, h \in [D -> R], n \in Nat :
        Solves(g, n, B, M, D) /\ Solves(h, n, B, M, D) => Agree(g, h, n, M, D)
  BY SolutionsAgree, Zenon
<1> DEFINE part(n) == CHOOSE f \in [D -> R] : Solves(f, n, B, M, D)
           f == [x \in D |-> part(M[x] + 1)[x]]
<1>1. ASSUME NEW n \in Nat PROVE part(n) \in [D -> R] /\ Solves(part(n), n, B, M, D)
  BY PartlySolved, Zenon
<1> HIDE DEF part
<1>2. \A x \in D : M[x] + 1 \in Nat
  OBVIOUS
<1>3. f \in [D -> R]
  BY <1>1, <1>2
<1>4. ASSUME NEW x \in D PROVE f[x] = B[f][x]
  <2> DEFINE g == part(M[x] + 1)
  <2>1. g \in [D -> R] /\ Solves(g, M[x] + 1, B, M, D)
    BY <1>1, <1>2
  <2>2. \A y \in D : M[y] < M[x] => f[y] = g[y]
    <3> SUFFICES ASSUME NEW y \in D, M[y] < M[x] PROVE part(M[y] + 1)[y] = g[y]
      OBVIOUS
    <3> DEFINE n == M[y] + 1
               h == part(n)
    <3>1. h \in [D -> R] /\ Solves(h, n, B, M, D)
      BY <1>1, <1>2
    <3>2. Solves(g, n, B, M, D)
      <4> HIDE DEF g
      <4>1. M[y] \in Nat /\ M[x] \in Nat
        OBVIOUS
      <4>2. \A z \in D : M[z] < M[y] + 1 => M[z] < M[x] + 1
        BY <4>1
      <4> QED BY <2>1, <4>2 DEF Solves
    <3>3. M[y] < n /\ n \in Nat
      OBVIOUS
    <3> HIDE DEF g, h, n, f
    <3>4. \A z \in D : M[z] < n => h[z] = g[z]
      BY <1>0, <2>1, <3>1, <3>2, <3>3 DEF Agree
    <3> QED BY <3>3, <3>4 DEF h, n
  <2>3. g[x] = B[g][x]
    <3>1. M[x] < M[x] + 1
      OBVIOUS
    <3> HIDE DEF g
    <3> QED BY <2>1, <3>1 DEF Solves
  <2>4. f[x] = g[x]
    OBVIOUS
  <2> HIDE DEF f, g
  <2>5. B[f][x] = B[g][x]
    BY <1>3, <2>1, <2>2 DEF Descends
  <2> QED BY <2>3, <2>4, <2>5
<1> HIDE DEF f
<1>5. f = B[f]
  BY <1>3, <1>4
<1> QED BY <1>3, <1>5 DEF HasSolution

------------------------------------------------------------------------------
(* The format *)

\* Rounding up to an alignment never rounds down.
LEMMA AlignAbove ==
  ASSUME NEW v \in Nat, NEW a \in {1, 2, 4, 8, 16}
  PROVE  tide_align_u64(v, a) \in Nat /\ v <= tide_align_u64(v, a)
<1>1. CASE a = 1  BY <1>1 DEF tide_align_u64
<1>2. CASE a = 2  BY <1>2 DEF tide_align_u64
<1>3. CASE a = 4  BY <1>3 DEF tide_align_u64
<1>4. CASE a = 8  BY <1>4 DEF tide_align_u64
<1>5. CASE a = 16 BY <1>5 DEF tide_align_u64
<1> QED BY <1>1, <1>2, <1>3, <1>4, <1>5

\* A record that passed its checks lies in its window, its payload before its CRC.
LEMMA FrameBounds ==
  ASSUME NEW f, IsFrame(f), NEW o \in Nat, NEW end \in Nat,
         CheckRecord(f, o, end) = "OK"
  PROVE  /\ PayloadOffset(f, o) \in Nat /\ PayloadEnd(f, o) \in Nat
         /\ CrcEnd(f, o) \in Nat
         /\ o <= PayloadOffset(f, o)
         /\ PayloadEnd(f, o) = PayloadOffset(f, o) + f.payload_size
         /\ PayloadEnd(f, o) < CrcEnd(f, o)
         /\ CrcEnd(f, o) <= end
<1>1. f.header_size \in Nat /\ f.payload_size \in Nat /\ f.alignment_log2 \in Nat
  BY DEF IsFrame
<1>2. tide_decode_record_prefix(f, o, end) = "OK"
  BY DEF CheckRecord
<1>3. f.alignment_log2 \in {0, 1, 2, 3, 4}
  BY <1>1, <1>2 DEF tide_decode_record_prefix
<1>4. Alignment(f) \in {1, 2, 4, 8, 16}
  BY <1>3 DEF Alignment, Pow2
<1>5. UnpaddedSize(f) \in Nat
  BY <1>1 DEF UnpaddedSize
<1>6. /\ tide_align_u64(UnpaddedSize(f), Alignment(f)) \in Nat
      /\ UnpaddedSize(f) <= tide_align_u64(UnpaddedSize(f), Alignment(f))
  BY <1>4, <1>5, AlignAbove
<1>7. CrcEnd(f, o) \in Nat /\ PayloadEnd(f, o) < CrcEnd(f, o)
  BY <1>5, <1>6, SizesAssumption DEF CrcEnd, PaddingEnd, PayloadEnd
<1>8. CrcEnd(f, o) <= end
  BY <1>2, <1>7 DEF tide_decode_record_prefix
<1> QED
  BY <1>1, <1>7, <1>8 DEF PayloadOffset, PayloadEnd, UnpaddedSize

\* The framing, limit and integrity checks of tide_parse_records have these results.
LEMMA CheckRecordStatus ==
  ASSUME NEW f, IsFrame(f), NEW o, NEW end
  PROVE  CheckRecord(f, o, end) \in {"OK", "TRUNCATED", "FORMAT", "RESOURCE", "INTEGRITY"}
BY DEF CheckRecord, tide_decode_record_prefix, IsFrame

\* The checks of a record's body never find it TRUNCATED.
BodyStatus == {"OK", "FORMAT", "RESOURCE", "TIMELINE", "INDEX", "INTEGRITY"}

\* tide_emit_simple_record returns one of them.
LEMMA SimpleRecordStatus ==
  ASSUME NEW f, f.type \in SimpleType, NEW o, NEW ts
  PROVE  tide_emit_simple_record(f, o, ts) \in BodyStatus
BY DEF SimpleType, BodyStatus, tide_emit_simple_record, PacketTableStatus,
       EditListStatus, DiscontinuityStatus, SeekIndexStatus, CheckpointStatus,
       IndexDirectoryStatus, FooterStatus, TableStatus

\* tide_validate_header returns a status, and OK only for a whole header.
LEMMA HeaderStatuses ==
  ASSUME NEW header, NEW n \in Nat
  PROVE  /\ tide_validate_header(header, n) \in Status
         /\ tide_validate_header(header, n) = "OK" => TIDE_HEADER_SIZE <= n
<1> DEFINE fails(i) == \/ HeaderChecks[i] \in header.fails
                       \/ /\ HeaderChecks[i] = "max_record_hint"
                          /\ header.max_record_hint > limits.max_record_size
           first == CHOOSE i \in 1..7 : fails(i) /\ \A j \in 1..(i-1) : ~fails(j)
<1> HIDE DEF fails
<1>1. ASSUME \E i \in 1..7 : fails(i)
      PROVE  \E i \in 1..7 : fails(i) /\ \A j \in 1..(i-1) : ~fails(j)
  BY <1>1
<1>2. ASSUME \E i \in 1..7 : fails(i) PROVE first \in 1..7
  BY <1>1, <1>2
<1>3. \A i \in 1..7 : HeaderCheckStatus[i] \in Status \ {"OK"}
  BY DEF HeaderCheckStatus, Status
<1> QED
  BY <1>2, <1>3, SizesAssumption DEF tide_validate_header, Status, fails

------------------------------------------------------------------------------
(* The recursion of tide_parse_records *)

\* What is parsed is a frame wherever a record may start.
IsData(data) == data.size \in Nat /\ \A o \in 0..data.size : IsFrame(data.frame[o])

EventsOf == [cb: {"record", "stream", "packet"}, at: Nat]

\* The fields of a parse, and the changes tide_parse_records makes to it.
LEMMA ParsedFields ==
  ASSUME NEW p \in Parsed
  PROVE  /\ p.status \in Status /\ p.valid_prefix \in Nat /\ p.tracks \in Seq(Track)
         /\ p.events \in Seq(EventsOf) /\ p.top \in Nat
         /\ \A s \in Status : [p EXCEPT !.status = s] \in Parsed
         /\ \A e \in Seq(EventsOf) : [p EXCEPT !.events = e] \in Parsed
         /\ \A t \in Seq(Track), e \in Seq(EventsOf) :
              [p EXCEPT !.tracks = t, !.events = e] \in Parsed
         /\ \A s \in Status, n \in Nat :
              [p EXCEPT !.status = s, !.valid_prefix = n] \in Parsed
         /\ \A n \in Nat, d \in Nat : MovedTo(p, n, d) \in Parsed
BY Zenon DEF Parsed, EventsOf, MovedTo

\* tide_process_record returns a status for every record that is no group.
LEMMA ProcessLeafParsed ==
  ASSUME NEW f, IsFrame(f), f.type # "GROUP", NEW o \in Nat, NEW lost,
         NEW seen \in Parsed
  PROVE  ProcessLeaf(f, o, lost, seen) \in Parsed
<1>1. /\ seen.tracks \in Seq(Track) /\ seen.events \in Seq(EventsOf)
      /\ \A s \in Status : [seen EXCEPT !.status = s] \in Parsed
      /\ \A e \in Seq(EventsOf) : [seen EXCEPT !.events = e] \in Parsed
      /\ \A t \in Seq(Track), e \in Seq(EventsOf) :
           [seen EXCEPT !.tracks = t, !.events = e] \in Parsed
  BY ParsedFields, Zenon
<1>2. \A cb \in {"stream", "packet"} :
        Append(seen.events, [cb |-> cb, at |-> o]) \in Seq(EventsOf)
  <2> TAKE cb \in {"stream", "packet"}
  <2>1. [cb |-> cb, at |-> o] \in EventsOf
    BY DEF EventsOf
  <2> QED BY <1>1, <2>1, AppendProperties, Zenon
<1>3. CASE f.type = "SKIPPABLE"
  BY <1>1, <1>3, Zenon DEF ProcessLeaf, SimpleType, Status
<1>4. CASE f.type = "UNKNOWN"
  BY <1>1, <1>4, Zenon DEF ProcessLeaf, SimpleType, Status
<1>5. CASE f.type \in SimpleType
  <2>1. tide_emit_simple_record(f, o, seen.tracks) \in Status
    BY <1>5, SimpleRecordStatus DEF BodyStatus, Status
  <2>2. ProcessLeaf(f, o, lost, seen)
          = [seen EXCEPT !.status = tide_emit_simple_record(f, o, seen.tracks)]
    BY <1>5 DEF ProcessLeaf, SimpleType
  <2> QED BY <1>1, <2>1, <2>2, Zenon
<1>6. CASE f.type = "STREAM_DESC"
  <2>1. Append(seen.tracks, f.body.track) \in Seq(Track)
    BY <1>1, <1>6, AppendProperties, Zenon DEF IsFrame
  <2> DEFINE added == [seen EXCEPT !.tracks = Append(@, f.body.track),
                                   !.events = Append(seen.events, [cb |-> "stream", at |-> o])]
  <2>2. added \in Parsed
    BY <1>1, <1>2, <2>1, Zenon
  <2>3. StreamDescStatus(f.body) \in Status
    BY DEF StreamDescStatus, Status
  <2>4. ProcessLeaf(f, o, lost, seen) \in
          {added} \cup {[seen EXCEPT !.status = s] : s \in {StreamDescStatus(f.body), "FORMAT",
                                                           "RESOURCE", "OK"}}
    BY <1>6 DEF ProcessLeaf, SimpleType
  <2> HIDE DEF added
  <2> QED BY <1>1, <2>2, <2>3, <2>4, Zenon DEF Status
<1>7. CASE f.type = "PACKET"
  <2> DEFINE emitted == [seen EXCEPT !.events = Append(seen.events, [cb |-> "packet", at |-> o])]
  <2>1. emitted \in Parsed
    BY <1>1, <1>2, Zenon
  <2>2. PacketStatus(f.body, seen.tracks) \in Status
    BY DEF PacketStatus, Status
  <2>3. ProcessLeaf(f, o, lost, seen) \in
          {emitted, [seen EXCEPT !.status = PacketStatus(f.body, seen.tracks)]}
    BY <1>7 DEF ProcessLeaf, SimpleType
  <2> HIDE DEF emitted
  <2> QED BY <1>1, <2>1, <2>2, <2>3, Zenon
<1> QED BY <1>3, <1>4, <1>5, <1>6, <1>7 DEF IsFrame, RecordType

\* How much a call has before it.
Ahead(data) == [a \in Calls(data) |-> IF a.cursor < a.end THEN a.end - a.cursor ELSE 0]

\* How much is ahead of a call is a number.
LEMMA AheadNat ==
  ASSUME NEW data, IsData(data)
  PROVE  Ahead(data) \in [Calls(data) -> Nat]
<1>1. \A a \in Calls(data) : (IF a.cursor < a.end THEN a.end - a.cursor ELSE 0) \in Nat
  BY DEF Calls, IsData
<1> QED BY <1>1 DEF Ahead

\* The calls that call a makes have less before them than a.
LEMMA CallsAhead ==
  ASSUME NEW data, IsData(data), NEW a \in Calls(data), a.cursor < a.end,
         NEW f, f = data.frame[a.cursor], CheckRecord(f, a.cursor, a.end) = "OK"
  PROVE  /\ IsFrame(f) /\ CrcEnd(f, a.cursor) \in Nat
         /\ a.cursor < CrcEnd(f, a.cursor) /\ CrcEnd(f, a.cursor) <= a.end
         /\ \A q \in Parsed : /\ NextCall(a, CrcEnd(f, a.cursor), q) \in Calls(data)
                              /\ Ahead(data)[NextCall(a, CrcEnd(f, a.cursor), q)]
                                   < Ahead(data)[a]
         /\ f.type = "GROUP" /\ GroupStatus(f, a.depth) = "OK" =>
              \A q \in Parsed : /\ ChildCall(f, a, q) \in Calls(data)
                               /\ Ahead(data)[ChildCall(f, a, q)] < Ahead(data)[a]
<1> DEFINE o == a.cursor
           next == CrcEnd(f, o)
<1>1. o \in 0..data.size /\ a.end \in 0..data.size /\ a.depth \in Nat /\ data.size \in Nat
  BY DEF Calls, IsData
<1>2. IsFrame(f)
  BY <1>1 DEF IsData
<1>3. /\ PayloadOffset(f, o) \in Nat /\ PayloadEnd(f, o) \in Nat /\ next \in Nat
      /\ o <= PayloadOffset(f, o) /\ PayloadEnd(f, o) = PayloadOffset(f, o) + f.payload_size
      /\ PayloadEnd(f, o) < next /\ next <= a.end /\ f.payload_size \in Nat
  <2>1. f.payload_size \in Nat
    BY <1>2 DEF IsFrame
  <2> QED BY <1>1, <1>2, <2>1, FrameBounds
<1>4. o < next /\ o < a.end /\ next \in 0..data.size
  BY <1>1, <1>3
<1>5. Ahead(data)[a] = a.end - o
  BY DEF Ahead
<1>6. ASSUME NEW q \in Parsed
      PROVE  /\ NextCall(a, next, q) \in Calls(data)
             /\ Ahead(data)[NextCall(a, next, q)] < Ahead(data)[a]
  <2> HIDE DEF next, o
  <2> DEFINE b == NextCall(a, next, q)
  <2>1. MovedTo(q, next, a.depth) \in Parsed
    BY <1>1, <1>3, ParsedFields, Zenon
  <2>2. b \in Calls(data) /\ b.cursor = next /\ b.end = a.end
    BY <1>1, <1>4, <2>1 DEF NextCall, Calls
  <2> HIDE DEF b
  <2>3. Ahead(data)[b] = IF next < a.end THEN a.end - next ELSE 0
    BY <2>2 DEF Ahead
  <2>4. Ahead(data)[b] < Ahead(data)[a]
    BY <1>1, <1>3, <1>4, <1>5, <2>3
  <2> QED BY <2>2, <2>4 DEF b
<1>7. ASSUME f.type = "GROUP", GroupStatus(f, a.depth) = "OK", NEW q \in Parsed
      PROVE  /\ ChildCall(f, a, q) \in Calls(data)
             /\ Ahead(data)[ChildCall(f, a, q)] < Ahead(data)[a]
  <2> DEFINE b == ChildCall(f, a, q)
             c == PayloadOffset(f, o) + TIDE_GROUP_META_SIZE
             e == PayloadEnd(f, o)
  <2>1. TIDE_GROUP_META_SIZE <= f.payload_size
    BY <1>3, <1>7, SizesAssumption DEF GroupStatus
  <2> HIDE DEF next
  <2>2. c \in 0..data.size /\ e \in 0..data.size /\ o < c /\ e < a.end /\ a.depth + 1 \in Nat
    BY <1>1, <1>3, <2>1, SizesAssumption
  <2>3. b = [cursor |-> c, end |-> e, depth |-> a.depth + 1, seen |-> q]
    BY DEF ChildCall
  <2> HIDE DEF b, c, e, o
  <2>4. b \in Calls(data) /\ b.cursor = c /\ b.end = e
    BY <2>2, <2>3 DEF Calls
  <2>5. Ahead(data)[b] = IF c < e THEN e - c ELSE 0
    BY <2>4 DEF Ahead
  <2>6. Ahead(data)[b] < Ahead(data)[a]
    BY <1>1, <1>4, <1>5, <2>2, <2>5
  <2> QED BY <2>4, <2>6 DEF b
<1> QED BY <1>2, <1>3, <1>4, <1>6, <1>7

\* The parse once on_record has been called for the record at o.
Called(p, o) == [p EXCEPT !.events = Append(@, [cb |-> "record", at |-> o])]

\* It is one.
LEMMA CalledParsed ==
  ASSUME NEW p \in Parsed, NEW o \in Nat
  PROVE  Called(p, o) \in Parsed
<1>1. [cb |-> "record", at |-> o] \in EventsOf
  BY DEF EventsOf
<1>2. p.events \in Seq(EventsOf)
  BY ParsedFields, Zenon
<1>3. Append(p.events, [cb |-> "record", at |-> o]) \in Seq(EventsOf)
  BY <1>1, <1>2, AppendProperties
<1> QED BY <1>3, ParsedFields, Zenon DEF Called

\* tide_process_record returns a status for every record.
LEMMA ProcessParsed ==
  ASSUME NEW data, IsData(data), NEW lost, NEW g \in [Calls(data) -> Parsed],
         NEW a \in Calls(data), a.cursor < a.end, NEW f, f = data.frame[a.cursor],
         CheckRecord(f, a.cursor, a.end) = "OK", NEW seen \in Parsed
  PROVE  Process(g, f, a, lost, seen) \in Parsed
<1>1. IsFrame(f) /\ a.cursor \in Nat
  BY DEF Calls, IsData
<1>2. CASE f.type # "GROUP"
  BY <1>1, <1>2, ProcessLeafParsed DEF Process
<1>3. CASE f.type = "GROUP" /\ GroupStatus(f, a.depth) # "OK"
  <2>1. GroupStatus(f, a.depth) \in Status
    BY DEF GroupStatus, Status
  <2> QED BY <1>3, <2>1, ParsedFields, Zenon DEF Process
<1>4. CASE f.type = "GROUP" /\ GroupStatus(f, a.depth) = "OK"
  <2>1. ChildCall(f, a, seen) \in Calls(data)
    BY <1>4, CallsAhead
  <2>2. g[ChildCall(f, a, seen)] \in Parsed
    BY <2>1
  <2> QED BY <1>4, <2>2, ParsedFields, Zenon DEF Process, OutOfGroup, Status
<1> QED BY <1>2, <1>3, <1>4

\* The record at the cursor of a call, and what its checks find.
At(data, a) == data.frame[a.cursor]
Check(data, a) == CheckRecord(At(data, a), a.cursor, a.end)

\* Every call returns a parse.
LEMMA ParseCallParsed ==
  ASSUME NEW data, IsData(data), NEW lost, NEW g \in [Calls(data) -> Parsed],
         NEW a \in Calls(data)
  PROVE  ParseCall(data, lost, g, a) \in Parsed
<1> DEFINE f == At(data, a)
           check == Check(data, a)
           next == CrcEnd(f, a.cursor)
           q == Process(g, f, a, lost, Called(a.seen, a.cursor))
<1>1. a.seen \in Parsed /\ a.cursor \in Nat /\ a.end \in Nat /\ IsFrame(f)
  BY DEF Calls, IsData, At
<1>2. CASE a.cursor >= a.end
  BY <1>1, <1>2, ParsedFields, Zenon DEF Status, ParseCall, At, Check
<1>3. CASE a.cursor < a.end /\ check = "TRUNCATED"
  BY <1>1, <1>3, ParsedFields, Zenon DEF Status, ParseCall, At, Check
<1>4. CASE a.cursor < a.end /\ check \notin {"OK", "TRUNCATED"}
  <2>1. check \in Status
    BY <1>1, CheckRecordStatus DEF Status, Check
  <2>2. ParseCall(data, lost, g, a) = [a.seen EXCEPT !.status = check]
    BY <1>1, <1>4 DEF ParseCall, At, Check
  <2> HIDE DEF check
  <2> QED BY <1>1, <2>1, <2>2, ParsedFields, Zenon
<1>5. CASE a.cursor < a.end /\ check = "OK"
  <2>1. q \in Parsed
    BY <1>1, <1>5, CalledParsed, ProcessParsed, Zenon DEF At, Check
  <2>2. ParseCall(data, lost, g, a) = Onward(g, a, next, q)
    BY <1>1, <1>5 DEF ParseCall, At, Check, Called
  <2> HIDE DEF q
  <2>3. NextCall(a, next, q) \in Calls(data)
    BY <1>5, <2>1, CallsAhead DEF At, Check
  <2> QED BY <2>1, <2>2, <2>3 DEF Onward
<1> QED BY <1>1, <1>2, <1>3, <1>4, <1>5

\* What a call returns depends on what calls with less before them return.
LEMMA ParseCallDescends ==
  ASSUME NEW data, IsData(data), NEW lost, NEW g \in [Calls(data) -> Parsed], NEW h,
         NEW a \in Calls(data),
         \A b \in Calls(data) : Ahead(data)[b] < Ahead(data)[a] => g[b] = h[b]
  PROVE  ParseCall(data, lost, g, a) = ParseCall(data, lost, h, a)
<1> DEFINE f == At(data, a)
           check == Check(data, a)
           called == Called(a.seen, a.cursor)
           next == CrcEnd(f, a.cursor)
           q(p) == Process(p, f, a, lost, called)
<1>1. a.cursor \in Nat /\ a.end \in Nat /\ called \in Parsed
  BY CalledParsed DEF Calls
<1>2. CASE a.cursor >= a.end \/ check # "OK"
  BY <1>1, <1>2 DEF ParseCall, At, Check
<1>3. CASE a.cursor < a.end /\ check = "OK"
  <2>1. /\ ParseCall(data, lost, g, a) = Onward(g, a, next, q(g))
        /\ ParseCall(data, lost, h, a) = Onward(h, a, next, q(h))
    BY <1>1, <1>3 DEF ParseCall, At, Check, Called
  <2> HIDE DEF called
  <2>2. q(g) = q(h)
    <3>1. CASE f.type # "GROUP" \/ GroupStatus(f, a.depth) # "OK"
      BY <3>1 DEF Process
    <3>2. CASE f.type = "GROUP" /\ GroupStatus(f, a.depth) = "OK"
      <4>1. /\ ChildCall(f, a, called) \in Calls(data)
            /\ Ahead(data)[ChildCall(f, a, called)] < Ahead(data)[a]
        BY <1>1, <1>3, <3>2, CallsAhead DEF At, Check
      <4>2. g[ChildCall(f, a, called)] = h[ChildCall(f, a, called)]
        BY <4>1
      <4> QED BY <3>2, <4>2 DEF Process
    <3> QED BY <3>1, <3>2
  <2>3. q(g) \in Parsed
    BY <1>1, <1>3, ProcessParsed, Zenon DEF At, Check
  <2> HIDE DEF q
  <2>4. /\ NextCall(a, next, q(g)) \in Calls(data)
        /\ Ahead(data)[NextCall(a, next, q(g))] < Ahead(data)[a]
    BY <1>3, <2>3, CallsAhead DEF At, Check
  <2>5. g[NextCall(a, next, q(g))] = h[NextCall(a, next, q(g))]
    BY <2>4
  <2> QED BY <2>1, <2>2, <2>5 DEF Onward
<1> QED BY <1>1, <1>2, <1>3

\* The parser is defined by its recursion: tide_parse_records returns for every byte
\* stream and every call what its body makes of what its own calls return.
THEOREM ParseUnfolds ==
  ASSUME NEW data, IsData(data), NEW lost
  PROVE  LET parse == tide_parse_records(data, lost)
         IN  /\ parse \in [Calls(data) -> Parsed]
             /\ \A a \in Calls(data) : parse[a] = ParseCall(data, lost, parse, a)
<1> DEFINE D == Calls(data)
           B == [g \in [D -> Parsed] |-> [a \in D |-> ParseCall(data, lost, g, a)]]
           M == Ahead(data)
           parse == tide_parse_records(data, lost)
<1>1. B \in [[D -> Parsed] -> [D -> Parsed]]
  BY ParseCallParsed
<1>2. M \in [D -> Nat]
  BY AheadNat
<1>3. Descends(B, M, D, Parsed)
  <2> SUFFICES ASSUME NEW g \in [D -> Parsed], NEW h \in [D -> Parsed], NEW a \in D,
                      \A b \in D : M[b] < M[a] => g[b] = h[b]
               PROVE  B[g][a] = B[h][a]
    BY Zenon DEF Descends
  <2>1. ParseCall(data, lost, g, a) = ParseCall(data, lost, h, a)
    BY ParseCallDescends
  <2> QED BY <2>1
<1>4. Unparsed(0) \in Parsed
  BY EmptySeq DEF Unparsed, Parsed, Status
<1>5. PICK g \in [D -> Parsed] : g = B[g]
  <2>1. Parsed # {}
    BY <1>4
  <2> HIDE DEF B, M, D
  <2>2. HasSolution(B, D, Parsed)
    BY <1>1, <1>2, <1>3, <2>1, RecursiveFunction, Zenon
  <2> QED BY <2>2 DEF HasSolution
<1>6. g = [a \in D |-> ParseCall(data, lost, g, a)]
  BY <1>5
<1>7. parse = [a \in D |-> ParseCall(data, lost, parse, a)]
  BY <1>6, Zenon DEF tide_parse_records
<1>8. \A a \in D : parse[a] = g[a]
  <2> DEFINE X == {a \in D : parse[a] # g[a]}
  <2> SUFFICES ASSUME X # {} PROVE FALSE
    OBVIOUS
  <2>1. PICK a \in X : \A b \in X : M[a] <= M[b]
    <3>1. X \in SUBSET D
      OBVIOUS
    <3> HIDE DEF X, D, M
    <3> QED BY <1>2, <3>1, LeastMeasure
  <2>2. \A b \in D : M[b] < M[a] => g[b] = parse[b]
    <3> SUFFICES ASSUME NEW b \in D, M[b] < M[a], g[b] # parse[b] PROVE FALSE
      OBVIOUS
    <3>1. M[a] \in Nat /\ M[b] \in Nat
      BY <1>2
    <3> HIDE DEF M
    <3> QED BY <2>1, <3>1
  <2>3. ParseCall(data, lost, g, a) = ParseCall(data, lost, parse, a)
    <3> HIDE DEF parse
    <3> QED BY <2>2, ParseCallDescends
  <2>4. a \in D /\ parse[a] # g[a]
    OBVIOUS
  <2> HIDE DEF parse, D
  <2> QED BY <1>6, <1>7, <2>3, <2>4
<1> HIDE DEF parse, D
<1>9. parse \in [D -> Parsed]
  BY <1>7, <1>8
<1> QED BY <1>7, <1>9 DEF parse, D

\* p with status s, and stopped at a record that is incomplete.
WithStatus(p, s) == [p EXCEPT !.status = s]
TruncatedAt(p, o) == [p EXCEPT !.status = "TRUNCATED", !.valid_prefix = o]

\* The cases of a call: its window is done,
LEMMA CallDone ==
  ASSUME NEW data, IsData(data), NEW lost, NEW a \in Calls(data), a.cursor = a.end
  PROVE  tide_parse_records(data, lost)[a] = WithStatus(a.seen, "OK")
<1> DEFINE parse == tide_parse_records(data, lost)
<1>1. parse[a] = ParseCall(data, lost, parse, a) /\ a.cursor \in Nat
  BY ParseUnfolds DEF Calls
<1> HIDE DEF parse
<1>2. parse[a] = WithStatus(a.seen, "OK")
  BY <1>1 DEF ParseCall, WithStatus
<1> QED BY <1>2 DEF parse

\* the record at its cursor is incomplete or rejected,
LEMMA CallStops ==
  ASSUME NEW data, IsData(data), NEW lost, NEW a \in Calls(data), a.cursor < a.end,
         Check(data, a) # "OK"
  PROVE  tide_parse_records(data, lost)[a] =
           IF Check(data, a) = "TRUNCATED"
           THEN TruncatedAt(a.seen, a.cursor)
           ELSE WithStatus(a.seen, Check(data, a))
<1> DEFINE parse == tide_parse_records(data, lost)
<1>1. parse[a] = ParseCall(data, lost, parse, a) /\ a.cursor \in Nat /\ a.end \in Nat
  BY ParseUnfolds DEF Calls
<1> HIDE DEF parse
<1>2. parse[a] = IF Check(data, a) = "TRUNCATED"
                 THEN TruncatedAt(a.seen, a.cursor)
                 ELSE WithStatus(a.seen, Check(data, a))
  BY <1>1 DEF ParseCall, At, Check, WithStatus, TruncatedAt
<1> QED BY <1>2 DEF parse

\* or it goes on with what processing that record led to.
LEMMA CallGoesOn ==
  ASSUME NEW data, IsData(data), NEW lost, NEW a \in Calls(data), a.cursor < a.end,
         Check(data, a) = "OK"
  PROVE  tide_parse_records(data, lost)[a] =
           Onward(tide_parse_records(data, lost), a, CrcEnd(At(data, a), a.cursor),
                  Process(tide_parse_records(data, lost), At(data, a), a, lost,
                          Called(a.seen, a.cursor)))
<1> DEFINE parse == tide_parse_records(data, lost)
<1>1. parse[a] = ParseCall(data, lost, parse, a) /\ a.cursor \in Nat /\ a.end \in Nat
  BY ParseUnfolds DEF Calls
<1> HIDE DEF parse
<1>2. parse[a] = Onward(parse, a, CrcEnd(At(data, a), a.cursor),
                        Process(parse, At(data, a), a, lost, Called(a.seen, a.cursor)))
  BY <1>1 DEF ParseCall, Called, At, Check
<1> QED BY <1>2 DEF parse

------------------------------------------------------------------------------
(* Induction over a parse *)

\* What processing the record at the cursor of call a may lead to when T says what
\* calls may return.
MayLeadTo(T, f, a, lost, seen) ==
  IF f.type # "GROUP" THEN {ProcessLeaf(f, a.cursor, lost, seen)}
  ELSE IF GroupStatus(f, a.depth) # "OK" THEN {WithStatus(seen, GroupStatus(f, a.depth))}
  ELSE {OutOfGroup(r) : r \in T[ChildCall(f, a, seen)]}

\* Call a may return what T says if the calls it makes may.
ClosedAt(data, lost, T, a) ==
  /\ a.cursor >= a.end =>
       WithStatus(a.seen, IF a.cursor = a.end THEN "OK" ELSE "FORMAT") \in T[a]
  /\ a.cursor < a.end /\ Check(data, a) # "OK" =>
       (IF Check(data, a) = "TRUNCATED" THEN TruncatedAt(a.seen, a.cursor)
        ELSE WithStatus(a.seen, Check(data, a))) \in T[a]
  /\ a.cursor < a.end /\ Check(data, a) = "OK" =>
       \A q \in MayLeadTo(T, At(data, a), a, lost, Called(a.seen, a.cursor)) :
         /\ q.status # "OK" => q \in T[a]
         /\ q.status = "OK" =>
              T[NextCall(a, CrcEnd(At(data, a), a.cursor), q)] \subseteq T[a]

\* Then every call returns what T says.
LEMMA ParseInduction ==
  ASSUME NEW data, IsData(data), NEW lost, NEW T \in [Calls(data) -> SUBSET Parsed],
         \A a \in Calls(data) : ClosedAt(data, lost, T, a), NEW a0 \in Calls(data)
  PROVE  tide_parse_records(data, lost)[a0] \in T[a0]
<1> DEFINE parse == tide_parse_records(data, lost)
           X == {a \in Calls(data) : parse[a] \notin T[a]}
<1> SUFFICES ASSUME X # {} PROVE FALSE
  OBVIOUS
<1>1. PICK a \in X : \A b \in X : Ahead(data)[a] <= Ahead(data)[b]
  <2>1. X \in SUBSET Calls(data)
    OBVIOUS
  <2>2. Ahead(data) \in [Calls(data) -> Nat]
    BY AheadNat
  <2> HIDE DEF X
  <2> QED BY <2>1, <2>2, LeastMeasure
<1>2. a \in Calls(data) /\ parse[a] \notin T[a]
  OBVIOUS
<1>3. ASSUME NEW b \in Calls(data), Ahead(data)[b] < Ahead(data)[a] PROVE parse[b] \in T[b]
  <2>1. Ahead(data)[a] \in Nat /\ Ahead(data)[b] \in Nat
    BY <1>2, AheadNat
  <2>2. b \notin X
    <3> HIDE DEF X
    <3> QED BY <1>1, <1>3, <2>1
  <2> QED BY <2>2
<1> HIDE DEF X
<1>4. a.seen \in Parsed /\ a.cursor \in Nat /\ a.end \in Nat
  BY <1>2 DEF Calls, IsData
<1>5. parse \in [Calls(data) -> Parsed] /\ parse[a] = ParseCall(data, lost, parse, a)
  BY <1>2, ParseUnfolds
<1>6. ClosedAt(data, lost, T, a)
  BY <1>2
<1>7. CASE a.cursor >= a.end
  <2>1. parse[a] = WithStatus(a.seen, IF a.cursor = a.end THEN "OK" ELSE "FORMAT")
    <3> HIDE DEF parse
    <3> QED BY <1>4, <1>5, <1>7 DEF ParseCall, WithStatus
  <2> HIDE DEF parse
  <2> QED BY <1>2, <1>6, <1>7, <2>1 DEF ClosedAt
<1>8. CASE a.cursor < a.end /\ Check(data, a) # "OK"
  <2>1. parse[a] = IF Check(data, a) = "TRUNCATED" THEN TruncatedAt(a.seen, a.cursor)
                   ELSE WithStatus(a.seen, Check(data, a))
    BY <1>2, <1>8, CallStops
  <2> HIDE DEF parse
  <2> QED BY <1>2, <1>6, <1>8, <2>1 DEF ClosedAt
<1>9. CASE a.cursor < a.end /\ Check(data, a) = "OK"
  <2> DEFINE f == At(data, a)
             called == Called(a.seen, a.cursor)
             next == CrcEnd(f, a.cursor)
             q == Process(parse, f, a, lost, called)
  <2>1. parse[a] = Onward(parse, a, next, q)
    BY <1>2, <1>9, CallGoesOn
  <2>2. called \in Parsed
    BY <1>4, CalledParsed
  <2> HIDE DEF called
  <2>3. /\ IsFrame(f) /\ \A p \in Parsed : NextCall(a, next, p) \in Calls(data)
                                        /\ Ahead(data)[NextCall(a, next, p)] < Ahead(data)[a]
        /\ f.type = "GROUP" /\ GroupStatus(f, a.depth) = "OK" =>
             /\ ChildCall(f, a, called) \in Calls(data)
             /\ Ahead(data)[ChildCall(f, a, called)] < Ahead(data)[a]
    BY <1>2, <1>9, <2>2, CallsAhead DEF At, Check
  <2> HIDE DEF parse
  <2>4. q \in Parsed
    BY <1>2, <1>5, <1>9, <2>2, ProcessParsed, Zenon DEF At, Check
  <2> HIDE DEF f
  <2>5. q \in MayLeadTo(T, f, a, lost, called)
    <3>1. CASE f.type # "GROUP"
      BY <3>1 DEF Process, MayLeadTo
    <3>2. CASE f.type = "GROUP" /\ GroupStatus(f, a.depth) # "OK"
      BY <3>2 DEF Process, MayLeadTo, WithStatus
    <3>3. CASE f.type = "GROUP" /\ GroupStatus(f, a.depth) = "OK"
      <4>1. q = OutOfGroup(parse[ChildCall(f, a, called)])
        BY <3>3 DEF Process
      <4>2. parse[ChildCall(f, a, called)] \in T[ChildCall(f, a, called)]
        BY <1>3, <2>3, <3>3
      <4> HIDE DEF q
      <4> QED BY <3>3, <4>1, <4>2 DEF MayLeadTo
    <3> QED BY <3>1, <3>2, <3>3
  <2> HIDE DEF q, next
  <2>6. /\ q.status # "OK" => q \in T[a]
        /\ q.status = "OK" => T[NextCall(a, next, q)] \subseteq T[a]
    BY <1>6, <1>9, <2>5 DEF ClosedAt, called, f, next
  <2>7. q.status = "OK" => parse[NextCall(a, next, q)] \in T[NextCall(a, next, q)]
    BY <1>3, <2>3, <2>4
  <2> QED BY <1>2, <2>1, <2>6, <2>7 DEF Onward
<1> QED BY <1>4, <1>7, <1>8, <1>9

------------------------------------------------------------------------------
(* Callbacks are made for the records of the stream *)

\* A body that is read as a record of the given type, whatever tracks there are.
ReadsAs(type, body) ==
  /\ type = "STREAM_DESC" => StreamDescStatus(body) = "OK"
  /\ type = "PACKET" => body.layout /\ ~(body.duration < 0)

\* The callback is for a record of data of its kind.
EventSound(data, e) ==
  /\ e.at \in 0..data.size
  /\ e.cb = "stream" => /\ data.frame[e.at].type = "STREAM_DESC"
                        /\ ReadsAs("STREAM_DESC", data.frame[e.at].body)
  /\ e.cb = "packet" => /\ data.frame[e.at].type = "PACKET"
                        /\ ReadsAs("PACKET", data.frame[e.at].body)
Sound(data, p) ==
  /\ p.valid_prefix <= data.size
  /\ \A i \in 1..Len(p.events) : EventSound(data, p.events[i])

\* One more callback.
LEMMA SoundAppend ==
  ASSUME NEW data, NEW p \in Parsed, Sound(data, p), NEW e \in EventsOf,
         EventSound(data, e), NEW q, q.valid_prefix = p.valid_prefix,
         q.events = Append(p.events, e)
  PROVE  Sound(data, q)
<1>1. p.events \in Seq(EventsOf)
  BY ParsedFields, Zenon
<1>2. Len(q.events) = Len(p.events) + 1 /\ Len(p.events) \in Nat
      /\ q.events[Len(p.events) + 1] = e
      /\ \A i \in 1..Len(p.events) : q.events[i] = p.events[i]
  BY <1>1, AppendProperties
<1>3. \A i \in 1..Len(q.events) : i \in 1..Len(p.events) \/ i = Len(p.events) + 1
  BY <1>2
<1> QED BY <1>2, <1>3 DEF Sound

\* The callbacks for a record that is no group are for this record.
LEMMA LeafSound ==
  ASSUME NEW data, NEW o \in 0..data.size, data.size \in Nat, NEW f, f = data.frame[o],
         IsFrame(f), f.type # "GROUP", NEW lost, NEW seen \in Parsed, Sound(data, seen)
  PROVE  Sound(data, ProcessLeaf(f, o, lost, seen))
<1> DEFINE r == ProcessLeaf(f, o, lost, seen)
           s == [cb |-> "stream", at |-> o]
           k == [cb |-> "packet", at |-> o]
<1>1. f.type \in {"SKIPPABLE", "UNKNOWN", "STREAM_DESC", "PACKET"} \cup SimpleType
  BY DEF IsFrame, RecordType
<1>2. /\ r.valid_prefix = seen.valid_prefix
      /\ \/ r.events = seen.events
         \/ /\ r.events = Append(seen.events, s) /\ f.type = "STREAM_DESC"
            /\ StreamDescStatus(f.body) = "OK"
         \/ /\ r.events = Append(seen.events, k) /\ f.type = "PACKET"
            /\ PacketStatus(f.body, seen.tracks) = "OK"
  BY <1>1, Zenon DEF ProcessLeaf, Parsed, SimpleType
<1>3. s \in EventsOf /\ k \in EventsOf
  BY DEF EventsOf
<1>4. /\ f.type = "STREAM_DESC" /\ StreamDescStatus(f.body) = "OK" => EventSound(data, s)
      /\ f.type = "PACKET" /\ PacketStatus(f.body, seen.tracks) = "OK" => EventSound(data, k)
  BY DEF EventSound, ReadsAs, PacketStatus
<1> HIDE DEF r, s, k
<1>5. ASSUME r.events = seen.events PROVE Sound(data, r)
  BY <1>2, <1>5 DEF Sound
<1>6. ASSUME r.events = Append(seen.events, s), f.type = "STREAM_DESC",
             StreamDescStatus(f.body) = "OK"
      PROVE  Sound(data, r)
  BY <1>2, <1>3, <1>4, <1>6, SoundAppend
<1>7. ASSUME r.events = Append(seen.events, k), f.type = "PACKET",
             PacketStatus(f.body, seen.tracks) = "OK"
      PROVE  Sound(data, r)
  BY <1>2, <1>3, <1>4, <1>7, SoundAppend
<1>8. Sound(data, r)
  BY <1>2, <1>5, <1>6, <1>7
<1> QED BY <1>8 DEF r

\* A parse calls back for records of the stream, and what it finds valid is a part
\* of the stream.
LEMMA ParseSound ==
  ASSUME NEW data, IsData(data), NEW lost, NEW a0 \in Calls(data), Sound(data, a0.seen)
  PROVE  Sound(data, tide_parse_records(data, lost)[a0])
<1> DEFINE T == [a \in Calls(data) |-> {r \in Parsed : Sound(data, a.seen) => Sound(data, r)}]
<1>1. T \in [Calls(data) -> SUBSET Parsed]
  OBVIOUS
<1>2. ASSUME NEW a \in Calls(data) PROVE ClosedAt(data, lost, T, a)
  <2> DEFINE f == At(data, a)
             c == Called(a.seen, a.cursor)
             next == CrcEnd(f, a.cursor)
  <2>1. /\ a.seen \in Parsed /\ a.cursor \in 0..data.size /\ a.end \in 0..data.size
        /\ data.size \in Nat
    BY DEF Calls, IsData
  <2>2. \A st \in Status : WithStatus(a.seen, st) \in T[a]
    <3> SUFFICES ASSUME NEW st \in Status PROVE WithStatus(a.seen, st) \in T[a]
      OBVIOUS
    <3>1. WithStatus(a.seen, st) \in Parsed
      BY <2>1, ParsedFields, Zenon DEF WithStatus
    <3>2. Sound(data, a.seen) => Sound(data, WithStatus(a.seen, st))
      BY <2>1 DEF Sound, WithStatus, Parsed
    <3> QED BY <3>1, <3>2
  <2>3. TruncatedAt(a.seen, a.cursor) \in T[a]
    <3>1. TruncatedAt(a.seen, a.cursor) \in Parsed
      <4>1. a.cursor \in Nat /\ "TRUNCATED" \in Status
        BY <2>1 DEF Status
      <4> QED BY <2>1, <4>1, Zenon DEF TruncatedAt, Parsed
    <3>2. Sound(data, a.seen) => Sound(data, TruncatedAt(a.seen, a.cursor))
      BY <2>1 DEF Sound, TruncatedAt, Parsed
    <3> QED BY <3>1, <3>2
  <2>4. ASSUME a.cursor < a.end, Check(data, a) = "OK", NEW q \in MayLeadTo(T, f, a, lost, c)
        PROVE  /\ q.status # "OK" => q \in T[a]
               /\ q.status = "OK" => T[NextCall(a, next, q)] \subseteq T[a]
    <3>1. c \in Parsed
      BY <2>1, CalledParsed
    <3>2. Sound(data, a.seen) => Sound(data, c)
      <4> SUFFICES ASSUME Sound(data, a.seen) PROVE Sound(data, c)
        OBVIOUS
      <4> DEFINE e == [cb |-> "record", at |-> a.cursor]
      <4>1. e \in EventsOf /\ EventSound(data, e)
        BY <2>1 DEF EventsOf, EventSound
      <4>2. c.events = Append(a.seen.events, e) /\ c.valid_prefix = a.seen.valid_prefix
        BY <2>1 DEF Called, Parsed
      <4> HIDE DEF c, e
      <4> QED BY <2>1, <4>1, <4>2, SoundAppend, Zenon
    <3> HIDE DEF c
    <3>3. /\ IsFrame(f) /\ next \in Nat /\ next <= a.end
          /\ \A p \in Parsed : NextCall(a, next, p) \in Calls(data)
          /\ f.type = "GROUP" /\ GroupStatus(f, a.depth) = "OK" =>
               ChildCall(f, a, c) \in Calls(data)
      BY <2>4, <3>1, CallsAhead DEF At, Check
    <3>4. f = data.frame[a.cursor]
      BY DEF At
    <3> HIDE DEF f, next
    <3>5. q \in Parsed /\ (Sound(data, c) => Sound(data, q))
      <4>1. CASE f.type # "GROUP"
        <5>1. q = ProcessLeaf(f, a.cursor, lost, c)
          BY <2>4, <4>1 DEF MayLeadTo
        <5>2. q \in Parsed
          BY <2>1, <3>1, <3>3, <4>1, <5>1, ProcessLeafParsed
        <5>3. Sound(data, c) => Sound(data, q)
          BY <2>1, <3>1, <3>3, <3>4, <4>1, <5>1, LeafSound
        <5> QED BY <5>2, <5>3
      <4>2. CASE f.type = "GROUP" /\ GroupStatus(f, a.depth) # "OK"
        <5>1. q = WithStatus(c, GroupStatus(f, a.depth))
          BY <2>4, <4>2 DEF MayLeadTo
        <5>2. GroupStatus(f, a.depth) \in Status
          BY DEF GroupStatus, Status
        <5>3. q \in Parsed
          BY <3>1, <5>1, <5>2, ParsedFields, Zenon DEF WithStatus
        <5>4. q.valid_prefix = c.valid_prefix /\ q.events = c.events
          BY <3>1, <5>1 DEF WithStatus, Parsed
        <5> QED BY <5>3, <5>4 DEF Sound
      <4>3. CASE f.type = "GROUP" /\ GroupStatus(f, a.depth) = "OK"
        <5> DEFINE child == ChildCall(f, a, c)
        <5>1. PICK r \in T[child] : q = OutOfGroup(r)
          BY <2>4, <4>3 DEF MayLeadTo
        <5>2. child.seen = c /\ child \in Calls(data)
          BY <3>3, <4>3 DEF ChildCall
        <5> HIDE DEF child
        <5>3. r \in Parsed /\ (Sound(data, c) => Sound(data, r))
          BY <5>1, <5>2
        <5>4. q \in Parsed /\ q.valid_prefix = r.valid_prefix /\ q.events = r.events
          BY <5>1, <5>3, Zenon DEF OutOfGroup, Parsed, Status
        <5> QED BY <5>3, <5>4 DEF Sound
      <4> QED BY <4>1, <4>2, <4>3
    <3>6. ASSUME q.status = "OK", NEW r \in T[NextCall(a, next, q)] PROVE r \in T[a]
      <4> DEFINE b == NextCall(a, next, q)
      <4>1. b \in Calls(data) /\ b.seen.valid_prefix = next /\ b.seen.events = q.events
        BY <3>3, <3>5, Zenon DEF NextCall, MovedTo, Parsed
      <4> HIDE DEF b
      <4>2. r \in Parsed /\ (Sound(data, b.seen) => Sound(data, r))
        BY <3>6, <4>1 DEF b
      <4>3. Sound(data, q) => Sound(data, b.seen)
        BY <2>1, <3>3, <4>1 DEF Sound
      <4> QED BY <3>2, <3>5, <4>2, <4>3
    <3>7. q \in T[a]
      BY <3>2, <3>5
    <3> HIDE DEF T
    <3> QED BY <3>6, <3>7
  <2>5. Check(data, a) \in Status /\ "OK" \in Status /\ "FORMAT" \in Status
    <3>1. IsFrame(data.frame[a.cursor])
      BY <2>1 DEF IsData
    <3> QED BY <3>1, CheckRecordStatus DEF Check, At, Status
  <2> HIDE DEF T, f, c, next
  <2> QED BY <2>2, <2>3, <2>4, <2>5 DEF ClosedAt, f, c, next
<1>3. tide_parse_records(data, lost)[a0] \in T[a0]
  <2> HIDE DEF T
  <2> QED BY <1>1, <1>2, ParseInduction
<1> QED BY <1>3

------------------------------------------------------------------------------
(* What the activations of a parse lead to *)

\* The window of activation i when n bytes are given: the outermost one ends there.
EndOf(st, i, n) == IF i = 1 THEN n ELSE st[i].end

\* The call that goes on in activation i of st after p.
LevelCall(st, i, n, p) ==
  [cursor |-> st[i].cursor, end |-> EndOf(st, i, n), depth |-> i - 1, seen |-> p]

\* What activation i returns when the records of the group at its cursor led to q.
AfterGroup(data, st, i, n, q) ==
  Onward(tide_parse_records(data, {}), LevelCall(st, i, n, q),
         CrcEnd(data.frame[st[i].cursor], st[i].cursor), OutOfGroup(q))

\* R says what each activation of st returns, the innermost one going on after p.
Returns(data, st, n, p, R) ==
  /\ R \in [1..Len(st) -> Parsed]
  /\ R[Len(st)] = tide_parse_records(data, {})[LevelCall(st, Len(st), n, p)]
  /\ \A i \in 1..(Len(st) - 1) : R[i] = AfterGroup(data, st, i, n, R[i + 1])

\* The activations of st, the innermost one going on after p, lead to whole.
LeadsTo(data, st, n, p, whole) == \E R : Returns(data, st, n, p, R) /\ R[1] = whole

\* m is st with activation level, which becomes the innermost one, moved to next.
IsMoved(st, level, next, m) ==
  /\ m \in Seq(Activation) /\ Len(m) = level
  /\ \A i \in 1..(level - 1) : m[i] = st[i]
  /\ m[level].cursor = next /\ m[level].end = st[level].end

\* The stack that Advance leaves.
LEMMA MovedStack ==
  ASSUME NEW st \in Seq(Activation), NEW level \in 1..Len(st), NEW next \in Nat,
         NEW m, m = [i \in 1..level |-> IF i = level THEN [st[i] EXCEPT !.cursor = next]
                                       ELSE st[i]]
  PROVE  IsMoved(st, level, next, m)
<1>1. \A i \in 1..Len(st) : st[i] \in Activation
  BY ElementOfSeq
<1>2. level \in Nat \ {0} /\ level <= Len(st)
  BY LenProperties
<1>3. \A i \in 1..level : i \in 1..Len(st)
  BY <1>2
<1>4. m \in [1..level -> Activation]
  BY <1>1, <1>3, Zenon DEF Activation
<1>5. m \in Seq(Activation) /\ Len(m) = level
  <2>1. m \in Seq(Activation)
    BY <1>2, <1>4, SeqDef
  <2> QED BY <1>2, <1>4, <2>1, LenProperties
<1>6. st[level] \in Activation
  BY <1>1
<1>7. m[level] = [st[level] EXCEPT !.cursor = next]
  BY <1>2
<1>8. \A i \in 1..(level - 1) : m[i] = st[i]
  BY <1>2
<1> QED BY <1>5, <1>6, <1>7, <1>8 DEF Activation, IsMoved

\* A single activation leads to what its call returns.
LEMMA OneActivation ==
  ASSUME NEW data, IsData(data), NEW st \in Seq(Activation), Len(st) = 1, NEW n,
         NEW p \in Parsed, LevelCall(st, 1, n, p) \in Calls(data), NEW whole
  PROVE  LeadsTo(data, st, n, p, whole)
           <=> whole = tide_parse_records(data, {})[LevelCall(st, 1, n, p)]
<1> DEFINE r == tide_parse_records(data, {})[LevelCall(st, 1, n, p)]
<1>1. r \in Parsed
  BY ParseUnfolds
<1> HIDE DEF r
<1>2. [i \in 1..1 |-> r] \in [1..Len(st) -> Parsed] /\ [i \in 1..1 |-> r][1] = r
  BY <1>1
<1>3. Returns(data, st, n, p, [i \in 1..1 |-> r])
  BY <1>2 DEF Returns, r
<1>4. ASSUME NEW R, Returns(data, st, n, p, R) PROVE R[1] = r
  BY <1>4 DEF Returns, r
<1> QED BY <1>2, <1>3, <1>4 DEF LeadsTo, r

\* The activations below the innermost one do the same after it moved.
LEMMA ReturnsAfterMove ==
  ASSUME NEW data, NEW st \in Seq(Activation), NEW n, NEW p, NEW q, NEW m, NEW next,
         NEW R, Returns(data, st, n, p, R), IsMoved(st, Len(st), next, m),
         tide_parse_records(data, {})[LevelCall(st, Len(st), n, p)]
           = tide_parse_records(data, {})[LevelCall(m, Len(st), n, q)]
  PROVE  Returns(data, m, n, q, R)
<1>1. Len(st) \in Nat /\ Len(m) = Len(st)
  BY LenProperties DEF IsMoved
<1>2. R \in [1..Len(m) -> Parsed]
      /\ R[Len(m)] = tide_parse_records(data, {})[LevelCall(m, Len(m), n, q)]
  BY <1>1 DEF Returns
<1>3. ASSUME NEW i \in 1..(Len(m) - 1) PROVE R[i] = AfterGroup(data, m, i, n, R[i + 1])
  <2>1. i \in 1..(Len(st) - 1) /\ m[i] = st[i]
    BY <1>1, <1>3 DEF IsMoved
  <2>2. R[i] = AfterGroup(data, st, i, n, R[i + 1])
    BY <2>1 DEF Returns
  <2> QED BY <2>1, <2>2 DEF AfterGroup, LevelCall, EndOf
<1> QED BY <1>2, <1>3 DEF Returns

\* a is the call in which the innermost activation of st goes on to whole.
GoesTo(data, st, n, p, whole, a) ==
  /\ IsData(data) /\ st \in Seq(Activation) /\ st # <<>> /\ p \in Parsed
  /\ a \in Calls(data) /\ a = LevelCall(st, Len(st), n, p)
  /\ LeadsTo(data, st, n, p, whole)

\* It passes a record that is no group, which returns r, and the stack becomes m,
PassesLeaf(data, st, p, a, r, next, m) ==
  /\ a.cursor < a.end /\ Check(data, a) = "OK" /\ At(data, a).type # "GROUP"
  /\ r = ProcessLeaf(At(data, a), a.cursor, {}, Called(p, a.cursor)) /\ r.status = "OK"
  /\ next = CrcEnd(At(data, a), a.cursor) /\ IsMoved(st, Len(st), next, m)

\* or enters the group f with the activation child,
EntersGroup(data, a, f, child) ==
  /\ a.cursor < a.end /\ Check(data, a) = "OK"
  /\ f = At(data, a) /\ f.type = "GROUP" /\ GroupStatus(f, a.depth) = "OK"
  /\ child \in Activation
  /\ child.cursor = PayloadOffset(f, a.cursor) + TIDE_GROUP_META_SIZE
  /\ child.end = PayloadEnd(f, a.cursor)

\* or is done, and the activation around it moves past the group.
LeavesGroup(data, st, p, a, next, m) ==
  LET o == st[Len(st) - 1].cursor
  IN  /\ Len(st) > 1 /\ p.status = "OK" /\ a.cursor = a.end
      /\ next = CrcEnd(data.frame[o], o) /\ IsMoved(st, Len(st) - 1, next, m)

\* The innermost activation passes a record that is no group.
LEMMA LeafPassed ==
  ASSUME NEW data, NEW st, NEW n, NEW p, NEW whole, NEW a, NEW r, NEW next, NEW m,
         GoesTo(data, st, n, p, whole, a), PassesLeaf(data, st, p, a, r, next, m)
  PROVE  LeadsTo(data, m, n, MovedTo(r, next, Len(st) - 1), whole)
<1> /\ IsData(data) /\ st \in Seq(Activation) /\ p \in Parsed
    /\ LeadsTo(data, st, n, p, whole) /\ a \in Calls(data) /\ a = LevelCall(st, Len(st), n, p)
  BY DEF GoesTo
<1> /\ a.cursor < a.end /\ Check(data, a) = "OK" /\ At(data, a).type # "GROUP"
    /\ r = ProcessLeaf(At(data, a), a.cursor, {}, Called(p, a.cursor)) /\ r.status = "OK"
    /\ next = CrcEnd(At(data, a), a.cursor) /\ IsMoved(st, Len(st), next, m)
  BY DEF PassesLeaf
<1> DEFINE parse == tide_parse_records(data, {})
           b == LevelCall(m, Len(st), n, MovedTo(r, next, Len(st) - 1))
<1>1. PICK R : Returns(data, st, n, p, R) /\ R[1] = whole
  BY DEF LeadsTo
<1>2. parse[a] = Onward(parse, a, next, Process(parse, At(data, a), a, {}, Called(a.seen, a.cursor)))
  BY CallGoesOn, Zenon
<1>3. a.end = EndOf(st, Len(st), n) /\ a.depth = Len(st) - 1 /\ a.seen = p
  BY Zenon DEF LevelCall
<1>4. parse[a] = parse[NextCall(a, next, r)]
  BY <1>2, <1>3 DEF Onward, Process
<1>5. NextCall(a, next, r) = b
  BY <1>3, Zenon DEF NextCall, LevelCall, IsMoved, EndOf
<1>6. PICK q : q = MovedTo(r, next, Len(st) - 1)
  OBVIOUS
<1>7. tide_parse_records(data, {})[LevelCall(st, Len(st), n, p)]
        = tide_parse_records(data, {})[LevelCall(m, Len(st), n, q)]
  BY <1>4, <1>5, <1>6, Zenon
<1>8. Returns(data, m, n, q, R)
  BY <1>1, <1>7, ReturnsAfterMove, Zenon
<1> QED BY <1>1, <1>6, <1>8 DEF LeadsTo

\* A failure passes through every activation; out of a group TRUNCATED becomes FORMAT.
LEMMA FailureUnwinds ==
  ASSUME NEW data, NEW st \in Seq(Activation), st # <<>>, NEW n, NEW p, NEW whole,
         LeadsTo(data, st, n, p, whole), NEW r \in Parsed,
         r = tide_parse_records(data, {})[LevelCall(st, Len(st), n, p)], r.status # "OK"
  PROVE  whole = IF Len(st) = 1 THEN r ELSE OutOfGroup(r)
<1> DEFINE k == Len(st)
<1>1. PICK R : Returns(data, st, n, p, R) /\ R[1] = whole
  BY DEF LeadsTo
<1>2. k \in Nat \ {0} /\ R[k] = r
  BY <1>1, LenProperties, EmptySeq DEF Returns
<1>3. OutOfGroup(OutOfGroup(r)) = OutOfGroup(r) /\ OutOfGroup(r).status # "OK"
  BY DEF OutOfGroup, Parsed
<1>4. ASSUME NEW i \in 1..(k - 1), R[i + 1] = r \/ R[i + 1] = OutOfGroup(r)
      PROVE  R[i] = OutOfGroup(r)
  <2>1. R[i] = AfterGroup(data, st, i, n, R[i + 1])
    BY <1>1 DEF Returns
  <2> QED BY <1>3, <1>4, <2>1 DEF AfterGroup, Onward
<1> DEFINE Wrong == {d \in Nat : d \in 1..(k - 1) /\ R[k - d] # OutOfGroup(r)}
<1>5. Wrong = {}
  <2> SUFFICES ASSUME Wrong # {} PROVE FALSE
    OBVIOUS
  <2>1. PICK d \in Wrong : \A e \in Wrong : d <= e
    <3>1. Wrong \in SUBSET Nat
      OBVIOUS
    <3> HIDE DEF Wrong
    <3> QED BY <3>1, LeastNumber
  <2>2. d \in Nat /\ d \in 1..(k - 1) /\ R[k - d] # OutOfGroup(r)
    OBVIOUS
  <2>3. d - 1 \notin Wrong
    <3> HIDE DEF Wrong
    <3> QED BY <2>1, <2>2
  <2>4. (k - d) + 1 = k - (d - 1) /\ k - d \in 1..(k - 1)
    BY <1>2, <2>2
  <2>5. R[(k - d) + 1] = r \/ R[(k - d) + 1] = OutOfGroup(r)
    <3>1. CASE d = 1
      BY <1>2, <2>4, <3>1
    <3>2. CASE d # 1
      BY <1>2, <2>2, <2>3, <2>4, <3>2
    <3> QED BY <3>1, <3>2
  <2> QED BY <1>4, <2>2, <2>4, <2>5
<1>6. CASE k = 1
  BY <1>1, <1>2, <1>6
<1>7. CASE k # 1
  <2>1. k - 1 \in Nat /\ k - 1 \in 1..(k - 1) /\ k - (k - 1) = 1
    <3> HIDE DEF k
    <3> QED BY <1>2, <1>7
  <2> QED BY <1>1, <1>5, <1>7, <2>1, Zenon
<1> QED BY <1>6, <1>7

\* The innermost activation enters a group.
LEMMA GroupEntered ==
  ASSUME NEW data, NEW st, NEW n, NEW p, NEW whole, NEW a, NEW f, NEW child,
         GoesTo(data, st, n, p, whole, a), EntersGroup(data, a, f, child)
  PROVE  LeadsTo(data, Append(st, child), n, Called(p, a.cursor), whole)
<1> /\ IsData(data) /\ st \in Seq(Activation) /\ st # <<>> /\ p \in Parsed
    /\ LeadsTo(data, st, n, p, whole) /\ a \in Calls(data) /\ a = LevelCall(st, Len(st), n, p)
  BY DEF GoesTo
<1> /\ a.cursor < a.end /\ Check(data, a) = "OK"
    /\ f = At(data, a) /\ f.type = "GROUP" /\ GroupStatus(f, a.depth) = "OK"
    /\ child \in Activation
    /\ child.cursor = PayloadOffset(f, a.cursor) + TIDE_GROUP_META_SIZE
    /\ child.end = PayloadEnd(f, a.cursor)
  BY DEF EntersGroup
<1> DEFINE parse == tide_parse_records(data, {})
           k == Len(st)
           m == Append(st, child)
           called == Called(p, a.cursor)
           next == CrcEnd(f, a.cursor)
           inner == LevelCall(m, k + 1, n, called)
<1>1. PICK R : Returns(data, st, n, p, R) /\ R[1] = whole
  BY DEF LeadsTo
<1>2. /\ k \in Nat \ {0} /\ m \in Seq(Activation) /\ Len(m) = k + 1
      /\ m[k + 1] = child /\ \A i \in 1..k : m[i] = st[i]
  BY LenProperties, EmptySeq, AppendProperties
<1>3. a.end = EndOf(st, k, n) /\ a.depth = k - 1 /\ a.seen = p /\ a.cursor = st[k].cursor
  BY DEF LevelCall
<1>4. called \in Parsed
  BY CalledParsed DEF Calls
<1>5. inner = ChildCall(f, a, called)
  <2> HIDE DEF m, called
  <2> QED BY <1>2, <1>3 DEF ChildCall, LevelCall, EndOf
<1>6. inner \in Calls(data)
  BY <1>4, <1>5, CallsAhead, Zenon DEF At, Check
<1>7. parse[inner] \in Parsed
  BY <1>6, ParseUnfolds
<1>8. parse[a] = Onward(parse, a, next, Process(parse, f, a, {}, called))
  <2>1. parse[a] = Onward(parse, a, CrcEnd(At(data, a), a.cursor),
                          Process(parse, At(data, a), a, {}, Called(a.seen, a.cursor)))
    BY CallGoesOn, Zenon
  <2> QED BY <1>3, <2>1, Zenon
<1> HIDE DEF m, called, inner
<1>9. parse[a] = Onward(parse, a, next, OutOfGroup(parse[inner]))
  BY <1>5, <1>8 DEF Process
<1> DEFINE Q == [i \in 1..(k + 1) |-> IF i = k + 1 THEN parse[inner] ELSE R[i]]
<1>10. Q \in [1..(k + 1) -> Parsed] /\ Q[k + 1] = parse[inner] /\ \A i \in 1..k : Q[i] = R[i]
  BY <1>1, <1>2, <1>7 DEF Returns
<1> HIDE DEF Q
<1>11. ASSUME NEW i \in 1..k PROVE Q[i] = AfterGroup(data, m, i, n, Q[i + 1])
  <2>1. AfterGroup(data, m, i, n, Q[i + 1]) = AfterGroup(data, st, i, n, Q[i + 1])
    BY <1>2, Zenon DEF AfterGroup, LevelCall, EndOf
  <2>2. CASE i = k
    <3>1. AfterGroup(data, st, k, n, parse[inner]) = Onward(parse, a, next, OutOfGroup(parse[inner]))
      BY <1>3, Zenon DEF AfterGroup, Onward, NextCall, LevelCall, At
    <3>2. R[k] = parse[a]
      BY <1>1, Zenon DEF Returns
    <3> QED BY <1>2, <1>9, <1>10, <2>1, <2>2, <3>1, <3>2, Zenon
  <2>3. CASE i # k
    <3>1. i \in 1..(k - 1) /\ i + 1 \in 1..k
      BY <1>2, <2>3
    <3>2. R[i] = AfterGroup(data, st, i, n, R[i + 1])
      BY <1>1, <3>1 DEF Returns
    <3> QED BY <1>10, <2>1, <3>1, <3>2
  <2> QED BY <2>2, <2>3
<1>12. Returns(data, m, n, called, Q)
  <2>1. Q \in [1..Len(m) -> Parsed] /\ Q[Len(m)] = parse[LevelCall(m, Len(m), n, called)]
    BY <1>2, <1>10 DEF inner
  <2>2. \A i \in 1..(Len(m) - 1) : i \in 1..k
    BY <1>2
  <2> QED BY <1>11, <2>1, <2>2 DEF Returns
<1>13. Q[1] = whole
  BY <1>1, <1>2, <1>10
<1>14. LeadsTo(data, m, n, called, whole)
  BY <1>12, <1>13 DEF LeadsTo
<1> QED BY <1>14 DEF m, called

\* The records of a group are done and the activation around it moves past the group.
LEMMA GroupLeft ==
  ASSUME NEW data, NEW st, NEW n, NEW p, NEW whole, NEW a, NEW next, NEW m,
         GoesTo(data, st, n, p, whole, a), LeavesGroup(data, st, p, a, next, m)
  PROVE  LeadsTo(data, m, n, MovedTo(p, next, Len(st) - 2), whole)
<1> /\ IsData(data) /\ st \in Seq(Activation) /\ st # <<>> /\ p \in Parsed
    /\ LeadsTo(data, st, n, p, whole) /\ a \in Calls(data) /\ a = LevelCall(st, Len(st), n, p)
  BY DEF GoesTo
<1> PICK o : o = st[Len(st) - 1].cursor
  OBVIOUS
<1> /\ Len(st) > 1 /\ p.status = "OK" /\ a.cursor = a.end
    /\ next = CrcEnd(data.frame[o], o) /\ IsMoved(st, Len(st) - 1, next, m)
  BY DEF LeavesGroup
<1> DEFINE parse == tide_parse_records(data, {})
           k == Len(st)
           q == MovedTo(p, next, k - 2)
<1>1. PICK R : Returns(data, st, n, p, R) /\ R[1] = whole
  BY DEF LeadsTo
<1>2. k \in Nat /\ Len(m) = k - 1 /\ k - 1 \in 1..k
  BY LenProperties DEF IsMoved
<1>3. R[k] = p
  <2>1. parse[a] = WithStatus(p, "OK")
    <3>1. parse[a] = WithStatus(a.seen, "OK")
      BY CallDone, Zenon
    <3> QED BY <3>1 DEF LevelCall
  <2>2. WithStatus(p, "OK") = p
    BY DEF Parsed, WithStatus
  <2> QED BY <1>1, <2>1, <2>2 DEF Returns
<1>4. R[k - 1] = parse[LevelCall(m, k - 1, n, q)]
  <2>1. R[k - 1] = AfterGroup(data, st, k - 1, n, p)
    <3>1. k - 1 \in 1..(k - 1) /\ (k - 1) + 1 = k
      BY <1>2
    <3>2. R[k - 1] = AfterGroup(data, st, k - 1, n, R[(k - 1) + 1])
      BY <1>1, <3>1, Zenon DEF Returns
    <3> QED BY <1>3, <3>1, <3>2
  <2>2. OutOfGroup(p) = p
    BY DEF OutOfGroup
  <2>3. R[k - 1] = parse[NextCall(LevelCall(st, k - 1, n, p), next, p)]
    BY <2>1, <2>2, Zenon DEF AfterGroup, Onward
  <2>4. (k - 1) - 1 = k - 2 /\ m[k - 1].cursor = next /\ m[k - 1].end = st[k - 1].end
    BY <1>2 DEF IsMoved
  <2>5. NextCall(LevelCall(st, k - 1, n, p), next, p) = LevelCall(m, k - 1, n, q)
    BY <2>4, Zenon DEF NextCall, LevelCall, EndOf
  <2> QED BY <2>3, <2>5, Zenon
<1> DEFINE Q == [i \in 1..(k - 1) |-> R[i]]
<1>5. Q \in [1..(k - 1) -> Parsed] /\ \A i \in 1..(k - 1) : Q[i] = R[i]
  BY <1>1, <1>2 DEF Returns
<1> HIDE DEF Q
<1>6. ASSUME NEW i \in 1..((k - 1) - 1) PROVE Q[i] = AfterGroup(data, m, i, n, Q[i + 1])
  <2>1. i \in 1..(k - 1) /\ i + 1 \in 1..(k - 1) /\ m[i] = st[i]
    BY <1>2, <1>6 DEF IsMoved
  <2>2. R[i] = AfterGroup(data, st, i, n, R[i + 1])
    BY <1>1, <2>1, Zenon DEF Returns
  <2>3. AfterGroup(data, m, i, n, R[i + 1]) = AfterGroup(data, st, i, n, R[i + 1])
    BY <2>1, Zenon DEF AfterGroup, LevelCall, EndOf
  <2> QED BY <1>5, <2>1, <2>2, <2>3
<1> HIDE DEF q
<1>7. Returns(data, m, n, q, Q)
  <2>1. Q \in [1..Len(m) -> Parsed] /\ Q[Len(m)] = parse[LevelCall(m, Len(m), n, q)]
    BY <1>2, <1>4, <1>5
  <2>2. \A i \in 1..(Len(m) - 1) : Q[i] = AfterGroup(data, m, i, n, Q[i + 1])
    BY <1>2, <1>6, Zenon
  <2> QED BY <2>1, <2>2, Zenon DEF Returns
<1>8. Q[1] = whole
  <2>1. 1 \in 1..(k - 1)
    BY <1>2
  <2> QED BY <1>1, <1>5, <2>1, Zenon
<1> QED BY <1>7, <1>8 DEF LeadsTo, q

------------------------------------------------------------------------------
(* A parse only adds callbacks *)

\* f begins with e.
Begins(e, f) == Len(e) <= Len(f) /\ \A i \in 1..Len(e) : f[i] = e[i]

\* Beginning with is a preorder, and more callbacks come at the end.
LEMMA BeginsFacts ==
  ASSUME NEW e \in Seq(EventsOf)
  PROVE  /\ Begins(e, e)
         /\ \A f \in Seq(EventsOf), g \in Seq(EventsOf) :
              Begins(e, f) /\ Begins(f, g) => Begins(e, g)
         /\ \A x \in EventsOf : Begins(e, Append(e, x))
<1>1. Len(e) \in Nat
  BY LenProperties
<1>2. ASSUME NEW f \in Seq(EventsOf), NEW g \in Seq(EventsOf), Begins(e, f), Begins(f, g)
      PROVE  Begins(e, g)
  <2>1. Len(f) \in Nat /\ Len(g) \in Nat
    BY LenProperties
  <2> QED BY <1>1, <1>2, <2>1 DEF Begins
<1>3. ASSUME NEW x \in EventsOf PROVE Begins(e, Append(e, x))
  BY <1>1, AppendProperties DEF Begins
<1> QED BY <1>1, <1>2, <1>3 DEF Begins

\* Processing a record that is no group keeps the callbacks made before.
LEMMA LeafExtends ==
  ASSUME NEW f, IsFrame(f), f.type # "GROUP", NEW o \in Nat, NEW lost, NEW seen \in Parsed
  PROVE  Begins(seen.events, ProcessLeaf(f, o, lost, seen).events)
<1> DEFINE r == ProcessLeaf(f, o, lost, seen)
<1>1. f.type \in {"SKIPPABLE", "UNKNOWN", "STREAM_DESC", "PACKET"} \cup SimpleType
  BY DEF IsFrame, RecordType
<1>2. seen.events \in Seq(EventsOf)
  BY ParsedFields, Zenon
<1>3. \/ r.events = seen.events
      \/ r.events = Append(seen.events, [cb |-> "stream", at |-> o])
      \/ r.events = Append(seen.events, [cb |-> "packet", at |-> o])
  BY <1>1 DEF ProcessLeaf, Parsed, SimpleType
<1>4. [cb |-> "stream", at |-> o] \in EventsOf /\ [cb |-> "packet", at |-> o] \in EventsOf
  BY DEF EventsOf
<1> HIDE DEF r
<1>5. /\ Begins(seen.events, seen.events)
      /\ Begins(seen.events, Append(seen.events, [cb |-> "stream", at |-> o]))
      /\ Begins(seen.events, Append(seen.events, [cb |-> "packet", at |-> o]))
  BY <1>2, <1>4, BeginsFacts
<1>6. Begins(seen.events, r.events)
  BY <1>3, <1>5, Zenon
<1> QED BY <1>6 DEF r

\* A call of tide_parse_records only adds callbacks.
Extends(data, a) == Begins(a.seen.events, tide_parse_records(data, {})[a].events)

\* This is so for every call.
LEMMA ParseExtends ==
  ASSUME NEW data, IsData(data), NEW a0 \in Calls(data)
  PROVE  Extends(data, a0)
<1> DEFINE parse == tide_parse_records(data, {})
           X == {a \in Calls(data) : ~Extends(data, a)}
<1> SUFFICES ASSUME X # {} PROVE FALSE
  OBVIOUS
<1>1. PICK a \in X : \A b \in X : Ahead(data)[a] <= Ahead(data)[b]
  <2>1. X \in SUBSET Calls(data)
    OBVIOUS
  <2>2. Ahead(data) \in [Calls(data) -> Nat]
    BY AheadNat
  <2> HIDE DEF X
  <2> QED BY <2>1, <2>2, LeastMeasure
<1>2. a \in Calls(data) /\ ~Extends(data, a)
  OBVIOUS
<1>3. ASSUME NEW b \in Calls(data), Ahead(data)[b] < Ahead(data)[a] PROVE Extends(data, b)
  <2>1. Ahead(data)[a] \in Nat /\ Ahead(data)[b] \in Nat
    BY <1>2, AheadNat
  <2>2. b \notin X
    <3> HIDE DEF X
    <3> QED BY <1>1, <1>3, <2>1
  <2> QED BY <2>2
<1> HIDE DEF X
<1>4. /\ a.seen \in Parsed /\ a.cursor \in Nat /\ a.end \in Nat /\ a.seen.events \in Seq(EventsOf)
  <2>1. a.seen \in Parsed /\ a.cursor \in Nat /\ a.end \in Nat
    BY <1>2 DEF Calls, IsData
  <2> QED BY <2>1, ParsedFields, Zenon
<1>5. parse[a] \in Parsed /\ parse[a] = ParseCall(data, {}, parse, a)
  BY <1>2, ParseUnfolds
<1>6. CASE a.cursor >= a.end
  <2>1. parse[a].events = a.seen.events
    <3> HIDE DEF parse
    <3> QED BY <1>4, <1>5, <1>6 DEF ParseCall, Parsed
  <2> QED BY <1>2, <1>4, <2>1, BeginsFacts DEF Extends
<1>7. CASE a.cursor < a.end /\ Check(data, a) # "OK"
  <2>1. parse[a] = IF Check(data, a) = "TRUNCATED" THEN TruncatedAt(a.seen, a.cursor)
                   ELSE WithStatus(a.seen, Check(data, a))
    BY <1>2, <1>7, CallStops
  <2>2. parse[a].events = a.seen.events
    <3> HIDE DEF parse
    <3> QED BY <1>4, <2>1 DEF TruncatedAt, WithStatus, Parsed
  <2> QED BY <1>2, <1>4, <2>2, BeginsFacts DEF Extends
<1>8. CASE a.cursor < a.end /\ Check(data, a) = "OK"
  <2> DEFINE f == At(data, a)
             called == Called(a.seen, a.cursor)
             next == CrcEnd(f, a.cursor)
             q == Process(parse, f, a, {}, called)
  <2>1. parse[a] = Onward(parse, a, next, q)
    BY <1>2, <1>8, CallGoesOn
  <2>2. called \in Parsed /\ called.events = Append(a.seen.events, [cb |-> "record", at |-> a.cursor])
    BY <1>4, CalledParsed, Zenon DEF Called, Parsed
  <2>3. Begins(a.seen.events, called.events) /\ called.events \in Seq(EventsOf)
    <3>1. [cb |-> "record", at |-> a.cursor] \in EventsOf
      BY <1>4 DEF EventsOf
    <3>2. Begins(a.seen.events, Append(a.seen.events, [cb |-> "record", at |-> a.cursor]))
      BY <1>4, <3>1, BeginsFacts
    <3>3. called.events \in Seq(EventsOf)
      BY <2>2, ParsedFields, Zenon
    <3> HIDE DEF called
    <3> QED BY <2>2, <3>2, <3>3
  <2>4. /\ IsFrame(f) /\ \A p \in Parsed : NextCall(a, next, p) \in Calls(data)
                                        /\ Ahead(data)[NextCall(a, next, p)] < Ahead(data)[a]
        /\ f.type = "GROUP" /\ GroupStatus(f, a.depth) = "OK" =>
             /\ ChildCall(f, a, called) \in Calls(data)
             /\ Ahead(data)[ChildCall(f, a, called)] < Ahead(data)[a]
    <3> HIDE DEF called
    <3> QED BY <1>2, <1>8, <2>2, CallsAhead, Zenon DEF At, Check
  <2>5. q \in Parsed
    <3>1. parse \in [Calls(data) -> Parsed]
      BY ParseUnfolds
    <3> HIDE DEF parse, called
    <3> QED BY <1>2, <1>8, <2>2, <3>1, ProcessParsed, Zenon DEF At, Check
  <2>6. Begins(called.events, q.events)
    <3>1. CASE f.type # "GROUP"
      <4>1. q = ProcessLeaf(f, a.cursor, {}, called)
        BY <3>1 DEF Process
      <4> HIDE DEF f, called, q
      <4> QED BY <1>4, <2>2, <2>4, <3>1, <4>1, LeafExtends, Zenon
    <3>2. CASE f.type = "GROUP" /\ GroupStatus(f, a.depth) # "OK"
      <4>1. q.events = called.events
        <5> HIDE DEF called
        <5> QED BY <2>2, <3>2 DEF Process, Parsed
      <4> HIDE DEF called, q
      <4> QED BY <2>3, <4>1, BeginsFacts
    <3>3. CASE f.type = "GROUP" /\ GroupStatus(f, a.depth) = "OK"
      <4> DEFINE child == ChildCall(f, a, called)
      <4>1. q = OutOfGroup(parse[child])
        BY <3>3 DEF Process
      <4>2. Extends(data, child) /\ parse[child] \in Parsed
        BY <1>3, <2>4, <3>3, ParseUnfolds
      <4>3. child.seen = called
        BY DEF ChildCall
      <4>4. OutOfGroup(parse[child]).events = parse[child].events
        <5> HIDE DEF parse, child
        <5> QED BY <4>2 DEF OutOfGroup, Parsed
      <4> HIDE DEF child, called, q
      <4> QED BY <4>1, <4>2, <4>3, <4>4 DEF Extends
    <3> QED BY <3>1, <3>2, <3>3
  <2> HIDE DEF called, q, f
  <2>7. q.events \in Seq(EventsOf) /\ Begins(a.seen.events, q.events)
    BY <1>4, <2>3, <2>5, <2>6, BeginsFacts, ParsedFields, Zenon
  <2>8. CASE q.status # "OK"
    <3>1. parse[a] = q
      BY <2>1, <2>8 DEF Onward
    <3> QED BY <1>2, <2>7, <3>1 DEF Extends
  <2>9. CASE q.status = "OK"
    <3> DEFINE b == NextCall(a, next, q)
    <3>1. parse[a] = parse[b]
      BY <2>1, <2>9 DEF Onward
    <3>2. b \in Calls(data) /\ Extends(data, b)
      BY <1>3, <2>4, <2>5
    <3>3. b.seen.events = q.events
      BY <2>5, Zenon DEF NextCall, MovedTo, Parsed
    <3>4. parse[b].events \in Seq(EventsOf)
      BY <3>2, ParseUnfolds, ParsedFields, Zenon
    <3> HIDE DEF b
    <3>5. Begins(a.seen.events, parse[b].events)
      BY <1>4, <2>7, <3>2, <3>3, <3>4, BeginsFacts DEF Extends
    <3> QED BY <1>2, <3>1, <3>5 DEF Extends
  <2> QED BY <2>8, <2>9
<1> QED BY <1>4, <1>6, <1>7, <1>8

\* What an activation returns after a group begins with what the group led to.
LEMMA AfterGroupExtends ==
  ASSUME NEW data, IsData(data), NEW st, NEW i, NEW n, NEW q \in Parsed,
         NEW a \in Calls(data), a = LevelCall(st, i, n, q), a.cursor < a.end,
         Check(data, a) = "OK"
  PROVE  Begins(q.events, AfterGroup(data, st, i, n, q).events)
<1> DEFINE parse == tide_parse_records(data, {})
           next == CrcEnd(At(data, a), a.cursor)
           o == OutOfGroup(q)
           b == NextCall(a, next, o)
<1>1. AfterGroup(data, st, i, n, q) = Onward(parse, a, next, o)
  BY DEF AfterGroup, LevelCall, At
<1>2. o \in Parsed /\ o.events = q.events
  <2>1. "FORMAT" \in Status
    BY DEF Status
  <2>2. o \in Parsed
    BY <2>1, ParsedFields, Zenon DEF OutOfGroup
  <2> QED BY <2>2 DEF OutOfGroup, Parsed
<1>3. q.events \in Seq(EventsOf)
  BY ParsedFields, Zenon
<1> HIDE DEF o
<1>4. CASE o.status # "OK"
  <2>1. Onward(parse, a, next, o) = o
    BY <1>4 DEF Onward
  <2> QED BY <1>1, <1>2, <1>3, <2>1, BeginsFacts
<1>5. CASE o.status = "OK"
  <2>1. Onward(parse, a, next, o) = parse[b]
    BY <1>5, Zenon DEF Onward
  <2>2. b \in Calls(data)
    BY <1>2, CallsAhead DEF At, Check
  <2>3. Extends(data, b)
    <3> HIDE DEF b
    <3> QED BY <2>2, ParseExtends
  <2>4. b.seen.events = o.events
    BY <1>2, Zenon DEF NextCall, MovedTo, Parsed
  <2> QED BY <1>1, <1>2, <2>1, <2>3, <2>4, Zenon DEF Extends
<1> QED BY <1>4, <1>5

\* What the activations lead to begins with the callbacks made before.
LEMMA LeadsToExtends ==
  ASSUME NEW data, IsData(data), NEW st \in Seq(Activation), st # <<>>, NEW n,
         NEW p \in Parsed, NEW whole, LeadsTo(data, st, n, p, whole),
         LevelCall(st, Len(st), n, p) \in Calls(data),
         \A i \in 1..(Len(st) - 1) : \A q \in Parsed :
           /\ LevelCall(st, i, n, q) \in Calls(data)
           /\ LevelCall(st, i, n, q).cursor < LevelCall(st, i, n, q).end
           /\ Check(data, LevelCall(st, i, n, q)) = "OK"
  PROVE  Begins(p.events, whole.events)
<1> DEFINE k == Len(st)
<1>1. PICK R : Returns(data, st, n, p, R) /\ R[1] = whole
  BY DEF LeadsTo
<1>2. k \in Nat \ {0}
  BY LenProperties, EmptySeq
<1>3. \A i \in 1..k : R[i] \in Parsed /\ R[i].events \in Seq(EventsOf)
  <2>1. R \in [1..k -> Parsed]
    BY <1>1 DEF Returns
  <2> QED BY <2>1, ParsedFields, Zenon
<1>4. Begins(p.events, R[k].events) /\ p.events \in Seq(EventsOf)
  <2>1. Extends(data, LevelCall(st, k, n, p)) /\ LevelCall(st, k, n, p).seen = p
    BY ParseExtends DEF LevelCall
  <2>2. R[k] = tide_parse_records(data, {})[LevelCall(st, k, n, p)]
    BY <1>1 DEF Returns
  <2> QED BY <2>1, <2>2, ParsedFields, Zenon DEF Extends
<1>5. ASSUME NEW i \in 1..(k - 1), Begins(p.events, R[i + 1].events)
      PROVE  Begins(p.events, R[i].events)
  <2>1. i \in 1..k /\ i + 1 \in 1..k
    BY <1>2
  <2>2. R[i] = AfterGroup(data, st, i, n, R[i + 1])
    BY <1>1 DEF Returns
  <2>3. R[i + 1] \in Parsed
    BY <1>3, <2>1
  <2>4. Begins(R[i + 1].events, R[i].events)
    <3> DEFINE a == LevelCall(st, i, n, R[i + 1])
    <3>1. a \in Calls(data) /\ a.cursor < a.end /\ Check(data, a) = "OK"
      BY <2>3
    <3> HIDE DEF a
    <3>2. a = LevelCall(st, i, n, R[i + 1])
      BY DEF a
    <3>3. Begins(R[i + 1].events, AfterGroup(data, st, i, n, R[i + 1]).events)
      BY <2>3, <3>1, <3>2, AfterGroupExtends
    <3> QED BY <2>2, <3>3
  <2> QED BY <1>3, <1>4, <1>5, <2>1, <2>4, BeginsFacts
<1> DEFINE Wrong == {d \in Nat : d \in 0..(k - 1) /\ ~Begins(p.events, R[k - d].events)}
<1>6. Wrong = {}
  <2> SUFFICES ASSUME Wrong # {} PROVE FALSE
    OBVIOUS
  <2>1. PICK d \in Wrong : \A e \in Wrong : d <= e
    <3>1. Wrong \in SUBSET Nat
      OBVIOUS
    <3> HIDE DEF Wrong
    <3> QED BY <3>1, LeastNumber
  <2>2. d \in Nat /\ d \in 0..(k - 1) /\ ~Begins(p.events, R[k - d].events)
    OBVIOUS
  <2>3. d # 0
    <3>1. k - 0 = k
      BY <1>2
    <3> QED BY <1>4, <2>2, <3>1
  <2>4. d - 1 \notin Wrong
    <3> HIDE DEF Wrong
    <3> QED BY <2>1, <2>2
  <2>5. (k - d) + 1 = k - (d - 1) /\ k - d \in 1..(k - 1) /\ d - 1 \in Nat /\ d - 1 \in 0..(k - 1)
    BY <1>2, <2>2, <2>3
  <2>6. Begins(p.events, R[(k - d) + 1].events)
    BY <2>4, <2>5
  <2> QED BY <1>5, <2>2, <2>5, <2>6
<1>7. k - 1 \in Nat /\ k - 1 \in 0..(k - 1) /\ k - (k - 1) = 1
  <2> HIDE DEF k
  <2> QED BY <1>2
<1>8. Begins(p.events, R[k - (k - 1)].events)
  BY <1>6, <1>7, Zenon
<1> QED BY <1>1, <1>7, <1>8

------------------------------------------------------------------------------
(* Arrays *)

\* k says what an array holds after each of the elements of s was looked at.
Keeps(k, s, chosen, S) ==
  /\ k \in [0..Len(s) -> Seq(S)] /\ k[0] = <<>>
  /\ \A n \in 1..Len(s) :
       k[n] = IF n \in chosen THEN Append(k[n - 1], s[n]) ELSE k[n - 1]

\* Kept goes through the elements of s from the first to the last.
LEMMA KeptStepwise ==
  ASSUME NEW S, NEW s \in Seq(S), NEW chosen
  PROVE  \E k : Keeps(k, s, chosen, S) /\ Kept(s, chosen) = k[Len(s)]
<1> DEFINE D == 0..Len(s)
           R == Seq(S)
           e(f, n) == IF n = 0 THEN <<>>
                      ELSE IF n \in chosen THEN Append(f[n - 1], s[n]) ELSE f[n - 1]
           B == [f \in [D -> R] |-> [n \in D |-> e(f, n)]]
           M == [n \in D |-> n]
<1>1. Len(s) \in Nat /\ \A n \in 1..Len(s) : s[n] \in S
  BY ElementOfSeq
<1>2. \A n \in D : n # 0 => n \in 1..Len(s) /\ n - 1 \in D /\ n - 1 < n
  BY <1>1
<1>3. <<>> \in R /\ \A t \in R, x \in S : Append(t, x) \in R
  BY EmptySeq, AppendProperties
<1>4. \A f \in [D -> R], n \in D : e(f, n) \in R
  <2> SUFFICES ASSUME NEW f \in [D -> R], NEW n \in D PROVE e(f, n) \in R
    OBVIOUS
  <2>1. n # 0 => f[n - 1] \in R /\ s[n] \in S
    BY <1>1, <1>2
  <2> HIDE DEF R, D
  <2> QED BY <1>3, <2>1
<1>5. B \in [[D -> R] -> [D -> R]]
  BY <1>4
<1>6. M \in [D -> Nat] /\ R # {}
  BY <1>1, <1>3
<1>7. Descends(B, M, D, R)
  <2> SUFFICES ASSUME NEW f \in [D -> R], NEW g \in [D -> R], NEW n \in D,
                      \A y \in D : M[y] < M[n] => f[y] = g[y]
               PROVE  B[f][n] = B[g][n]
    BY DEF Descends
  <2>1. n # 0 => f[n - 1] = g[n - 1]
    BY <1>2
  <2>2. e(f, n) = e(g, n)
    <3> HIDE DEF D, R
    <3> QED BY <2>1
  <2> QED BY <2>2
<1>8. PICK f \in [D -> R] : f = B[f]
  <2> HIDE DEF B, M, R, D
  <2>1. HasSolution(B, D, R)
    BY <1>5, <1>6, <1>7, RecursiveFunction, Zenon
  <2> QED BY <2>1 DEF HasSolution
<1>9. f = [n \in D |-> e(f, n)]
  BY <1>8
<1> DEFINE k == CHOOSE g : g = [n \in D |-> e(g, n)]
<1>10. k = [n \in D |-> e(k, n)]
  <2> HIDE DEF D
  <2> QED BY <1>9, Zenon
<1>11. Kept(s, chosen) = k[Len(s)]
  BY Zenon DEF Kept
<1> HIDE DEF k
<1>12. \A n \in D : k[n] = e(k, n)
  BY <1>10, Zenon
<1>13. \A n \in D : k[n] \in R
  <2> DEFINE X == {n \in D : k[n] \notin R}
  <2> SUFFICES ASSUME X # {} PROVE FALSE
    OBVIOUS
  <2>1. PICK n \in X : \A m \in X : n <= m
    <3>1. X \in SUBSET Nat
      BY <1>1
    <3> HIDE DEF X
    <3> QED BY <3>1, LeastNumber
  <2>2. n # 0 => k[n - 1] \in R /\ s[n] \in S
    BY <1>1, <1>2, <2>1
  <2>3. e(k, n) \in R
    <3> HIDE DEF R
    <3> QED BY <1>3, <2>2
  <2> QED BY <1>12, <2>1, <2>3, Zenon
<1>14. Keeps(k, s, chosen, S)
  <2>1. k \in [D -> R]
    <3> HIDE DEF D, R
    <3> QED BY <1>10, <1>13
  <2>2. k[0] = <<>>
    BY <1>1, <1>12
  <2>3. \A n \in 1..Len(s) : n \in D /\ n # 0
    BY <1>1
  <2> QED BY <1>12, <2>1, <2>2, <2>3, Zenon DEF Keeps
<1> HIDE DEF D, R
<1> QED BY <1>11, <1>14

\* What is kept of the first n elements depends on them only.
LEMMA KeepsAgree ==
  ASSUME NEW S, NEW s \in Seq(S), NEW t \in Seq(S), NEW c, NEW d, NEW k, NEW l,
         Keeps(k, s, c, S), Keeps(l, t, d, S), NEW n \in Nat, n <= Len(s), n <= Len(t),
         \A i \in 1..n : s[i] = t[i] /\ (i \in c <=> i \in d)
  PROVE  k[n] = l[n]
<1> DEFINE X == {i \in 0..n : k[i] # l[i]}
<1> SUFFICES ASSUME X # {} PROVE FALSE
  OBVIOUS
<1>1. PICK i \in X : \A j \in X : i <= j
  <2>1. X \in SUBSET Nat
    OBVIOUS
  <2> HIDE DEF X
  <2> QED BY <2>1, LeastNumber
<1>2. i # 0
  BY <1>1 DEF Keeps
<1>3. i \in 1..n /\ i - 1 \in 0..n /\ i - 1 \notin X
  BY <1>1, <1>2
<1>4. i \in 1..Len(s) /\ i \in 1..Len(t) /\ k[i - 1] = l[i - 1]
  BY <1>3
<1>5. k[i] = IF i \in c THEN Append(k[i - 1], s[i]) ELSE k[i - 1]
  BY <1>4 DEF Keeps
<1>6. l[i] = IF i \in d THEN Append(l[i - 1], t[i]) ELSE l[i - 1]
  BY <1>4 DEF Keeps
<1> QED BY <1>1, <1>3, <1>4, <1>5, <1>6

\* Kept on a sequence, on the empty one and on one that is an element longer.
LEMMA KeptSeq ==
  ASSUME NEW S, NEW s \in Seq(S), NEW c
  PROVE  /\ Kept(s, c) \in Seq(S)
         /\ s = <<>> => Kept(s, c) = <<>>
<1>1. PICK k : Keeps(k, s, c, S) /\ Kept(s, c) = k[Len(s)]
  BY KeptStepwise
<1>2. Len(s) \in 0..Len(s) /\ (s = <<>> => Len(s) = 0)
  OBVIOUS
<1> QED BY <1>1, <1>2 DEF Keeps

\* Array t is s with x appended, and d chooses of s what c does.
Longer(S, s, x, t, c, d) ==
  /\ s \in Seq(S) /\ x \in S /\ t = Append(s, x)
  /\ \A i \in 1..Len(s) : i \in c <=> i \in d

\* Another element is appended to what is kept when it is chosen.
LEMMA KeptAppend ==
  ASSUME NEW S, NEW s, NEW x, NEW t, NEW c, NEW d, Longer(S, s, x, t, c, d)
  PROVE  /\ Len(s) + 1 \in d => Kept(t, d) = Append(Kept(s, c), x)
         /\ Len(s) + 1 \notin d => Kept(t, d) = Kept(s, c)
<1> DEFINE n == Len(s)
<1>1. /\ s \in Seq(S) /\ n \in Nat /\ t \in Seq(S) /\ Len(t) = n + 1 /\ t[n + 1] = x
      /\ \A i \in 1..n : t[i] = s[i] /\ (i \in c <=> i \in d)
  BY AppendProperties DEF Longer
<1>2. PICK k : Keeps(k, s, c, S) /\ Kept(s, c) = k[Len(s)]
  BY <1>1, KeptStepwise
<1>3. PICK l : Keeps(l, t, d, S) /\ Kept(t, d) = l[Len(t)]
  BY <1>1, KeptStepwise
<1>4. n <= Len(s) /\ n <= Len(t)
  BY <1>1
<1> HIDE DEF n
<1>5. k[n] = l[n]
  BY <1>1, <1>2, <1>3, <1>4, KeepsAgree
<1>6. l[n + 1] = IF n + 1 \in d THEN Append(l[n], t[n + 1]) ELSE l[n]
  <2>1. n + 1 \in 1..Len(t)
    BY <1>1, <1>4
  <2>2. \A m \in 1..Len(t) :
          l[m] = IF m \in d THEN Append(l[m - 1], t[m]) ELSE l[m - 1]
    BY <1>3 DEF Keeps
  <2>3. PICK m : m = n + 1
    OBVIOUS
  <2>4. m - 1 = n
    BY <1>1, <2>3
  <2> QED BY <2>1, <2>2, <2>3, <2>4
<1> QED BY <1>1, <1>2, <1>3, <1>5, <1>6 DEF n

\* Only what is chosen is kept.
LEMMA KeptChosen ==
  ASSUME NEW S, NEW s \in Seq(S), NEW c, NEW Q,
         \A i \in 1..Len(s) : i \in c => s[i] \in Q
  PROVE  Kept(s, c) \in Seq(Q)
<1>1. PICK k : Keeps(k, s, c, S) /\ Kept(s, c) = k[Len(s)]
  BY KeptStepwise
<1> DEFINE X == {n \in 0..Len(s) : k[n] \notin Seq(Q)}
<1> SUFFICES ASSUME X # {} PROVE FALSE
  BY <1>1
<1>2. PICK n \in X : \A m \in X : n <= m
  <2>1. X \in SUBSET Nat
    OBVIOUS
  <2> HIDE DEF X
  <2> QED BY <2>1, LeastNumber
<1>3. n # 0
  BY <1>1, <1>2, EmptySeq, Zenon DEF Keeps
<1>4. n \in 1..Len(s) /\ n - 1 \in 0..Len(s) /\ n - 1 \notin X
  BY <1>2, <1>3
<1>5. k[n] = IF n \in c THEN Append(k[n - 1], s[n]) ELSE k[n - 1]
  BY <1>1, <1>4, Zenon DEF Keeps
<1>6. k[n - 1] \in Seq(Q)
  BY <1>4
<1>7. n \in c => Append(k[n - 1], s[n]) \in Seq(Q)
  BY <1>4, <1>6, AppendProperties
<1> QED BY <1>2, <1>5, <1>6, <1>7, Zenon

\* Nothing is appended after the last element that is chosen.
LEMMA KeepsNoMore ==
  ASSUME NEW S, NEW s \in Seq(S), NEW c, NEW k, Keeps(k, s, c, S), NEW m \in 0..Len(s),
         \A i \in (m + 1)..Len(s) : i \notin c
  PROVE  k[Len(s)] = k[m]
<1>0. Len(s) \in Nat
  OBVIOUS
<1> DEFINE X == {n \in m..Len(s) : k[n] # k[m]}
<1> SUFFICES ASSUME X # {} PROVE FALSE
  BY <1>0
<1>1. PICK n \in X : \A i \in X : n <= i
  <2>1. X \in SUBSET Nat
    OBVIOUS
  <2> HIDE DEF X
  <2> QED BY <2>1, LeastNumber
<1>2. n \in (m + 1)..Len(s) /\ n - 1 \in m..Len(s) /\ n - 1 \notin X /\ n \in 1..Len(s)
  BY <1>0, <1>1
<1>3. k[n] = IF n \in c THEN Append(k[n - 1], s[n]) ELSE k[n - 1]
  BY <1>2 DEF Keeps
<1> QED BY <1>1, <1>2, <1>3

\* The first element chosen after those in c is that at n.
Later(S, s, n, c, d) ==
  s \in Seq(S) /\ n \in 1..Len(s) /\ c \subseteq 1..(n - 1) /\ d = c \cup {n}

\* It is appended to what is kept.
LEMMA KeptLater ==
  ASSUME NEW S, NEW s, NEW n, NEW c, NEW d, Later(S, s, n, c, d)
  PROVE  Kept(s, d) = Append(Kept(s, c), s[n])
<1>1. /\ s \in Seq(S) /\ n \in 1..Len(s) /\ Len(s) \in Nat /\ n \in Nat
      /\ c \subseteq 1..(n - 1) /\ d = c \cup {n}
  BY DEF Later
<1>2. PICK k : Keeps(k, s, c, S) /\ Kept(s, c) = k[Len(s)]
  BY <1>1, KeptStepwise
<1>3. PICK l : Keeps(l, s, d, S) /\ Kept(s, d) = l[Len(s)]
  BY <1>1, KeptStepwise
<1>4. PICK m : m = n - 1
  OBVIOUS
<1>5. m \in Nat /\ m <= Len(s) /\ \A i \in 1..m : s[i] = s[i] /\ (i \in c <=> i \in d)
  BY <1>1, <1>4
<1>6. k[m] = l[m]
  BY <1>1, <1>2, <1>3, <1>5, KeepsAgree
<1>7. l[n] = Append(l[m], s[n])
  BY <1>1, <1>3, <1>4, Zenon DEF Keeps
<1>8. k[Len(s)] = k[m]
  <2>1. m \in 0..Len(s) /\ \A i \in (m + 1)..Len(s) : i \notin c
    BY <1>1, <1>4, <1>5
  <2> QED BY <1>1, <1>2, <2>1, KeepsNoMore
<1>9. l[Len(s)] = l[n]
  <2>1. n \in 0..Len(s) /\ \A i \in (n + 1)..Len(s) : i \notin d
    BY <1>1
  <2> QED BY <1>1, <1>3, <2>1, KeepsNoMore
<1> QED BY <1>2, <1>3, <1>6, <1>7, <1>8, <1>9

=============================================================================
