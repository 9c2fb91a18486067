----------------------------- MODULE Algorithms -----------------------------
(****************************************************************************)
(* The pure functions of the library, called one at a time with every       *)
(* argument of small ranges: time conversion, edit projection, ULEB128, the *)
(* order of a seek index and the index builder.  A state is a call and what *)
(* it returned.                                                             *)
(****************************************************************************)
EXTENDS Timeline, Varint

CONSTANTS
  INDEX_FIRST,     \* 16: the first capacity of the index builder
  Conversions,     \* sets of arguments: of tide_time_convert,
  Projections,     \* of tide_edit_project_one,
  ByteStrings,     \* of tide_reader_read_uleb128,
  SeekIndexes,     \* the entries of a seek index the decoder is given,
  Additions        \* and the entries a builder is given, with the failing allocations

Edit == [source_start: I64, output_start: I64, output_duration: I64, rate: Rational]
ASSUME ConversionsAssumption ==
  Conversions \subseteq [value: I64, source: Rational, destination: Rational, rounding: Rounding]
ASSUME ProjectionsAssumption ==
  Projections \subseteq [edits: Seq(Edit), pts: I64, duration: I64]

VARIABLES call, result
vars == <<call, result>>

------------------------------------------------------------------------------
(* src/index/index_builder.c *)

EmptyIndex == [entries |-> <<>>, capacity |-> 0]

\* The builder after one entry; fails says that realloc would return NULL.
tide_index_builder_add(index, record_offset, fails) ==
  LET count == Len(index.entries)
      full == count = index.capacity
  IN  IF count # 0 /\ record_offset < index.entries[count] THEN index
      ELSE IF full /\ fails THEN index
      ELSE [entries |-> Append(index.entries, record_offset),
            capacity |-> IF ~full THEN index.capacity
                         ELSE IF index.capacity = 0 THEN INDEX_FIRST
                         ELSE 2 * index.capacity]

\* An entry to add, by its record_offset, and whether a reallocation for it would fail.
Addition == [record_offset: Nat, fails: BOOLEAN]

\* The builder after the first n of the additions.
Built[additions \in Seq(Addition), n \in Nat] ==
  IF n = 0 THEN EmptyIndex
  ELSE tide_index_builder_add(Built[additions, n - 1],
                              additions[n].record_offset, additions[n].fails)

------------------------------------------------------------------------------
NoCall == [op |-> "none"]

Init == call = NoCall /\ result = "none"

Convert ==
  \E c \in Conversions :
    /\ call' = [op |-> "convert", args |-> c]
    /\ result' = tide_time_convert(c.value, c.source, c.destination, c.rounding)

Reduce ==
  \E r \in Rational :
    call' = [op |-> "reduce", args |-> r] /\ result' = tide_rational_reduce(r)

Project ==
  \E c \in Projections :
    /\ call' = [op |-> "project", args |-> c]
    /\ result' = tide_edit_project_one(c.edits, c.pts, c.duration)

ReadVarint ==
  \E b \in ByteStrings :
    call' = [op |-> "varint", args |-> b] /\ result' = tide_reader_read_uleb128(b)

\* The decoder at a seek index that every track of it was declared before.
CheckIndex ==
  \E e \in SeekIndexes :
    /\ call' = [op |-> "seek", args |-> e]
    /\ result' = SeekIndexStatus(
         [layout |-> TRUE, count |-> Len(e), entries |-> e],
         [i \in DOMAIN e |-> e[i].track], TIDE_HEADER_SIZE + 1)

BuildIndex ==
  \E a \in Additions :
    call' = [op |-> "build", args |-> a] /\ result' = Built[a, Len(a)]

Return == call # NoCall /\ call' = NoCall /\ result' = "none"

Next ==
  \/ call = NoCall /\ (Convert \/ Reduce \/ Project \/ ReadVarint \/ CheckIndex \/ BuildIndex)
  \/ Return

Spec == Init /\ [][Next]_vars

------------------------------------------------------------------------------
(* Properties *)

\* q is n / d, which need not be an integer, rounded as the mode says.
IsRounded(q, n, d, rounding) ==
  /\ rounding = "FLOOR" => q * d <= n /\ n < (q + 1) * d
  /\ rounding = "CEIL" => n <= q * d /\ (q - 1) * d < n
  /\ rounding = "NEAREST_EVEN" => /\ 2 * (n - q * d) <= d /\ 2 * (q * d - n) <= d
                                  /\ 2 * (n - q * d) \in {d, -d} => q % 2 = 0

\* tide_time_convert returns the exact quotient of the two time bases, rounded once; it
\* fails only for a time base that is not reduced or a result that is no int64_t.
\* tide_rational_reduce makes an equal time base that it accepts.
ConvertExact ==
  /\ call.op = "convert" =>
       LET c == call.args
           n == c.value * c.source[1] * c.destination[2]
           d == c.source[2] * c.destination[1]
           valid == \A r \in {c.source, c.destination} : tide_rational_reduce(r) = Ok(r)
       IN  IF result.status = "OK" THEN valid /\ IsRounded(result.out, n, d, c.rounding)
           ELSE valid => ~\E q \in I64 : IsRounded(q, n, d, c.rounding)
  /\ call.op = "reduce" /\ result.status = "OK" =>
       /\ result.out[1] * call.args[2] = result.out[2] * call.args[1]
       /\ tide_rational_is_valid(result.out)

\* The products tide_time_convert forms are of type __int128: that of all factors of the
\* value, which bounds those of some, and twice a remainder.
ConversionInRange ==
  call.op = "convert" =>
    LET c == call.args
    IN  tide_rational_is_valid(c.source) /\ tide_rational_is_valid(c.destination) =>
          /\ c.value * Ratio(c.source, c.destination)[1] \in I128
          /\ 2 * Ratio(c.source, c.destination)[2] \in I128

\* The sums and differences tide_edit_project_one forms are of type int64_t: for each edit
\* that passes the checks of the loop the two ends, the offset of the piece in the edit and
\* what the offset is compared with, and for the piece that is returned its output time,
\* output_start + (start - source_start), and its length.
ProjectionInRange ==
  call.op = "project" =>
    LET c == call.args
    IN  /\ \A i \in DOMAIN c.edits :
             LET e == c.edits[i]
                 p == Piece(e, c.pts, c.duration)
             IN  c.duration >= 0 /\ ~Refused(e, c.pts, c.duration) =>
                   /\ {e.source_start + e.output_duration, c.pts + c.duration} \subseteq I64
                   /\ p.start < p.end => {p.start - e.source_start, p.end - p.start,
                                          I64_MAX - (p.start - e.source_start)} \subseteq I64
        /\ result.status = "OK" => result.out.pts \in I64 /\ result.out.duration \in I64

\* Neither a product of tide_time_convert nor a sum or difference of
\* tide_edit_project_one leaves its type.
NoOverflow == ConversionInRange /\ ProjectionInRange

\* The output times an edit of rate 1/1 covers, and the source times it shows there.
Covers(e) == e.output_start..(e.output_start + e.output_duration - 1)
Shows(e, t) == e.source_start + (t - e.output_start)

\* With edits of rate 1/1 a projection is a nonempty piece of one edit, in which every
\* instant shows an instant of the packet; a packet that is dropped has no instant in any
\* edit.  Other rates are left out: tide_edit_project_one checks that a rate is valid and
\* never applies it, where 04_tide_streaming_media_container.md:377 has "scale by rational
\* edit rate".
PieceInsideEdit ==
  call.op = "project" /\ (\A i \in DOMAIN call.args.edits : call.args.edits[i].rate = <<1, 1>>) =>
    LET c == call.args
        packet == c.pts..(c.pts + c.duration - 1)
    IN  /\ result.status = "OK" =>
             /\ result.out.duration > 0
             /\ \E i \in DOMAIN c.edits :
                  \A t \in result.out.pts..(result.out.pts + result.out.duration - 1) :
                    t \in Covers(c.edits[i]) /\ Shows(c.edits[i], t) \in packet
        /\ result.status = "PARTIAL" =>
             \A i \in DOMAIN c.edits : \A t \in Covers(c.edits[i]) :
               Shows(c.edits[i], t) \notin packet

\* The reader accepts exactly the bytes the writer produces for a u64, and what is read
\* is the value that was written: an integer has one encoding.
VarintCanonical ==
  call.op = "varint" =>
    LET written == {v \in 0..U64_MAX :
                      LET w == tide_write_uleb128[v]
                      IN  Len(w) <= Len(call.args) /\ SubSeq(call.args, 1, Len(w)) = w}
    IN  IF result.size = 0 THEN written = {}
        ELSE /\ written = {result.value}
             /\ result.size = tide_uleb128_size[result.value]

\* A seek index is accepted exactly if its entries are ordered by track and then by
\* timestamp, where the decoder takes every negative timestamp for 0: the entries of one
\* track before time 0 may stand in any order.  This is for timestamps below the bits of the
\* track in the sort key; from there on the key orders neither tracks nor timestamps.  The
\* builder's index is in the order of the records.
IndexesOrdered ==
  /\ call.op = "seek" /\ (\A i \in DOMAIN call.args : call.args[i].pts < SORT_KEY_SPAN) =>
       LET e == call.args
           time(i) == Larger(e[i].pts, 0)
       IN  result = "OK" <=>
             \A i, j \in DOMAIN e : i < j =>
               \/ e[i].track[1] < e[j].track[1]
               \/ e[i].track[1] = e[j].track[1] /\ time(i) <= time(j)
  /\ call.op = "build" =>
       /\ Len(result.entries) <= result.capacity
       /\ \A i, j \in DOMAIN result.entries : i < j => result.entries[i] <= result.entries[j]

=============================================================================
