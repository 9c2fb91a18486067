------------------------------ MODULE Timeline ------------------------------
(****************************************************************************)
(* Time conversion and edit projection, src/model/time.c and edit.c.  The   *)
(* widths of the integers are constants, so that the checks against them    *)
(* can be explored on small widths and proved for all.                      *)
(****************************************************************************)
EXTENDS TideFormat

CONSTANTS
  U32_MAX,     \* 2^32 - 1
  I128_MAX     \* 2^127 - 1

ASSUME WidthAssumption ==
  /\ U32_MAX \in Nat /\ I64_MAX \in Nat /\ I128_MAX \in Nat
  /\ (I64_MAX + 1) * (U32_MAX * U32_MAX) <= I128_MAX
  /\ 2 * (U32_MAX * U32_MAX) <= I128_MAX

I64 == (-I64_MAX - 1)..I64_MAX
I128 == (-I128_MAX - 1)..I128_MAX
Rational == (0..U32_MAX) \X (0..U32_MAX)       \* <<numerator, denominator>>
Rounding == {"FLOOR", "CEIL", "NEAREST_EVEN"}

Ok(out) == [status |-> "OK", out |-> out]
Fails(s) == [status |-> s, out |-> 0]           \* *out is not written

------------------------------------------------------------------------------
(* src/model/time.c *)

tide_gcd_u64[p \in Nat \X Nat] ==
  IF p[2] = 0 THEN p[1] ELSE tide_gcd_u64[<<p[2], p[1] % p[2]>>]

tide_rational_is_valid(r) == r[1] # 0 /\ r[2] # 0 /\ tide_gcd_u64[r] = 1

tide_rational_reduce(r) ==
  LET gcd == tide_gcd_u64[r]
  IN  IF r[1] = 0 \/ r[2] = 0 THEN Fails("TIMELINE")
      ELSE Ok(<<r[1] \div gcd, r[2] \div gcd>>)

\* The / and % of C: the quotient is rounded toward zero.
Quotient(n, d) == IF n >= 0 THEN n \div d ELSE -((-n) \div d)
Remainder(n, d) == IF n >= 0 THEN n % d ELSE (-n) % d    \* made positive

\* Whether the quotient is corrected by one away from zero.
Away(n, d, rounding) ==
  \/ rounding = "FLOOR" /\ n < 0 /\ Remainder(n, d) # 0
  \/ rounding = "CEIL" /\ n > 0 /\ Remainder(n, d) # 0
  \/ /\ rounding = "NEAREST_EVEN"
     /\ \/ 2 * Remainder(n, d) > d
        \/ 2 * Remainder(n, d) = d /\ Quotient(n, d) % 2 = 1

\* Mutant: the correction has the sign of the quotient, which may be 0.
RoundedByQuotient(n, d, rounding) ==
  IF Away(n, d, rounding) THEN Quotient(n, d) + (IF Quotient(n, d) >= 0 THEN 1 ELSE -1)
  ELSE Quotient(n, d)

Rounded(n, d, rounding) ==
  IF Away(n, d, rounding) THEN Quotient(n, d) + (IF n >= 0 THEN 1 ELSE -1)
  ELSE Quotient(n, d)

tide_round_div_i128(n, d, rounding) ==
  IF d <= 0 THEN Fails("INVALID_ARGUMENT")
  ELSE IF Rounded(n, d, rounding) \notin I64 THEN Fails("TIMELINE")
  ELSE Ok(Rounded(n, d, rounding))

\* What a value is multiplied and divided by, with common factors cancelled.
Ratio(source, destination) ==
  LET gcd1 == tide_gcd_u64[<<source[1], destination[1]>>]
      gcd2 == tide_gcd_u64[<<destination[2], source[2]>>]
  IN  <<(source[1] \div gcd1) * (destination[2] \div gcd2),
        (destination[1] \div gcd1) * (source[2] \div gcd2)>>

tide_time_convert(value, source, destination, rounding) ==
  IF ~tide_rational_is_valid(source) \/ ~tide_rational_is_valid(destination)
  THEN Fails("TIMELINE")
  ELSE tide_round_div_i128(value * Ratio(source, destination)[1],
                           Ratio(source, destination)[2], rounding)

------------------------------------------------------------------------------
(* src/model/edit.c *)

Larger(a, b) == IF a > b THEN a ELSE b
Smaller(a, b) == IF a < b THEN a ELSE b

\* The additions the loop makes for edit e would overflow, or the edit is malformed.
Refused(e, pts, duration) ==
  \/ ~tide_rational_is_valid(e.rate)
  \/ e.output_duration < 0
  \/ e.source_start > I64_MAX - e.output_duration
  \/ pts > I64_MAX - duration

\* Mutant: the part of the packet before the edit is not cut off.
PieceUnclipped(e, pts, duration) ==
  [start |-> pts, end |-> Smaller(pts + duration, e.source_start + e.output_duration)]

\* The part of the packet inside the edit, in source time.
Piece(e, pts, duration) ==
  [start |-> Larger(pts, e.source_start),
   end |-> Smaller(pts + duration, e.source_start + e.output_duration)]

Overlaps(e, pts, duration) == Piece(e, pts, duration).start < Piece(e, pts, duration).end

\* Mutant: the output time is not checked.
ProjectedUnchecked(e, p) ==
  Ok([pts |-> e.output_start + (p.start - e.source_start), duration |-> p.end - p.start])

\* The piece in output time; the rate of the edit is not used.
Projected(e, p) ==
  IF e.output_start > I64_MAX - (p.start - e.source_start) THEN Fails("TIMELINE")
  ELSE Ok([pts |-> e.output_start + (p.start - e.source_start),
           duration |-> p.end - p.start])

\* The loop stops at the first edit that is refused or that the packet overlaps.
tide_edit_project_one(edits, pts, duration) ==
  LET stops == {i \in DOMAIN edits : \/ Refused(edits[i], pts, duration)
                                     \/ Overlaps(edits[i], pts, duration)}
      i == CHOOSE k \in stops : \A m \in stops : k <= m
  IN  IF duration < 0 THEN Fails("INVALID_ARGUMENT")
      ELSE IF stops = {} THEN Fails("PARTIAL")
      ELSE IF Refused(edits[i], pts, duration) THEN Fails("TIMELINE")
      ELSE Projected(edits[i], Piece(edits[i], pts, duration))

=============================================================================
