------------------------------- MODULE Varint -------------------------------
(****************************************************************************)
(* ULEB128 integers, src/format/reader.c: seven bits to a byte, least       *)
(* significant first, and a bit that says whether another byte follows.     *)
(****************************************************************************)
EXTENDS TideFormat

CONSTANTS
  VARINT_BASE,                    \* 2^7
  TIDE_MAX_HEADER_VARINT_BYTES,   \* 10
  LAST_DIGIT_MAX                  \* 1: the bits of a u64 that a tenth byte can hold

ASSUME VarintAssumption ==
  /\ VARINT_BASE \in Nat \ {0, 1} /\ TIDE_MAX_HEADER_VARINT_BYTES \in Nat \ {0}
  /\ LAST_DIGIT_MAX \in Nat

Byte == [digit: 0..(VARINT_BASE - 1), more: BOOLEAN]

tide_uleb128_size[value \in Nat] ==
  IF value < VARINT_BASE THEN 1 ELSE 1 + tide_uleb128_size[value \div VARINT_BASE]

tide_write_uleb128[value \in Nat] ==
  IF value < VARINT_BASE THEN <<[digit |-> value, more |-> FALSE]>>
  ELSE <<[digit |-> value % VARINT_BASE, more |-> TRUE]>>
         \o tide_write_uleb128[value \div VARINT_BASE]

\* The value of the digits of bytes from the i-th on.
DigitsFrom[bytes \in Seq(Byte), i \in Nat] ==
  IF i > Len(bytes) THEN 0
  ELSE bytes[i].digit + VARINT_BASE * DigitsFrom[bytes, i + 1]

\* Mutant: a last digit of zero is accepted.
EndsPadded(bytes, n) ==
  /\ \A i \in 1..(n-1) : bytes[i].more
  /\ ~bytes[n].more
  /\ n = TIDE_MAX_HEADER_VARINT_BYTES => bytes[n].digit <= LAST_DIGIT_MAX

\* The loop returns 1 after its n-th byte.
Ends(bytes, n) ==
  /\ \A i \in 1..(n-1) : bytes[i].more
  /\ ~bytes[n].more
  /\ n = TIDE_MAX_HEADER_VARINT_BYTES => bytes[n].digit <= LAST_DIGIT_MAX
  /\ n > 1 => bytes[n].digit # 0

\* The value read and the number of bytes it took, 0 if nothing is read.
tide_reader_read_uleb128(bytes) ==
  LET ends == {n \in DOMAIN bytes : n <= TIDE_MAX_HEADER_VARINT_BYTES /\ Ends(bytes, n)}
  IN  IF ends = {} THEN [value |-> 0, size |-> 0]
      ELSE LET n == CHOOSE k \in ends : TRUE
           IN  [value |-> DigitsFrom[SubSeq(bytes, 1, n), 1], size |-> n]

=============================================================================
