-------------------------- MODULE DecoderContract --------------------------
(****************************************************************************)
(* What the incremental decoder promises its caller, without buffers,       *)
(* offsets or a parser: the callbacks are those a single parse of the bytes *)
(* given so far would make, in the same order, each exactly once; and when  *)
(* a decoder is finished, the verdict is that of the single parse and no    *)
(* callback is outstanding.                                                 *)
(****************************************************************************)
EXTENDS Naturals, Sequences

CONSTANTS
  Script(_, _),   \* the callbacks of a single parse of an input's first n bytes
  Verdict(_, _)   \* and its status

VARIABLES
  input,        \* the byte stream
  given,        \* bytes the decoder has accepted
  delivered,    \* callbacks made
  verdict       \* "none" until the decoder is finished

vars == <<input, given, delivered, verdict>>

Init == given = 0 /\ delivered = <<>> /\ verdict = "none"

\* More bytes are accepted only when the earlier ones have been dealt with.
Accept ==
  /\ verdict = "none"
  /\ delivered = Script(input, given)
  /\ Verdict(input, given) \in {"OK", "PARTIAL"}
  /\ given' \in Nat /\ given' > given
  /\ UNCHANGED <<input, delivered, verdict>>

\* on_record alone, or on_record with on_stream or on_packet.
Deliver ==
  /\ verdict = "none"
  /\ \E k \in 1..2 :
       /\ Len(delivered) + k <= Len(Script(input, given))
       /\ delivered' = SubSeq(Script(input, given), 1, Len(delivered) + k)
  /\ UNCHANGED <<input, given, verdict>>

Finish ==
  /\ verdict = "none"
  /\ delivered = Script(input, given)
  /\ verdict' = Verdict(input, given)
  /\ UNCHANGED <<input, given, delivered>>

\* A header is accepted, or rejected, in the step that completes it.
AcceptAndFinish ==
  /\ verdict = "none"
  /\ delivered = Script(input, given) /\ delivered = <<>>
  /\ given' \in Nat /\ given' >= given
  /\ Script(input, given') = <<>>
  /\ verdict' = Verdict(input, given')
  /\ UNCHANGED <<input, delivered>>

Next == Accept \/ Deliver \/ Finish \/ AcceptAndFinish

Spec == Init /\ [][Next]_vars

=============================================================================
