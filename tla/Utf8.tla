------------------------------- MODULE Utf8 -------------------------------
(***************************************************************************)
(* The two UTF-8 routines of the bundled utfcpp library that Keyboard.cpp  *)
(* calls (libraries/utf8, not among the sources; modelled from the         *)
(* library's documented behaviour): utf8::peek_next, which decodes the     *)
(* first code point of a byte string and throws on an empty, truncated or  *)
(* invalid sequence, and utf8::unchecked::append, which encodes a code     *)
(* point in one to four bytes without any check.  A byte string is a       *)
(* sequence of numbers in 0..255.                                          *)
(***************************************************************************)
EXTENDS Integers, Sequences, Bitwise

\* What a call that throws yields in this model: no code point is negative.
Throw == -1

IsCont(b) == b >= 128 /\ b < 192

\* Length of the sequence a lead byte announces; 0 for a byte that cannot lead.
SeqLen(b) ==
    IF b < 128 THEN 1
    ELSE IF b >= 192 /\ b < 224 THEN 2
    ELSE IF b >= 224 /\ b < 240 THEN 3
    ELSE IF b >= 240 /\ b < 248 THEN 4
    ELSE 0

\* The payload bits of the lead byte of an n-byte sequence.
LeadBits(b, n) == CASE n = 1 -> b [] n = 2 -> b - 192 [] n = 3 -> b - 224 [] n = 4 -> b - 240

RECURSIVE Accumulate(_, _, _)
\* Code point from the lead bits cp and the continuation bytes s[2..n].
Accumulate(s, i, cp) ==
    IF i > Len(s) THEN cp ELSE Accumulate(s, i + 1, cp * 64 + (s[i] - 128))

\* Smallest code point that needs n bytes (anything below is overlong).
MinCp(n) == CASE n = 1 -> 0 [] n = 2 -> 128 [] n = 3 -> 2048 [] n = 4 -> 65536

IsCodePoint(cp) == cp <= 1114111 /\ ~(cp >= 55296 /\ cp <= 57343)

\* A value stored into a char, and a continuation byte of the low six bits.
Byte(v) == v % 256
Cont(v) == (v % 64) | 128

(* utf8::peek_next: the first code point of s, or Throw (not_enough_room, *)
(* invalid_lead, incomplete_sequence, overlong_sequence or                 *)
(* invalid_code_point).                                                    *)
PeekNext(s) ==
    IF s = <<>> THEN Throw
    ELSE LET n == SeqLen(s[1]) IN
         IF n = 0 \/ Len(s) < n THEN Throw
         ELSE IF \E i \in 2..n : ~IsCont(s[i]) THEN Throw
         ELSE LET cp == Accumulate(SubSeq(s, 1, n), 2, LeadBits(s[1], n)) IN
              IF cp < MinCp(n) \/ ~IsCodePoint(cp) THEN Throw ELSE cp

(* Mutant of Append8: the two-byte form shifts by five bits, not six.     *)
Append8Shift5(cp) ==
    IF cp < 128 THEN <<cp % 256>>
    ELSE IF cp < 2048 THEN <<Byte((cp \div 32) | 192), Cont(cp)>>
    ELSE IF cp < 65536 THEN <<Byte((cp \div 4096) | 224), Cont(cp \div 64), Cont(cp)>>
    ELSE <<Byte((cp \div 262144) | 240), Cont(cp \div 4096), Cont(cp \div 64), Cont(cp)>>

(* utf8::unchecked::append: the bytes of cp, one to four of them, each     *)
(* stored into a char, so a lead computed from a value above U+10FFFF is   *)
(* cut to its low eight bits.                                              *)
Append8(cp) ==
    IF cp < 128 THEN <<cp % 256>>
    ELSE IF cp < 2048 THEN <<Byte((cp \div 64) | 192), Cont(cp)>>
    ELSE IF cp < 65536 THEN <<Byte((cp \div 4096) | 224), Cont(cp \div 64), Cont(cp)>>
    ELSE <<Byte((cp \div 262144) | 240), Cont(cp \div 4096), Cont(cp \div 64), Cont(cp)>>

=============================================================================
