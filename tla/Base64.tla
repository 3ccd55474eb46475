------------------------------- MODULE Base64 -------------------------------
(***************************************************************************)
(* The base64 the bridge encodes and decodes by hand: byte strings cross it *)
(* as text (dto/files.rs:139-227; dto/message.rs and dto/update.rs hold    *)
(* copies of the encoder).  Bytes are 0..255 and a character is its ASCII  *)
(* code.                                                                   *)
(***************************************************************************)
EXTENDS Integers, Sequences

Byte == 0..255
Pad == 61                                    \* =
Whitespace == {9, 10, 12, 13, 32}

-----------------------------------------------------------------------------
(* The alphabet.                                                           *)

\* The character of a sextet: A-Z, a-z, 0-9, + and /.
Character(v) ==
    IF v < 26 THEN 65 + v
    ELSE IF v < 52 THEN 97 + (v - 26)
    ELSE IF v < 62 THEN 48 + (v - 52)
    ELSE IF v = 62 THEN 43 ELSE 47

IsCharacter(c) == c \in (65..90) \cup (97..122) \cup (48..57) \cup {43, 47}

Sextet(c) ==
    IF c \in 65..90 THEN c - 65
    ELSE IF c \in 97..122 THEN c - 97 + 26
    ELSE IF c \in 48..57 THEN c - 48 + 52
    ELSE IF c = 43 THEN 62 ELSE 63

-----------------------------------------------------------------------------
(* Encoding.                                                               *)

\* The bytes of a group that are there; those that are not count as zero.
Groups(n) == (n + 2) \div 3
Present(bytes, g) == IF Len(bytes) - 3 * g < 3 THEN Len(bytes) - 3 * g ELSE 3
ByteAt(bytes, i) == IF i <= Len(bytes) THEN bytes[i] ELSE 0

\* The four sextets of three bytes.
SextetOf(b1, b2, b3, k) ==
    CASE k = 0 -> b1 \div 4
      [] k = 1 -> 16 * (b1 % 4) + (b2 \div 16)
      [] k = 2 -> 4 * (b2 % 16) + (b3 \div 64)
      [] OTHER -> b3 % 64

\* The k-th character of group g: one more than the bytes that are there,
\* then padding.
Encoded(bytes, g, k) ==
    IF k <= Present(bytes, g)
    THEN Character(SextetOf(ByteAt(bytes, 3 * g + 1), ByteAt(bytes, 3 * g + 2),
                            ByteAt(bytes, 3 * g + 3), k))
    ELSE Pad

Encode(bytes) ==
    [i \in 1..(4 * Groups(Len(bytes))) |->
        Encoded(bytes, (i - 1) \div 4, (i - 1) % 4)]

-----------------------------------------------------------------------------
(* Decoding.                                                               *)

\* A character that is padding ends its text: it stands in the last group,
\* not in its first two places, and nothing but padding follows it.
WellPadded(chars, i) ==
    /\ 4 * ((i - 1) \div 4) + 4 = Len(chars)
    /\ (i - 1) % 4 >= 2
    /\ i < Len(chars) => chars[i + 1] = Pad

\* What decode_base64 accepts once white space is dropped.
Decodable(chars) ==
    /\ Len(chars) % 4 = 0
    /\ \A i \in DOMAIN chars :
          IF chars[i] = Pad THEN WellPadded(chars, i) ELSE IsCharacter(chars[i])

SextetAt(chars, i) == IF chars[i] = Pad THEN 0 ELSE Sextet(chars[i])

\* The three bytes of four sextets.
ByteOf(s1, s2, s3, s4, k) ==
    CASE k = 0 -> 4 * s1 + (s2 \div 16)
      [] k = 1 -> 16 * (s2 % 16) + (s3 \div 4)
      [] OTHER -> 64 * (s3 % 4) + s4

\* The last group gives a byte less for each of its padding characters.
Padding(chars) ==
    IF chars = <<>> \/ chars[Len(chars)] # Pad THEN 0
    ELSE IF chars[Len(chars) - 1] # Pad THEN 1 ELSE 2

Decode(chars) ==
    [i \in 1..(3 * (Len(chars) \div 4) - Padding(chars)) |->
        LET at == 4 * ((i - 1) \div 3) IN
        ByteOf(SextetAt(chars, at + 1), SextetAt(chars, at + 2),
               SextetAt(chars, at + 3), SextetAt(chars, at + 4), (i - 1) % 3)]

\* White space is dropped before anything is counted.
WithoutWhitespace(text) == SelectSeq(text, LAMBDA c : c \notin Whitespace)

-----------------------------------------------------------------------------
(* Properties.                                                             *)

\* What is encoded is accepted by the decoder and decodes to itself.
RoundTrips(bytes) ==
    /\ Decodable(Encode(bytes))
    /\ Decode(Encode(bytes)) = bytes
=============================================================================
