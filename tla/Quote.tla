-------------------------------- MODULE Quote -------------------------------
(***************************************************************************)
(* Connection::quote (Connection.cpp), which makes a JSON string of the    *)
(* bytes of an identifier: one step per round of its loop.  The output is  *)
(* kept as pieces, each of which stands for consecutive bytes of the input *)
(* and says how it is written.                                             *)
(***************************************************************************)
EXTENDS Naturals, Sequences

CONSTANT Inputs \* of which the strings of bytes count

VARIABLES
    value,      \* the input
    index,      \* the next byte, counted from 1
    output      \* pieces: "copied", "backslash" or "escaped", from a byte to a byte

vars == <<value, index, output>>

Byte == 0 .. 255

-----------------------------------------------------------------------------
\* The length a first byte announces, 0 for none.
SequenceLength(character) ==
    CASE character \in 194 .. 223 -> 2
      [] character \in 224 .. 239 -> 3
      [] character \in 240 .. 244 -> 4
      [] OTHER -> 0

\* The check of the second byte; wrong: surrogates pass.
SecondFitsButSurrogates(character, next) ==
    /\ character = 224 => next >= 160
    /\ character = 240 => next >= 144
    /\ character = 244 => next < 144
SecondFits(character, next) ==
    /\ character = 224 => next >= 160
    /\ character = 237 => next < 160
    /\ character = 240 => next >= 144
    /\ character = 244 => next < 144

\* Whether a sequence of some length ends inside the input.
Ends(length) == index + length - 1 <= Len(value)

\* "valid" in the code.
Valid(length) ==
    /\ length # 0
    /\ Ends(length)
    /\ \A offset \in 1 .. length - 1 : value[index + offset] \in 128 .. 191
    /\ SecondFits(value[index], value[index + 1])

Piece(how, length) == [how |-> how, from |-> index, to |-> index + length - 1]

\* The bytes that are written as \u00XX although they are ASCII.
Control(character) == character < 32

\* What is appended in one round.
Appended ==
    LET character == value[index]
        length == SequenceLength(character)
    IN CASE character \in {34, 92} -> Piece("backslash", 1)
         [] character >= 128 /\ Valid(length) -> Piece("copied", length)
         [] character >= 128 /\ ~Valid(length) -> Piece("escaped", 1)
         [] Control(character) -> Piece("escaped", 1)
         [] OTHER -> Piece("copied", 1)

\* Where the next round begins.
NextIndex == Appended.to + 1

Init == value \in Inputs \cap Seq(Byte) /\ index = 1 /\ output = <<>>

Next == /\ index <= Len(value)
        /\ output' = Append(output, Appended)
        /\ index' = NextIndex
        /\ UNCHANGED value

Spec == Init /\ [][Next]_vars

-----------------------------------------------------------------------------
(* UTF-8 by code points: what bytes encode, and which of that is allowed. *)

Continuations(s, from, to) == \A i \in from .. to : i <= Len(s) /\ s[i] \in 128 .. 191

CodePoint2(s, i) == (s[i] - 192) * 64 + (s[i + 1] - 128)
CodePoint3(s, i) == (s[i] - 224) * 4096 + (s[i + 1] - 128) * 64 + (s[i + 2] - 128)
CodePoint4(s, i) == (s[i] - 240) * 262144 + (s[i + 1] - 128) * 4096 + (s[i + 2] - 128) * 64
                        + (s[i + 3] - 128)

Surrogate(point) == point >= 55296 /\ point <= 57343
Supplementary(point) == point >= 65536 /\ point <= 1114111

\* The bytes of s from i on begin with a code point of the given length: not one
\* that fits a shorter form, no surrogate, and none beyond U+10FFFF.
WellFormed(s, i, length) ==
    /\ Continuations(s, i + 1, i + length - 1)
    /\ \/ length = 2 /\ s[i] \in 192 .. 223 /\ CodePoint2(s, i) >= 128
       \/ /\ length = 3 /\ s[i] \in 224 .. 239
          /\ CodePoint3(s, i) >= 2048 /\ ~Surrogate(CodePoint3(s, i))
       \/ length = 4 /\ s[i] \in 240 .. 247 /\ Supplementary(CodePoint4(s, i))

-----------------------------------------------------------------------------
(* Properties. *)

\* The pieces so far stand for the bytes read so far, each once and in order.
TypeOK ==
    /\ value \in Inputs \cap Seq(Byte)
    /\ index \in 1 .. Len(value) + 1
    /\ \A i \in DOMAIN output :
           /\ output[i].how \in {"copied", "backslash", "escaped"}
           /\ output[i].from = IF i = 1 THEN 1 ELSE output[i - 1].to + 1
    /\ index = IF output = <<>> THEN 1 ELSE output[Len(output)].to + 1

\* "Keep valid UTF-8 IDs unchanged while escaping malformed/binary bytes": bytes beyond
\* ASCII are copied as whole code points, and escaped only where none begins, so
\* that the output is UTF-8 whatever the input was.
CopiesExactlyUtf8 ==
    \A i \in DOMAIN output :
        LET piece == output[i]
        IN value[piece.from] >= 128 =>
               IF piece.how = "copied" THEN WellFormed(value, piece.from, piece.to - piece.from + 1)
               ELSE \A length \in 2 .. 4 : ~WellFormed(value, piece.from, length)
=============================================================================
