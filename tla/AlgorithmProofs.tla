--------------------------- MODULE AlgorithmProofs ---------------------------
(***************************************************************************)
(* Proofs about the pure algorithms, for every input: what quote copies is *)
(* exactly the UTF-8 in it (Quote), what decode_amqp_value rejects and     *)
(* keeps of a value, for any limit of nesting (ValueDecoder), and that the *)
(* debugging consumer reads any command line as it was written             *)
(* (EndpointOptions).                                                      *)
(***************************************************************************)
EXTENDS MCAlgorithms, SequenceTheorems, WellFoundedInduction, TLAPS

-----------------------------------------------------------------------------
(* Quote. *)

Continuation == 128 .. 191
Pieces == [how : {"copied", "backslash", "escaped"}, from : Nat, to : Nat]

\* What the property says of one piece.
WellCopied(piece) ==
    value[piece.from] >= 128 =>
        IF piece.how = "copied" THEN WellFormed(value, piece.from, piece.to - piece.from + 1)
        ELSE \A length \in 2 .. 4 : ~WellFormed(value, piece.from, length)

Inv ==
    /\ TypeOK
    /\ output \in Seq(Pieces)
    /\ CopiesExactlyUtf8

-----------------------------------------------------------------------------
(* First and second bytes. *)

\* The first of three and of four bytes, and the code points that they stand for.
Leads3 == 224 .. 239
Leads4 == 240 .. 247
Point3(a, b, c) == (a - 224) * 4096 + (b - 128) * 64 + (c - 128)
Point4(a, b, c, d) == (a - 240) * 262144 + (b - 128) * 4096 + (c - 128) * 64 + (d - 128)

\* Two bytes: 192 and 193 would encode ASCII.
LEMMA TwoBytes ==
    ASSUME NEW a \in Byte, NEW b \in Continuation
    PROVE  a \in 194 .. 223 <=> a \in 192 .. 223 /\ (a - 192) * 64 + (b - 128) >= 128
  BY SMT DEF Byte, Continuation

\* Three bytes: 224 needs a second byte of 160 at least, 237 one below.
LEMMA ThreeBytes ==
    ASSUME NEW a \in Leads3, NEW b \in Continuation, NEW c \in Continuation
    PROVE  SecondFits(a, b)
           <=> Point3(a, b, c) >= 2048 /\ ~Surrogate(Point3(a, b, c))
  BY SMT DEF Surrogate, SecondFits, Continuation, Point3, Leads3

\* Four bytes: 240 needs a second byte of 144 at least, 244 one below, and nothing
\* above 244 stays within U+10FFFF.
LEMMA FourBytes ==
    ASSUME NEW a \in Leads4, NEW b \in Continuation, NEW c \in Continuation,
           NEW d \in Continuation
    PROVE  a \in 240 .. 244 /\ SecondFits(a, b)
           <=> Supplementary(Point4(a, b, c, d))
<1>1. CASE a = 240
  BY <1>1 DEF SecondFits, Supplementary, Continuation, Point4
<1>2. CASE a \in {241, 242, 243}
  BY <1>2 DEF SecondFits, Supplementary, Continuation, Point4
<1>3. CASE a = 244
  BY <1>3 DEF SecondFits, Supplementary, Continuation, Point4
<1>4. CASE a \in 245 .. 247
  <2>1. (a - 240) * 262144 >= 1310720
    BY <1>4
  <2> QED
    BY <1>4, <2>1 DEF Supplementary, Continuation, Point4
<1>5. a = 240 \/ a \in {241, 242, 243} \/ a = 244 \/ a \in 245 .. 247
  BY DEF Leads4
<1> QED
  BY <1>1, <1>2, <1>3, <1>4, <1>5

\* The lengths first bytes announce.
LEMMA SequenceLengths ==
    ASSUME NEW a \in Byte
    PROVE  /\ SequenceLength(a) = 2 <=> a \in 194 .. 223
           /\ SequenceLength(a) = 3 <=> a \in 224 .. 239
           /\ SequenceLength(a) = 4 <=> a \in 240 .. 244
           /\ SequenceLength(a) \in {0, 2, 3, 4}
<1>1. CASE a \in 194 .. 223
  BY <1>1 DEF SequenceLength
<1>2. CASE a \in 224 .. 239
  BY <1>2 DEF SequenceLength
<1>3. CASE a \in 240 .. 244
  BY <1>3 DEF SequenceLength
<1>4. CASE a \notin 194 .. 223 /\ a \notin 224 .. 239 /\ a \notin 240 .. 244
  BY <1>4 DEF SequenceLength
<1> QED
  BY <1>1, <1>2, <1>3, <1>4

-----------------------------------------------------------------------------
(* The check of a sequence. *)

\* The continuation bytes the code looks at are those of the definition.
LEMMA SameContinuations ==
    ASSUME value \in Seq(Byte), index \in 1 .. Len(value), NEW length \in 2 .. 4
    PROVE  Continuations(value, index + 1, index + length - 1)
           <=> /\ Ends(length)
               /\ \A offset \in 1 .. length - 1 : value[index + offset] \in 128 .. 191
<1>1. ASSUME Continuations(value, index + 1, index + length - 1)
      PROVE  /\ Ends(length)
             /\ \A offset \in 1 .. length - 1 : value[index + offset] \in 128 .. 191
  <2>1. index + length - 1 \in index + 1 .. index + length - 1
    OBVIOUS
  <2>2. Ends(length)
    BY <1>1, <2>1 DEF Continuations, Ends
  <2>3. ASSUME NEW offset \in 1 .. length - 1
        PROVE  value[index + offset] \in 128 .. 191
    <3>1. index + offset \in index + 1 .. index + length - 1
      OBVIOUS
    <3> QED
      BY <1>1, <3>1 DEF Continuations
  <2> QED
    BY <2>2, <2>3
<1>2. ASSUME Ends(length),
             \A offset \in 1 .. length - 1 : value[index + offset] \in 128 .. 191
      PROVE  Continuations(value, index + 1, index + length - 1)
  <2>1. ASSUME NEW i \in index + 1 .. index + length - 1
        PROVE  i <= Len(value) /\ value[i] \in 128 .. 191
    <3>1. PICK offset \in 1 .. length - 1 : i = index + offset
      <4>1. i - index \in 1 .. length - 1 /\ i = index + (i - index)
        OBVIOUS
      <4> QED
        BY <4>1
    <3>2. i <= Len(value)
      BY <1>2 DEF Ends
    <3> QED
      BY <1>2, <3>1, <3>2
  <2> QED
    BY <2>1 DEF Continuations
<1> QED
  BY <1>1, <1>2

\* The code's test of a sequence is well-formedness, for the length the first byte
\* announces; for every other length the bytes are not well-formed.
LEMMA ValidIsWellFormed ==
    ASSUME value \in Seq(Byte), index \in 1 .. Len(value), NEW length \in 2 .. 4
    PROVE  WellFormed(value, index, length)
           <=> length = SequenceLength(value[index]) /\ Valid(length)
<1> DEFINE Follow == Continuations(value, index + 1, index + length - 1)
<1>1. PICK a \in Byte : a = value[index]
  OBVIOUS
<1>2. Follow <=> /\ Ends(length)
                 /\ \A offset \in 1 .. length - 1 : value[index + offset] \in 128 .. 191
  BY SameContinuations
<1>3. Valid(length) <=> Follow /\ SecondFits(a, value[index + 1])
  <2>1. length # 0
    OBVIOUS
  <2> HIDE DEF Follow
  <2> QED
    BY <1>1, <1>2, <2>1, Zenon DEF Valid
<1>4. Follow => value[index + 1] \in Continuation
  BY <1>2 DEF Continuation
<1>5. Follow /\ length \in 3 .. 4 => value[index + 2] \in Continuation
  BY <1>2 DEF Continuation
<1>6. Follow /\ length = 4 => value[index + 3] \in Continuation
  BY <1>2 DEF Continuation
<1> HIDE DEF Follow
<1>7. CASE length = 2
  <2> DEFINE Allowed == CodePoint2(value, index) >= 128
  <2>1. WellFormed(value, index, length) <=> Follow /\ a \in 192 .. 223 /\ Allowed
    BY <1>1, <1>7, SMT DEF WellFormed, Follow
  <2>2. ASSUME Follow
        PROVE  a \in 194 .. 223 <=> a \in 192 .. 223 /\ Allowed
    <3>1. PICK b \in Continuation : b = value[index + 1]
      BY <1>4, <2>2
    <3>2. a \in 194 .. 223 <=> a \in 192 .. 223 /\ (a - 192) * 64 + (b - 128) >= 128
      BY TwoBytes
    <3> QED
      BY <1>1, <3>1, <3>2 DEF CodePoint2
  <2> HIDE DEF Allowed
  <2>3. a \in 194 .. 223 => SecondFits(a, value[index + 1])
    BY DEF SecondFits
  <2>4. length = SequenceLength(a) <=> a \in 194 .. 223
    BY <1>7, SequenceLengths
  <2> QED
    BY <1>1, <1>3, <2>1, <2>2, <2>3, <2>4
<1>8. CASE length = 3
  <2> DEFINE Allowed == CodePoint3(value, index) >= 2048 /\ ~Surrogate(CodePoint3(value, index))
  <2>1. WellFormed(value, index, length) <=> Follow /\ a \in 224 .. 239 /\ Allowed
    BY <1>1, <1>8, SMT DEF WellFormed, Follow
  <2>2. ASSUME Follow, a \in 224 .. 239
        PROVE  SecondFits(a, value[index + 1]) <=> Allowed
    <3>1. PICK b \in Continuation : b = value[index + 1]
      BY <1>4, <2>2
    <3>2. PICK c \in Continuation : c = value[index + 2]
      BY <1>5, <1>8, <2>2
    <3> DEFINE point == Point3(a, b, c)
    <3>3. SecondFits(a, b) <=> point >= 2048 /\ ~Surrogate(point)
      <4>1. a \in Leads3
        BY <2>2 DEF Leads3
      <4> QED
        BY <4>1, ThreeBytes
    <3>4. CodePoint3(value, index) = point
      BY <1>1, <3>1, <3>2 DEF CodePoint3, Point3
    <3> HIDE DEF point
    <3> QED
      BY <3>1, <3>3, <3>4
  <2> HIDE DEF Allowed
  <2>3. length = SequenceLength(a) <=> a \in 224 .. 239
    BY <1>8, SequenceLengths
  <2> QED
    BY <1>1, <1>3, <2>1, <2>2, <2>3
<1>9. CASE length = 4
  <2> DEFINE Allowed == Supplementary(CodePoint4(value, index))
  <2>1. WellFormed(value, index, length) <=> Follow /\ a \in 240 .. 247 /\ Allowed
    BY <1>1, <1>9, SMT DEF WellFormed, Follow
  <2>2. ASSUME Follow, a \in 240 .. 247
        PROVE  a \in 240 .. 244 /\ SecondFits(a, value[index + 1]) <=> Allowed
    <3>1. PICK b \in Continuation : b = value[index + 1]
      BY <1>4, <2>2
    <3>2. PICK c \in Continuation : c = value[index + 2]
      BY <1>5, <1>9, <2>2
    <3>3. PICK d \in Continuation : d = value[index + 3]
      BY <1>6, <1>9, <2>2
    <3> DEFINE point == Point4(a, b, c, d)
    <3>4. a \in 240 .. 244 /\ SecondFits(a, b) <=> Supplementary(point)
      <4>1. a \in Leads4
        BY <2>2 DEF Leads4
      <4> QED
        BY <4>1, FourBytes
    <3>5. CodePoint4(value, index) = point
      BY <1>1, <3>1, <3>2, <3>3 DEF CodePoint4, Point4
    <3> HIDE DEF point
    <3> QED
      BY <3>1, <3>4, <3>5
  <2> HIDE DEF Allowed
  <2>3. length = SequenceLength(a) <=> a \in 240 .. 244
    BY <1>9, SequenceLengths
  <2>4. a \in 240 .. 244 => a \in 240 .. 247
    OBVIOUS
  <2> QED
    BY <1>1, <1>3, <2>1, <2>2, <2>3, <2>4
<1> QED
  BY <1>7, <1>8, <1>9

-----------------------------------------------------------------------------
(* One round of the loop. *)

\* What a piece is.
LEMMA PieceFields ==
    ASSUME index \in Nat \ {0}, NEW how \in {"copied", "backslash", "escaped"},
           NEW length \in 1 .. 4
    PROVE  /\ Piece(how, length) \in Pieces
           /\ Piece(how, length).how = how
           /\ Piece(how, length).from = index
           /\ Piece(how, length).to = index + length - 1
           /\ Piece(how, length).to - Piece(how, length).from + 1 = length
  BY DEF Piece, Pieces

\* A round appends a piece that begins at the next byte, ends inside the input, and
\* is what the property asks for.
LEMMA Round ==
    ASSUME value \in Seq(Byte), index \in 1 .. Len(value)
    PROVE  /\ Appended \in Pieces
           /\ Appended.from = index
           /\ Appended.to \in index .. Len(value)
           /\ WellCopied(Appended)
<1>1. PICK character \in Byte : character = value[index]
  OBVIOUS
<1>2. PICK length \in {0, 2, 3, 4} : length = SequenceLength(character)
  BY SequenceLengths
<1>3. index \in Nat \ {0}
  OBVIOUS
<1>4. CASE character < 128
  <2>1. PICK how \in {"copied", "backslash", "escaped"} : Appended = Piece(how, 1)
    <3>1. ~(character >= 128)
      BY <1>4 DEF Byte
    <3> QED
      BY <1>1, <3>1 DEF Appended
  <2>2. /\ Appended \in Pieces
        /\ Appended.from = index
        /\ Appended.to = index + 1 - 1
    BY <1>3, <2>1, PieceFields
  <2>3. ~(value[Appended.from] >= 128)
    BY <1>1, <1>4, <2>2 DEF Byte
  <2> QED
    BY <2>2, <2>3 DEF WellCopied
<1>5. CASE character >= 128 /\ Valid(length)
  <2>1. Appended = Piece("copied", length)
    <3>1. character \notin {34, 92} /\ ~Control(character)
      BY <1>5 DEF Control, Byte
    <3>2. value[index] = character /\ SequenceLength(value[index]) = length
      BY <1>1, <1>2
    <3> QED
      BY <1>5, <3>1, <3>2 DEF Appended
  <2>2. length \in 2 .. 4
    BY <1>5 DEF Valid
  <2>3. WellFormed(value, index, length)
    BY <1>1, <1>2, <1>5, <2>2, ValidIsWellFormed
  <2>4. index + length - 1 \in index .. Len(value)
    BY <1>5, <2>2 DEF Valid, Ends
  <2>5. /\ Appended \in Pieces
        /\ Appended.how = "copied"
        /\ Appended.from = index
        /\ Appended.to = index + length - 1
        /\ Appended.to - Appended.from + 1 = length
    BY <1>3, <2>1, <2>2, PieceFields
  <2>6. WellFormed(value, Appended.from, Appended.to - Appended.from + 1)
    BY <2>3, <2>5
  <2> QED
    BY <2>4, <2>5, <2>6 DEF WellCopied
<1>6. CASE character >= 128 /\ ~Valid(length)
  <2>1. Appended = Piece("escaped", 1)
    BY <1>1, <1>2, <1>6 DEF Appended, Byte
  <2>2. \A other \in 2 .. 4 : ~WellFormed(value, index, other)
    BY <1>1, <1>2, <1>6, ValidIsWellFormed
  <2>3. /\ Appended \in Pieces
        /\ Appended.how = "escaped"
        /\ Appended.from = index
        /\ Appended.to = index + 1 - 1
    BY <1>3, <2>1, PieceFields
  <2> QED
    BY <2>2, <2>3 DEF WellCopied
<1>7. character < 128 \/ character >= 128
  BY DEF Byte
<1> QED
  BY <1>4, <1>5, <1>6, <1>7

-----------------------------------------------------------------------------
(* The loop. *)

\* Before the first round nothing has been written.
LEMMA InitiallyInv == Init => Inv
  BY DEF Init, Inv, TypeOK, CopiesExactlyUtf8

\* A round keeps the invariant.
LEMMA InvKept == Inv /\ [Next]_vars => Inv'
<1> SUFFICES ASSUME Inv, [Next]_vars
             PROVE  Inv'
  OBVIOUS
<1>1. CASE Next
  <2>1. /\ value \in Inputs \cap Seq(Byte) /\ value' = value
        /\ index \in 1 .. Len(value)
        /\ output \in Seq(Pieces) /\ output' = Append(output, Appended)
        /\ index' = Appended.to + 1
    BY <1>1 DEF Next, NextIndex, Inv, TypeOK
  <2>2. /\ Appended \in Pieces
        /\ Appended.from = index
        /\ Appended.to \in index .. Len(value)
        /\ WellCopied(Appended)
    BY <2>1, Round
  <2> HIDE DEF Appended
  <2>3. /\ output' \in Seq(Pieces)
        /\ Len(output') = Len(output) + 1
        /\ output'[Len(output')] = Appended
        /\ \A i \in 1 .. Len(output) : output'[i] = output[i]
        /\ output' # <<>>
    BY <2>1, <2>2
  <2>4. index' \in 1 .. Len(value') + 1
    BY <2>1, <2>2
  <2>5. ASSUME NEW i \in DOMAIN output'
        PROVE  /\ output'[i].how \in {"copied", "backslash", "escaped"}
               /\ output'[i].from = IF i = 1 THEN 1 ELSE output'[i - 1].to + 1
    <3>1. CASE i \in 1 .. Len(output)
      <4>1. output'[i] = output[i] /\ (i # 1 => output'[i - 1] = output[i - 1])
        BY <2>1, <2>3, <3>1
      <4> QED
        BY <2>1, <3>1, <4>1 DEF Inv, TypeOK
    <3>2. CASE i = Len(output) + 1
      <4>1. output'[i] = Appended
        BY <2>3, <3>2
      <4>2. index = IF i = 1 THEN 1 ELSE output'[i - 1].to + 1
        BY <2>1, <2>3, <3>2 DEF Inv, TypeOK
      <4> QED
        BY <2>2, <4>1, <4>2 DEF Pieces
    <3> QED
      BY <2>3, <3>1, <3>2
  <2>6. TypeOK'
    BY <2>1, <2>3, <2>4, <2>5 DEF TypeOK
  <2>7. ASSUME NEW i \in DOMAIN output'
        PROVE  WellCopied(output'[i])
    <3>1. CASE i \in 1 .. Len(output)
      BY <2>1, <2>3, <3>1 DEF Inv, CopiesExactlyUtf8, WellCopied
    <3>2. CASE i = Len(output) + 1
      BY <2>2, <2>3, <3>2
    <3> QED
      BY <2>3, <3>1, <3>2
  <2>8. CopiesExactlyUtf8'
    BY <2>1, <2>7 DEF CopiesExactlyUtf8, WellCopied
  <2> QED
    BY <2>3, <2>6, <2>8 DEF Inv
<1>2. CASE UNCHANGED vars
  <2> USE <1>2 DEF vars, Inv
  <2>1. TypeOK' /\ output' \in Seq(Pieces)
    BY DEF TypeOK
  <2>2. CopiesExactlyUtf8'
    BY DEF CopiesExactlyUtf8
  <2> QED
    BY <2>1, <2>2
<1> QED
  BY <1>1, <1>2

\* It holds in every reachable state.
LEMMA InvHolds == Spec => []Inv
  BY InitiallyInv, InvKept, PTL DEF Spec

-----------------------------------------------------------------------------
\* The pieces stand for the bytes read so far, each once and in order: no byte is
\* dropped, written twice or read beyond the end.
THEOREM EveryByteOnce == Spec => []TypeOK
<1>1. Inv => TypeOK
  BY DEF Inv
<1> QED
  BY <1>1, InvHolds, PTL

\* Whatever the input, bytes beyond ASCII are copied as whole code points that UTF-8
\* allows, and escaped exactly where none begins.
THEOREM QuotesAnyInput == Spec => []CopiesExactlyUtf8
<1>1. Inv => CopiesExactlyUtf8
  BY DEF Inv
<1> QED
  BY <1>1, InvHolds, PTL

-----------------------------------------------------------------------------
(* Counting. *)

\* A set of naturals that is not empty has a least element.
LEMMA LeastNatural ==
    ASSUME NEW T \in SUBSET Nat, T # {}
    PROVE  \E least \in T : \A other \in T : least <= other
<1> DEFINE Less == OpToRel(<, Nat)
<1>1. IsWellFoundedOn(Less, Nat)
  BY NatLessThanWellFounded
<1>2. \A x, y \in Nat : x < y => <<x, y>> \in Less
  BY DEF OpToRel
<1> HIDE DEF Less
<1>3. PICK least \in T : \A other \in T : <<other, least>> \notin Less
  BY <1>1, WFMin
<1>4. ASSUME NEW other \in T
      PROVE  least <= other
  <2>1. least \in Nat /\ other \in Nat
    OBVIOUS
  <2>2. ~(other < least)
    BY <1>2, <1>3, <2>1
  <2> QED
    BY <2>1, <2>2
<1> QED
  BY <1>4

\* What holds of 0 and, with a number, of the next one holds up to any bound.
LEMMA CountingUp ==
    ASSUME NEW n \in Nat, NEW Holds \in SUBSET Nat, 0 \in Holds,
           \A i \in 0 .. n - 1 : i \in Holds => i + 1 \in Holds
    PROVE  \A i \in 0 .. n : i \in Holds
<1> SUFFICES ASSUME NEW i \in 0 .. n, i \notin Holds
             PROVE  FALSE
  OBVIOUS
<1> DEFINE Fails == {j \in 0 .. n : j \notin Holds}
<1>1. PICK least \in Fails : \A other \in Fails : least <= other
  <2>1. Fails \in SUBSET Nat /\ Fails # {}
    OBVIOUS
  <2> HIDE DEF Fails
  <2> QED
    BY <2>1, LeastNatural
<1>2. least \in 1 .. n /\ least - 1 \in 0 .. n - 1
  BY <1>1
<1>3. least - 1 \in Holds
  BY <1>1, <1>2
<1>4. (least - 1) + 1 = least
  BY <1>2
<1> QED
  BY <1>1, <1>2, <1>3, <1>4

\* What holds of a number and, with a number, of the one below holds down to 0.
LEMMA CountingDown ==
    ASSUME NEW n \in Nat, NEW Holds \in SUBSET Nat, n \in Holds,
           \A i \in 0 .. n - 1 : i + 1 \in Holds => i \in Holds
    PROVE  \A i \in 0 .. n : i \in Holds
<1> DEFINE Below == {i \in Nat : i \in 0 .. n => n - i \in Holds}
<1>1. Below \in SUBSET Nat /\ 0 \in Below
  OBVIOUS
<1>2. ASSUME NEW i \in 0 .. n - 1, i \in Below
      PROVE  i + 1 \in Below
  <2>1. n - i \in Holds /\ n - (i + 1) \in 0 .. n - 1 /\ (n - (i + 1)) + 1 = n - i
    BY <1>2
  <2> QED
    BY <2>1
<1> HIDE DEF Below
<1>3. \A i \in 0 .. n : i \in Below
  BY <1>1, <1>2, CountingUp
<1>4. ASSUME NEW i \in 0 .. n
      PROVE  i \in Holds
  <2>1. n - i \in 0 .. n /\ n - (n - i) = i
    OBVIOUS
  <2> QED
    BY <1>3, <2>1 DEF Below
<1> QED
  BY <1>4

-----------------------------------------------------------------------------
(* ValueDecoder: its recursive functions satisfy their equations. *)

\* The depth at which everything is rejected.
Top == DepthLimit + 1

\* What is nested one deeper is what is directly inside.
LEMMA LevelEquation ==
    ASSUME NEW v
    PROVE  /\ Decoder!Level(v)[0] = {v}
           /\ \A depth \in 0 .. DepthLimit :
                  Decoder!Level(v)[depth + 1]
                      = UNION {Decoder!Children(other) : other \in Decoder!Level(v)[depth]}
<1> DEFINE After(set) == UNION {Decoder!Children(other) : other \in set}
           Right(found, n) == /\ found[0] = {v}
                              /\ \A depth \in 1 .. n : found[depth] = After(found[depth - 1])
           Reached == {n \in Nat : \E found : Right(found, n)}
<1>1. Top \in Nat /\ Decoder!Depths = 0 .. Top
  BY LimitsAssumption DEF Decoder!Depths, Top
<1> HIDE DEF After
<1>2. 0 \in Reached
  <2>1. Right([depth \in 0 .. 0 |-> {v}], 0)
    OBVIOUS
  <2> QED
    BY <2>1
<1>3. ASSUME NEW n \in 0 .. Top - 1, n \in Reached
      PROVE  n + 1 \in Reached
  <2>1. PICK found : Right(found, n)
    BY <1>3
  <2> DEFINE longer == [depth \in 0 .. n + 1 |-> IF depth = n + 1 THEN After(found[n])
                                                 ELSE found[depth]]
  <2>2. longer[0] = {v}
    BY <2>1
  <2>3. ASSUME NEW depth \in 1 .. n + 1
        PROVE  longer[depth] = After(longer[depth - 1])
    <3>1. longer[depth - 1] = found[depth - 1] /\ depth - 1 \in 0 .. n
      OBVIOUS
    <3>2. CASE depth = n + 1
      BY <3>1, <3>2
    <3>3. CASE depth \in 1 .. n
      BY <2>1, <3>1, <3>3
    <3> QED
      BY <3>2, <3>3
  <2> HIDE DEF longer
  <2>4. Right(longer, n + 1)
    BY <2>2, <2>3
  <2> HIDE DEF Right
  <2> QED
    BY <2>4
<1>4. Top \in Reached
  <2>1. Reached \in SUBSET Nat
    OBVIOUS
  <2>2. \A n \in 0 .. Top - 1 : n \in Reached => n + 1 \in Reached
    BY <1>3
  <2> HIDE DEF Reached
  <2>3. \A n \in 0 .. Top : n \in Reached
    BY <1>1, <1>2, <2>1, <2>2, CountingUp
  <2> QED
    BY <1>1, <2>3
<1>5. PICK found : Right(found, Top)
  BY <1>4
<1> DEFINE Equation(f) == f = [depth \in 0 .. Top |-> IF depth = 0 THEN {v}
                                                      ELSE After(f[depth - 1])]
           known == [depth \in 0 .. Top |-> found[depth]]
<1>6. Equation(known)
  <2>1. ASSUME NEW depth \in 0 .. Top
        PROVE  known[depth] = IF depth = 0 THEN {v} ELSE After(known[depth - 1])
    <3>1. CASE depth = 0
      BY <1>1, <1>5, <3>1
    <3>2. CASE depth \in 1 .. Top
      <4>1. known[depth - 1] = found[depth - 1]
        BY <1>1, <3>2
      <4> QED
        BY <1>5, <3>2, <4>1
    <3> QED
      BY <1>1, <3>1, <3>2
  <2> QED
    BY <2>1
<1>7. Equation(Decoder!Level(v))
  <2>1. Decoder!Level(v) = CHOOSE f : Equation(f)
    BY <1>1 DEF Decoder!Level, After
  <2> HIDE DEF Equation, known
  <2> QED
    BY <1>6, <2>1
<1> DEFINE chosen == Decoder!Level(v)
<1> HIDE DEF chosen
<1>8. chosen = [depth \in 0 .. Top |-> IF depth = 0 THEN {v} ELSE After(chosen[depth - 1])]
  BY <1>7 DEF chosen
<1>9. chosen[0] = {v}
  BY <1>1, <1>8
<1>10. ASSUME NEW depth \in 0 .. DepthLimit
       PROVE  chosen[depth + 1] = After(chosen[depth])
  <2>1. depth + 1 \in 0 .. Top /\ depth + 1 # 0 /\ (depth + 1) - 1 = depth
    BY LimitsAssumption DEF Top
  <2> QED
    BY <1>8, <2>1
<1> QED
  BY <1>9, <1>10 DEF chosen, After

\* Descriptions are taken off one at a time.
LEMMA UndescribedEquation ==
    ASSUME NEW v
    PROVE  /\ Decoder!Undescribed(v)[0] = v
           /\ \A depth \in 0 .. DepthLimit :
                  Decoder!Undescribed(v)[depth + 1]
                      = IF Decoder!Undescribed(v)[depth].type = "described"
                        THEN Decoder!Undescribed(v)[depth].of
                        ELSE Decoder!Undescribed(v)[depth]
<1> DEFINE After(bare) == IF bare.type = "described" THEN bare.of ELSE bare
           Right(found, n) == /\ found[0] = v
                              /\ \A depth \in 1 .. n : found[depth] = After(found[depth - 1])
           Reached == {n \in Nat : \E found : Right(found, n)}
<1>1. Top \in Nat /\ Decoder!Depths = 0 .. Top
  BY LimitsAssumption DEF Decoder!Depths, Top
<1> HIDE DEF After
<1>2. 0 \in Reached
  <2>1. Right([depth \in 0 .. 0 |-> v], 0)
    OBVIOUS
  <2> QED
    BY <2>1
<1>3. ASSUME NEW n \in 0 .. Top - 1, n \in Reached
      PROVE  n + 1 \in Reached
  <2>1. PICK found : Right(found, n)
    BY <1>3
  <2> DEFINE longer == [depth \in 0 .. n + 1 |-> IF depth = n + 1 THEN After(found[n])
                                                 ELSE found[depth]]
  <2>2. longer[0] = v
    BY <2>1
  <2>3. ASSUME NEW depth \in 1 .. n + 1
        PROVE  longer[depth] = After(longer[depth - 1])
    <3>1. longer[depth - 1] = found[depth - 1] /\ depth - 1 \in 0 .. n
      OBVIOUS
    <3>2. CASE depth = n + 1
      BY <3>1, <3>2
    <3>3. CASE depth \in 1 .. n
      BY <2>1, <3>1, <3>3
    <3> QED
      BY <3>2, <3>3
  <2> HIDE DEF longer
  <2>4. Right(longer, n + 1)
    BY <2>2, <2>3
  <2> HIDE DEF Right
  <2> QED
    BY <2>4
<1>4. Top \in Reached
  <2>1. Reached \in SUBSET Nat
    OBVIOUS
  <2>2. \A n \in 0 .. Top - 1 : n \in Reached => n + 1 \in Reached
    BY <1>3
  <2> HIDE DEF Reached
  <2>3. \A n \in 0 .. Top : n \in Reached
    BY <1>1, <1>2, <2>1, <2>2, CountingUp
  <2> QED
    BY <1>1, <2>3
<1>5. PICK found : Right(found, Top)
  BY <1>4
<1> DEFINE Equation(f) == f = [depth \in 0 .. Top |-> IF depth = 0 THEN v
                                                      ELSE After(f[depth - 1])]
           known == [depth \in 0 .. Top |-> found[depth]]
<1>6. Equation(known)
  <2>1. ASSUME NEW depth \in 0 .. Top
        PROVE  known[depth] = IF depth = 0 THEN v ELSE After(known[depth - 1])
    <3>1. CASE depth = 0
      BY <1>1, <1>5, <3>1
    <3>2. CASE depth \in 1 .. Top
      <4>1. known[depth - 1] = found[depth - 1]
        BY <1>1, <3>2
      <4> QED
        BY <1>5, <3>2, <4>1
    <3> QED
      BY <1>1, <3>1, <3>2
  <2> QED
    BY <2>1
<1>7. Equation(Decoder!Undescribed(v))
  <2>1. Decoder!Undescribed(v) = CHOOSE f : Equation(f)
    BY <1>1 DEF Decoder!Undescribed, After
  <2> HIDE DEF Equation, known
  <2> QED
    BY <1>6, <2>1
<1> DEFINE chosen == Decoder!Undescribed(v)
<1> HIDE DEF chosen
<1>8. chosen = [depth \in 0 .. Top |-> IF depth = 0 THEN v ELSE After(chosen[depth - 1])]
  BY <1>7 DEF chosen
<1>9. chosen[0] = v
  BY <1>1, <1>8
<1>10. ASSUME NEW depth \in 0 .. DepthLimit
       PROVE  chosen[depth + 1] = After(chosen[depth])
  <2>1. depth + 1 \in 0 .. Top /\ depth + 1 # 0 /\ (depth + 1) - 1 = depth
    BY LimitsAssumption DEF Top
  <2> QED
    BY <1>8, <2>1
<1> QED
  BY <1>9, <1>10 DEF chosen, After

\* What is kept one deeper is what is kept of that.
LEMMA KeptLevelEquation ==
    ASSUME NEW v
    PROVE  /\ Decoder!KeptLevel(v)[0] = {v}
           /\ \A depth \in 0 .. DepthLimit :
                  Decoder!KeptLevel(v)[depth + 1]
                      = UNION {Decoder!Kept(other) : other \in Decoder!KeptLevel(v)[depth]}
<1> DEFINE After(set) == UNION {Decoder!Kept(other) : other \in set}
           Right(found, n) == /\ found[0] = {v}
                              /\ \A depth \in 1 .. n : found[depth] = After(found[depth - 1])
           Reached == {n \in Nat : \E found : Right(found, n)}
<1>1. Top \in Nat /\ Decoder!Depths = 0 .. Top
  BY LimitsAssumption DEF Decoder!Depths, Top
<1> HIDE DEF After
<1>2. 0 \in Reached
  <2>1. Right([depth \in 0 .. 0 |-> {v}], 0)
    OBVIOUS
  <2> QED
    BY <2>1
<1>3. ASSUME NEW n \in 0 .. Top - 1, n \in Reached
      PROVE  n + 1 \in Reached
  <2>1. PICK found : Right(found, n)
    BY <1>3
  <2> DEFINE longer == [depth \in 0 .. n + 1 |-> IF depth = n + 1 THEN After(found[n])
                                                 ELSE found[depth]]
  <2>2. longer[0] = {v}
    BY <2>1
  <2>3. ASSUME NEW depth \in 1 .. n + 1
        PROVE  longer[depth] = After(longer[depth - 1])
    <3>1. longer[depth - 1] = found[depth - 1] /\ depth - 1 \in 0 .. n
      OBVIOUS
    <3>2. CASE depth = n + 1
      BY <3>1, <3>2
    <3>3. CASE depth \in 1 .. n
      BY <2>1, <3>1, <3>3
    <3> QED
      BY <3>2, <3>3
  <2> HIDE DEF longer
  <2>4. Right(longer, n + 1)
    BY <2>2, <2>3
  <2> HIDE DEF Right
  <2> QED
    BY <2>4
<1>4. Top \in Reached
  <2>1. Reached \in SUBSET Nat
    OBVIOUS
  <2>2. \A n \in 0 .. Top - 1 : n \in Reached => n + 1 \in Reached
    BY <1>3
  <2> HIDE DEF Reached
  <2>3. \A n \in 0 .. Top : n \in Reached
    BY <1>1, <1>2, <2>1, <2>2, CountingUp
  <2> QED
    BY <1>1, <2>3
<1>5. PICK found : Right(found, Top)
  BY <1>4
<1> DEFINE Equation(f) == f = [depth \in 0 .. Top |-> IF depth = 0 THEN {v}
                                                      ELSE After(f[depth - 1])]
           known == [depth \in 0 .. Top |-> found[depth]]
<1>6. Equation(known)
  <2>1. ASSUME NEW depth \in 0 .. Top
        PROVE  known[depth] = IF depth = 0 THEN {v} ELSE After(known[depth - 1])
    <3>1. CASE depth = 0
      BY <1>1, <1>5, <3>1
    <3>2. CASE depth \in 1 .. Top
      <4>1. known[depth - 1] = found[depth - 1]
        BY <1>1, <3>2
      <4> QED
        BY <1>5, <3>2, <4>1
    <3> QED
      BY <1>1, <3>1, <3>2
  <2> QED
    BY <2>1
<1>7. Equation(Decoder!KeptLevel(v))
  <2>1. Decoder!KeptLevel(v) = CHOOSE f : Equation(f)
    BY <1>1 DEF Decoder!KeptLevel, After
  <2> HIDE DEF Equation, known
  <2> QED
    BY <1>6, <2>1
<1> DEFINE chosen == Decoder!KeptLevel(v)
<1> HIDE DEF chosen
<1>8. chosen = [depth \in 0 .. Top |-> IF depth = 0 THEN {v} ELSE After(chosen[depth - 1])]
  BY <1>7 DEF chosen
<1>9. chosen[0] = {v}
  BY <1>1, <1>8
<1>10. ASSUME NEW depth \in 0 .. DepthLimit
       PROVE  chosen[depth + 1] = After(chosen[depth])
  <2>1. depth + 1 \in 0 .. Top /\ depth + 1 # 0 /\ (depth + 1) - 1 = depth
    BY LimitsAssumption DEF Top
  <2> QED
    BY <1>8, <2>1
<1> QED
  BY <1>9, <1>10 DEF chosen, After

\* What is shown one deeper is what that shows.
LEMMA ShownLevelEquation ==
    ASSUME NEW v
    PROVE  /\ Decoder!ShownLevel(v)[0] = {v}
           /\ \A depth \in 0 .. DepthLimit :
                  Decoder!ShownLevel(v)[depth + 1]
                      = UNION {Decoder!Shown(other) : other \in Decoder!ShownLevel(v)[depth]}
<1> DEFINE After(set) == UNION {Decoder!Shown(other) : other \in set}
           Right(found, n) == /\ found[0] = {v}
                              /\ \A depth \in 1 .. n : found[depth] = After(found[depth - 1])
           Reached == {n \in Nat : \E found : Right(found, n)}
<1>1. Top \in Nat /\ Decoder!Depths = 0 .. Top
  BY LimitsAssumption DEF Decoder!Depths, Top
<1> HIDE DEF After
<1>2. 0 \in Reached
  <2>1. Right([depth \in 0 .. 0 |-> {v}], 0)
    OBVIOUS
  <2> QED
    BY <2>1
<1>3. ASSUME NEW n \in 0 .. Top - 1, n \in Reached
      PROVE  n + 1 \in Reached
  <2>1. PICK found : Right(found, n)
    BY <1>3
  <2> DEFINE longer == [depth \in 0 .. n + 1 |-> IF depth = n + 1 THEN After(found[n])
                                                 ELSE found[depth]]
  <2>2. longer[0] = {v}
    BY <2>1
  <2>3. ASSUME NEW depth \in 1 .. n + 1
        PROVE  longer[depth] = After(longer[depth - 1])
    <3>1. longer[depth - 1] = found[depth - 1] /\ depth - 1 \in 0 .. n
      OBVIOUS
    <3>2. CASE depth = n + 1
      BY <3>1, <3>2
    <3>3. CASE depth \in 1 .. n
      BY <2>1, <3>1, <3>3
    <3> QED
      BY <3>2, <3>3
  <2> HIDE DEF longer
  <2>4. Right(longer, n + 1)
    BY <2>2, <2>3
  <2> HIDE DEF Right
  <2> QED
    BY <2>4
<1>4. Top \in Reached
  <2>1. Reached \in SUBSET Nat
    OBVIOUS
  <2>2. \A n \in 0 .. Top - 1 : n \in Reached => n + 1 \in Reached
    BY <1>3
  <2> HIDE DEF Reached
  <2>3. \A n \in 0 .. Top : n \in Reached
    BY <1>1, <1>2, <2>1, <2>2, CountingUp
  <2> QED
    BY <1>1, <2>3
<1>5. PICK found : Right(found, Top)
  BY <1>4
<1> DEFINE Equation(f) == f = [depth \in 0 .. Top |-> IF depth = 0 THEN {v}
                                                      ELSE After(f[depth - 1])]
           known == [depth \in 0 .. Top |-> found[depth]]
<1>6. Equation(known)
  <2>1. ASSUME NEW depth \in 0 .. Top
        PROVE  known[depth] = IF depth = 0 THEN {v} ELSE After(known[depth - 1])
    <3>1. CASE depth = 0
      BY <1>1, <1>5, <3>1
    <3>2. CASE depth \in 1 .. Top
      <4>1. known[depth - 1] = found[depth - 1]
        BY <1>1, <3>2
      <4> QED
        BY <1>5, <3>2, <4>1
    <3> QED
      BY <1>1, <3>1, <3>2
  <2> QED
    BY <2>1
<1>7. Equation(Decoder!ShownLevel(v))
  <2>1. Decoder!ShownLevel(v) = CHOOSE f : Equation(f)
    BY <1>1 DEF Decoder!ShownLevel, After
  <2> HIDE DEF Equation, known
  <2> QED
    BY <1>6, <2>1
<1> DEFINE chosen == Decoder!ShownLevel(v)
<1> HIDE DEF chosen
<1>8. chosen = [depth \in 0 .. Top |-> IF depth = 0 THEN {v} ELSE After(chosen[depth - 1])]
  BY <1>7 DEF chosen
<1>9. chosen[0] = {v}
  BY <1>1, <1>8
<1>10. ASSUME NEW depth \in 0 .. DepthLimit
       PROVE  chosen[depth + 1] = After(chosen[depth])
  <2>1. depth + 1 \in 0 .. Top /\ depth + 1 # 0 /\ (depth + 1) - 1 = depth
    BY LimitsAssumption DEF Top
  <2> QED
    BY <1>8, <2>1
<1> QED
  BY <1>9, <1>10 DEF chosen, After

\* A call decodes its value given the calls one deeper, and one that is too deep rejects.
LEMMA CallsEquation ==
    ASSUME NEW v
    PROVE  /\ \A depth \in 0 .. DepthLimit : \A other \in Decoder!Level(v)[depth] :
                  Decoder!Calls(v)[depth][other]
                      = Decoder!DecodeOne(other, Decoder!Calls(v)[depth + 1])
           /\ \A other \in Decoder!Level(v)[Top] : Decoder!Calls(v)[Top][other] = Decoder!Rejected
<1> DEFINE ValuesAt(depth) == Decoder!Level(v)[depth]
           Made(depth, deeper) == [other \in ValuesAt(depth) |->
                                       IF Decoder!TooDeep(depth) THEN Decoder!Rejected
                                       ELSE Decoder!DecodeOne(other, deeper)]
           Right(calls, n) == \A depth \in n .. Top : calls[depth] = Made(depth, calls[depth + 1])
           Reached == {n \in Nat : \E calls : Right(calls, n)}
<1>1. Top \in Nat /\ Decoder!Depths = 0 .. Top
  BY LimitsAssumption DEF Decoder!Depths, Top
<1>2. \A one, another : Made(Top, one) = Made(Top, another)
  BY LimitsAssumption DEF Top, Decoder!TooDeep
<1>3. \A deeper : \A depth \in 0 .. DepthLimit : \A other \in ValuesAt(depth) :
          Made(depth, deeper)[other] = Decoder!DecodeOne(other, deeper)
  BY LimitsAssumption DEF Decoder!TooDeep
<1>4. \A deeper : \A other \in ValuesAt(Top) : Made(Top, deeper)[other] = Decoder!Rejected
  BY LimitsAssumption DEF Top, Decoder!TooDeep
<1> HIDE DEF Made
<1>5. Top \in Reached
  <2> DEFINE only == [depth \in {Top} |-> Made(Top, 0)]
  <2>1. ASSUME NEW depth \in Top .. Top
        PROVE  only[depth] = Made(depth, only[depth + 1])
    <3>1. depth = Top /\ only[depth] = Made(Top, 0)
      BY <1>1
    <3> HIDE DEF only
    <3> QED
      BY <1>2, <3>1
  <2>2. Right(only, Top)
    BY <2>1
  <2> HIDE DEF Right
  <2> QED
    BY <1>1, <2>2
<1>6. ASSUME NEW n \in 0 .. Top - 1, n + 1 \in Reached
      PROVE  n \in Reached
  <2>1. PICK calls : Right(calls, n + 1)
    BY <1>6
  <2> DEFINE longer == [depth \in n .. Top |-> IF depth = n THEN Made(n, calls[n + 1])
                                               ELSE calls[depth]]
  <2>2. ASSUME NEW depth \in n .. Top
        PROVE  longer[depth] = Made(depth, longer[depth + 1])
    <3>1. CASE depth = Top
      <4>1. longer[depth] = calls[depth] /\ calls[depth] = Made(depth, calls[depth + 1])
        BY <1>1, <2>1, <3>1
      <4> HIDE DEF longer
      <4> QED
        BY <1>2, <3>1, <4>1
    <3>2. CASE depth = n
      <4>1. longer[n] = Made(n, calls[n + 1]) /\ longer[n + 1] = calls[n + 1]
        BY <1>1
      <4> HIDE DEF longer
      <4> QED
        BY <3>2, <4>1
    <3>3. CASE depth \in n + 1 .. Top - 1
      <4>1. longer[depth] = calls[depth] /\ longer[depth + 1] = calls[depth + 1]
        BY <1>1, <3>3
      <4>2. calls[depth] = Made(depth, calls[depth + 1])
        BY <1>1, <2>1, <3>3
      <4> HIDE DEF longer
      <4> QED
        BY <4>1, <4>2
    <3> QED
      BY <1>1, <3>1, <3>2, <3>3
  <2> HIDE DEF longer
  <2>3. Right(longer, n)
    BY <2>2
  <2> HIDE DEF Right
  <2> QED
    BY <2>3
<1>7. 0 \in Reached
  <2>1. Reached \in SUBSET Nat
    OBVIOUS
  <2>2. \A n \in 0 .. Top - 1 : n + 1 \in Reached => n \in Reached
    BY <1>6
  <2> HIDE DEF Reached
  <2>3. \A n \in 0 .. Top : n \in Reached
    BY <1>1, <1>5, <2>1, <2>2, CountingDown
  <2> QED
    BY <1>1, <2>3
<1>8. PICK calls : Right(calls, 0)
  BY <1>7
<1> DEFINE Equation(f) == f = [depth \in 0 .. Top |-> Made(depth, f[depth + 1])]
           known == [depth \in 0 .. Top |-> calls[depth]]
<1>9. Equation(known)
  <2>1. ASSUME NEW depth \in 0 .. Top
        PROVE  known[depth] = Made(depth, known[depth + 1])
    <3>1. known[depth] = calls[depth] /\ calls[depth] = Made(depth, calls[depth + 1])
      BY <1>8
    <3>2. CASE depth = Top
      <4> HIDE DEF known
      <4> QED
        BY <1>2, <3>1, <3>2
    <3>3. CASE depth \in 0 .. Top - 1
      <4>1. known[depth + 1] = calls[depth + 1]
        BY <1>1, <3>3
      <4> HIDE DEF known
      <4> QED
        BY <3>1, <4>1
    <3> QED
      BY <1>1, <3>2, <3>3
  <2> QED
    BY <2>1
<1>10. Equation(Decoder!Calls(v))
  <2>1. Decoder!Calls(v) = CHOOSE f : Equation(f)
    BY <1>1 DEF Decoder!Calls, Made
  <2> HIDE DEF Equation, known
  <2> QED
    BY <1>9, <2>1
<1> DEFINE chosen == Decoder!Calls(v)
<1> HIDE DEF chosen
<1>11. \A depth \in 0 .. Top : chosen[depth] = Made(depth, chosen[depth + 1])
  BY <1>10 DEF chosen
<1>12. \A depth \in 0 .. DepthLimit : \A other \in ValuesAt(depth) :
           chosen[depth][other] = Decoder!DecodeOne(other, chosen[depth + 1])
  <2>1. \A depth \in 0 .. DepthLimit : depth \in 0 .. Top
    BY LimitsAssumption DEF Top
  <2> HIDE DEF ValuesAt
  <2> QED
    BY <1>3, <1>11, <2>1
<1>13. \A other \in ValuesAt(Top) : chosen[Top][other] = Decoder!Rejected
  <2>1. Top \in 0 .. Top
    BY <1>1
  <2> HIDE DEF ValuesAt
  <2> QED
    BY <1>4, <1>11, <2>1
<1> QED
  BY <1>12, <1>13 DEF chosen

-----------------------------------------------------------------------------
(* One call. *)

\* What a value is like on which the decoder is called.
WellShaped(v) ==
    /\ v.type \in Decoder!ScalarTypes \cup {"composite", "described", "list", "array", "map"}
    /\ v.type \in Decoder!NumberTypes => v.n \in Int /\ v.n <= MaxSigned
    /\ v.type = "ulong" => v.n \in Int
    /\ v.type = "map" => DOMAIN v.pairs \subseteq Int

\* What a call returns for a value without parts.
LEMMA DecodesScalars ==
    ASSUME NEW v, NEW part
    PROVE  LET decoded == Decoder!DecodeOne(v, part)
           IN /\ v.type = "null" => decoded = [type |-> "Null"]
              /\ v.type \in {"boolean", "float", "double"}
                     => decoded = [type |-> "Scalar", of |-> v]
              /\ v.type \in Decoder!NumberTypes => decoded = [type |-> "Integer", n |-> v.n]
              /\ v.type = "ulong" => decoded = Decoder!DecodeUnsigned(v.n)
              /\ v.type \in Decoder!TextTypes => decoded = [type |-> "String", t |-> v.t]
              /\ v.type = "composite" => decoded = Decoder!Rejected
<1> QED
  BY SMT DEF Decoder!DecodeOne, Decoder!NumberTypes, Decoder!TextTypes

\* What a call returns for a value with parts.
LEMMA DecodesParts ==
    ASSUME NEW v, NEW part
    PROVE  LET decoded == Decoder!DecodeOne(v, part)
           IN /\ v.type = "described" => decoded = part[v.of]
              /\ v.type \in {"list", "array"}
                     => decoded = Decoder!DecodeList([i \in DOMAIN v.items |-> part[v.items[i]]])
              /\ v.type = "map"
                     => decoded = Decoder!DecodeMap([i \in DOMAIN v.pairs |-> part[v.pairs[i][1]]],
                                                    [i \in DOMAIN v.pairs |-> part[v.pairs[i][2]]])
<1> DEFINE list == Decoder!DecodeList([i \in DOMAIN v.items |-> part[v.items[i]]])
           map == Decoder!DecodeMap([i \in DOMAIN v.pairs |-> part[v.pairs[i][1]]],
                                    [i \in DOMAIN v.pairs |-> part[v.pairs[i][2]]])
           decoded == Decoder!DecodeOne(v, part)
<1>1. v.type = "described" => decoded = part[v.of]
  BY SMT DEF Decoder!DecodeOne, Decoder!NumberTypes, Decoder!TextTypes
<1>2. v.type \in {"list", "array"} => decoded = list
  <2> SUFFICES ASSUME v.type \in {"list", "array"}
               PROVE  decoded = list
    OBVIOUS
  <2> QED
    BY DEF Decoder!DecodeOne, Decoder!NumberTypes, Decoder!TextTypes
<1>3. v.type = "map" => decoded = map
  BY DEF Decoder!DecodeOne, Decoder!NumberTypes, Decoder!TextTypes
<1> QED
  BY <1>1, <1>2, <1>3

\* Only what is rejected has the type of what is rejected.
LEMMA RejectedByType ==
    /\ Decoder!Rejected.type = "Rejected"
    /\ Decoder!NameOf(Decoder!Rejected) = {}
  BY DEF Decoder!Rejected, Decoder!NameOf

\* A value without parts is rejected if it is of no known type, and only then.
LEMMA ScalarRejected ==
    ASSUME NEW v, NEW part, v.type \in Decoder!ScalarTypes \cup {"composite"}
    PROVE  Decoder!DecodeOne(v, part) = Decoder!Rejected <=> v.type = "composite"
<1> DEFINE decoded == Decoder!DecodeOne(v, part)
<1>1. v.type = "null" => decoded.type = "Null"
  BY DecodesScalars
<1>2. v.type \in {"boolean", "float", "double"} => decoded.type = "Scalar"
  BY DecodesScalars
<1>3. v.type \in Decoder!NumberTypes => decoded.type = "Integer"
  BY DecodesScalars
<1>4. v.type = "ulong" => decoded.type \in {"Integer", "String"}
  BY DecodesScalars DEF Decoder!DecodeUnsigned
<1>5. v.type \in Decoder!TextTypes => decoded.type = "String"
  BY DecodesScalars
<1>6. v.type = "composite" => decoded = Decoder!Rejected
  BY DecodesScalars
<1> HIDE DEF decoded
<1>7. v.type # "composite" => decoded.type # "Rejected"
  BY <1>1, <1>2, <1>3, <1>4, <1>5 DEF Decoder!ScalarTypes
<1> QED
  BY <1>6, <1>7, RejectedByType DEF decoded

\* One of the calls on the items of a list rejects.
ItemRefused(v, part) == \E i \in DOMAIN v.items : part[v.items[i]] = Decoder!Rejected

\* What the calls on the items of a list return.
ItemsDecoded(v, part) == [i \in DOMAIN v.items |-> part[v.items[i]]]

\* A list is rejected with any of its items.
LEMMA ListRejected ==
    ASSUME NEW v, NEW part, v.type \in {"list", "array"}
    PROVE  Decoder!DecodeOne(v, part) = Decoder!Rejected <=> ItemRefused(v, part)
<1> DEFINE items == [i \in DOMAIN v.items |-> part[v.items[i]]]
           decoded == Decoder!DecodeOne(v, part)
<1>1. decoded = Decoder!DecodeList(items)
  BY DecodesParts
<1>2. ItemRefused(v, part) <=> \E i \in DOMAIN items : items[i] = Decoder!Rejected
  BY DEF ItemRefused
<1> HIDE DEF items, decoded
<1>3. ItemRefused(v, part) => decoded = Decoder!Rejected
  BY <1>1, <1>2 DEF Decoder!DecodeList
<1>4. ~ItemRefused(v, part) => decoded.type = "List"
  BY <1>1, <1>2 DEF Decoder!DecodeList
<1> QED
  BY <1>3, <1>4, RejectedByType DEF decoded

\* Otherwise its items are decoded one by one.
LEMMA ListDecoded ==
    ASSUME NEW v, NEW part, v.type \in {"list", "array"}, ~ItemRefused(v, part)
    PROVE  /\ Decoder!DecodeOne(v, part).type = "List"
           /\ Decoder!DecodeOne(v, part).list = ItemsDecoded(v, part)
<1> DEFINE items == [i \in DOMAIN v.items |-> part[v.items[i]]]
           decoded == Decoder!DecodeOne(v, part)
<1>1. decoded = Decoder!DecodeList(items)
  BY DecodesParts
<1>2. ~(\E i \in DOMAIN items : items[i] = Decoder!Rejected)
  BY DEF ItemRefused
<1> HIDE DEF items, decoded
<1>3. decoded.type = "List" /\ decoded.list = items
  BY <1>1, <1>2 DEF Decoder!DecodeList
<1> QED
  BY <1>3 DEF decoded, items, ItemsDecoded

\* One of the calls on a map rejects, or a key has no name.
EntryRefused(v, part) ==
    \E i \in DOMAIN v.pairs : \/ Decoder!Rejected \in {part[v.pairs[i][1]], part[v.pairs[i][2]]}
                             \/ Decoder!NameOf(part[v.pairs[i][1]]) = {}

\* What the calls on the keys and on the items of a map return.
KeysDecoded(v, part) == [i \in DOMAIN v.pairs |-> part[v.pairs[i][1]]]
EntriesDecoded(v, part) == [i \in DOMAIN v.pairs |-> part[v.pairs[i][2]]]

\* The map that is made of them.
MapDecoded(v, part) ==
    LET keys == KeysDecoded(v, part)
    IN [name \in UNION {Decoder!NameOf(keys[i]) : i \in DOMAIN keys} |->
            EntriesDecoded(v, part)[Decoder!LastNamed(keys, name)]]

\* A map is rejected with any of its keys and items, and with a key without a name.
LEMMA MapRejected ==
    ASSUME NEW v, NEW part, v.type = "map"
    PROVE  /\ Decoder!DecodeOne(v, part) = Decoder!Rejected <=> EntryRefused(v, part)
           /\ ~EntryRefused(v, part) => /\ Decoder!DecodeOne(v, part).type = "Map"
                                        /\ Decoder!DecodeOne(v, part).map = MapDecoded(v, part)
<1> DEFINE keys == KeysDecoded(v, part)
           items == EntriesDecoded(v, part)
           decoded == Decoder!DecodeOne(v, part)
           refused == EntryRefused(v, part)
           map == MapDecoded(v, part)
<1>1. decoded = Decoder!DecodeMap(keys, items)
  BY DecodesParts DEF KeysDecoded, EntriesDecoded
<1>2. refused <=> \E i \in DOMAIN keys : \/ Decoder!Rejected \in {keys[i], items[i]}
                                         \/ Decoder!NameOf(keys[i]) = {}
  BY DEF EntryRefused, KeysDecoded, EntriesDecoded
<1>3. map = [name \in UNION {Decoder!NameOf(keys[i]) : i \in DOMAIN keys} |->
                 items[Decoder!LastNamed(keys, name)]]
  BY DEF MapDecoded
<1> HIDE DEF keys, items, decoded, refused, map
<1>4. refused => decoded = Decoder!Rejected
  BY <1>1, <1>2 DEF Decoder!DecodeMap
<1>5. ~refused => decoded = [type |-> "Map", map |-> map]
  BY <1>1, <1>2, <1>3 DEF Decoder!DecodeMap
<1>6. ~refused => decoded.type = "Map" /\ decoded.map = map
  BY <1>5
<1>7. ~refused => decoded # Decoder!Rejected
  BY <1>6, RejectedByType
<1> QED
  BY <1>4, <1>6, <1>7 DEF decoded, refused, map

\* A call rejects a value for what it is, or because a call it makes does.
LEMMA RejectsOneFor ==
    ASSUME NEW v, WellShaped(v), NEW part
    PROVE  Decoder!DecodeOne(v, part) = Decoder!Rejected
           <=> \/ \E child \in Decoder!Children(v) : part[child] = Decoder!Rejected
               \/ v.type = "composite"
               \/ v.type = "map" /\ \E i \in DOMAIN v.pairs :
                                        Decoder!NameOf(part[v.pairs[i][1]]) = {}
<1> DEFINE rejected == Decoder!DecodeOne(v, part) = Decoder!Rejected
           inside == \E child \in Decoder!Children(v) : part[child] = Decoder!Rejected
           unnamed == \E i \in DOMAIN v.pairs : Decoder!NameOf(part[v.pairs[i][1]]) = {}
<1>1. CASE v.type \in Decoder!ScalarTypes \cup {"composite"}
  <2>1. v.type \notin {"described", "list", "array", "map"}
    BY <1>1 DEF Decoder!ScalarTypes, Decoder!NumberTypes, Decoder!TextTypes
  <2>2. Decoder!Children(v) = {}
    BY <2>1 DEF Decoder!Children
  <2> QED
    BY <1>1, <2>1, <2>2, ScalarRejected
<1>2. CASE v.type = "described"
  <2>1. Decoder!DecodeOne(v, part) = part[v.of]
    BY <1>2, DecodesParts
  <2>2. Decoder!Children(v) = {v.of}
    BY <1>2 DEF Decoder!Children
  <2> QED
    BY <1>2, <2>1, <2>2
<1>3. CASE v.type \in {"list", "array"}
  <2>1. rejected <=> ItemRefused(v, part)
    BY <1>3, ListRejected
  <2>2. Decoder!Children(v) = {v.items[i] : i \in DOMAIN v.items}
    BY <1>3 DEF Decoder!Children, Decoder!Range
  <2> QED
    BY <1>3, <2>1, <2>2 DEF ItemRefused
<1>4. CASE v.type = "map"
  <2>1. rejected <=> EntryRefused(v, part)
    BY <1>4, MapRejected
  <2>2. Decoder!Children(v) = {v.pairs[i][1] : i \in DOMAIN v.pairs}
                                  \cup {v.pairs[i][2] : i \in DOMAIN v.pairs}
    BY <1>4 DEF Decoder!Children
  <2>3. inside <=> \E i \in DOMAIN v.pairs :
                       Decoder!Rejected \in {part[v.pairs[i][1]], part[v.pairs[i][2]]}
    BY <2>2
  <2> HIDE DEF inside, rejected
  <2>4. rejected <=> inside \/ unnamed
    BY <2>1, <2>3 DEF EntryRefused
  <2> QED
    BY <1>4, <2>4 DEF inside, rejected, unnamed
<1> QED
  BY <1>1, <1>2, <1>3, <1>4 DEF WellShaped

-----------------------------------------------------------------------------
(* Calls inside calls. *)

\* Every value in root is one the decoder is called on.
AllShaped(root) == \A depth \in 0 .. Top : \A v \in Decoder!Level(root)[depth] : WellShaped(v)

\* A call on v at some depth, and what it returned.
Called(root, depth, v) == depth \in 0 .. Top /\ v \in Decoder!Level(root)[depth]
Got(root, depth, v) == Decoder!Calls(root)[depth][v]

\* What is directly inside a value is one deeper.
LEMMA ChildIsCalled ==
    ASSUME NEW root, NEW depth \in 0 .. DepthLimit, NEW v \in Decoder!Level(root)[depth],
           NEW child \in Decoder!Children(v)
    PROVE  Called(root, depth + 1, child)
<1>1. child \in UNION {Decoder!Children(other) : other \in Decoder!Level(root)[depth]}
  OBVIOUS
<1>2. depth + 1 \in 0 .. Top
  BY LimitsAssumption DEF Top
<1> QED
  BY <1>1, <1>2, LevelEquation DEF Called

\* What is nested no deeper than the limit is decoded, the rest is rejected.
LEMMA CallReturns ==
    ASSUME NEW root, NEW depth, NEW v, Called(root, depth, v)
    PROVE  /\ depth \in 0 .. DepthLimit
              => Got(root, depth, v) = Decoder!DecodeOne(v, Decoder!Calls(root)[depth + 1])
           /\ depth \notin 0 .. DepthLimit => depth = Top /\ Got(root, depth, v) = Decoder!Rejected
<1>1. CASE depth \in 0 .. DepthLimit
  BY <1>1, CallsEquation DEF Called, Got
<1>2. CASE depth \notin 0 .. DepthLimit
  <2>1. depth = Top
    BY <1>2, LimitsAssumption DEF Called, Top
  <2> QED
    BY <1>2, <2>1, CallsEquation DEF Called, Got
<1> QED
  BY <1>1, <1>2

\* A described value that is decoded is decoded as what it describes, one deeper.
LEMMA DescribedDecodes ==
    ASSUME NEW root, NEW depth, NEW v, Called(root, depth, v), v.type = "described",
           Got(root, depth, v) # Decoder!Rejected
    PROVE  /\ depth + 1 \in 0 .. DepthLimit
           /\ Called(root, depth + 1, v.of)
           /\ Got(root, depth + 1, v.of) = Got(root, depth, v)
<1>1. depth \in 0 .. DepthLimit
  BY CallReturns
<1>2. Called(root, depth + 1, v.of)
  BY <1>1, ChildIsCalled DEF Called, Decoder!Children
<1>3. Got(root, depth + 1, v.of) = Got(root, depth, v)
  <2> DEFINE part == Decoder!Calls(root)[depth + 1]
  <2>1. Got(root, depth, v) = Decoder!DecodeOne(v, part)
    BY <1>1, CallReturns
  <2>2. part[v.of] = Got(root, depth + 1, v.of)
    BY DEF Got
  <2> HIDE DEF part
  <2>3. Decoder!DecodeOne(v, part) = part[v.of]
    BY DecodesParts
  <2> QED
    BY <2>1, <2>2, <2>3
<1>4. depth + 1 \in 0 .. DepthLimit
  BY <1>2, <1>3, CallReturns
<1> QED
  BY <1>2, <1>3, <1>4

\* Taking descriptions off a value that is decoded leaves what it is decoded as; after
\* as many steps as there are descriptions one is that deep.
LEMMA UndescribedDecodes ==
    ASSUME NEW root, NEW depth, NEW v, Called(root, depth, v),
           Got(root, depth, v) # Decoder!Rejected
    PROVE  \A count \in 0 .. Top : \E below \in depth .. DepthLimit :
               LET bare == Decoder!Undescribed(v)[count]
               IN /\ Called(root, below, bare)
                  /\ Got(root, below, bare) = Got(root, depth, v)
                  /\ bare.type = "described" => below = depth + count
<1> DEFINE bare(count) == Decoder!Undescribed(v)[count]
           Found(count, below) == /\ below \in depth .. DepthLimit
                                  /\ Called(root, below, bare(count))
                                  /\ Got(root, below, bare(count)) = Got(root, depth, v)
                                  /\ bare(count).type = "described" => below = depth + count
           Holds == {count \in Nat : \E below : Found(count, below)}
<1>1. Top \in Nat /\ depth \in 0 .. DepthLimit /\ Top - 1 = DepthLimit
  BY CallReturns, LimitsAssumption DEF Top
<1>2. 0 \in Holds
  <2>1. bare(0) = v
    BY UndescribedEquation
  <2> HIDE DEF bare
  <2>2. Found(0, depth)
    BY <1>1, <2>1
  <2> QED
    BY <2>2
<1>3. ASSUME NEW count \in 0 .. DepthLimit, count \in Holds
      PROVE  count + 1 \in Holds
  <2>1. PICK below : Found(count, below)
    BY <1>3
  <2>2. bare(count + 1) = IF bare(count).type = "described" THEN bare(count).of ELSE bare(count)
    BY UndescribedEquation
  <2> HIDE DEF bare
  <2>3. CASE bare(count).type = "described"
    <3>1. /\ below + 1 \in 0 .. DepthLimit
          /\ Called(root, below + 1, bare(count).of)
          /\ Got(root, below + 1, bare(count).of) = Got(root, depth, v)
      BY <2>1, <2>3, DescribedDecodes
    <3>2. below = depth + count
      BY <2>1, <2>3
    <3>3. Found(count + 1, below + 1)
      BY <1>1, <2>2, <2>3, <3>1, <3>2
    <3> HIDE DEF Found
    <3> QED
      BY <3>3
  <2>4. CASE bare(count).type # "described"
    <3>1. Found(count + 1, below)
      BY <2>1, <2>2, <2>4
    <3> HIDE DEF Found
    <3> QED
      BY <3>1
  <2> QED
    BY <2>3, <2>4
<1>4. \A count \in 0 .. Top : count \in Holds
  <2>1. Holds \in SUBSET Nat /\ \A count \in 0 .. Top - 1 : count \in Holds => count + 1 \in Holds
    BY <1>1, <1>3
  <2> HIDE DEF Holds
  <2> QED
    BY <1>1, <1>2, <2>1, CountingUp
<1> QED
  BY <1>4

\* So DepthLimit steps take all descriptions off.
LEMMA BareDecodes ==
    ASSUME NEW root, NEW depth, NEW v, Called(root, depth, v),
           Got(root, depth, v) # Decoder!Rejected
    PROVE  \E below \in 0 .. DepthLimit :
               LET bare == Decoder!Undescribed(v)[DepthLimit]
               IN /\ Called(root, below, bare)
                  /\ Got(root, below, bare) = Got(root, depth, v)
                  /\ bare.type # "described"
<1> DEFINE bare == Decoder!Undescribed(v)[DepthLimit]
<1>1. depth \in 0 .. DepthLimit /\ DepthLimit \in 0 .. Top
  BY CallReturns, LimitsAssumption DEF Top
<1>2. PICK below \in depth .. DepthLimit :
          /\ Called(root, below, bare)
          /\ Got(root, below, bare) = Got(root, depth, v)
          /\ bare.type = "described" => below = depth + DepthLimit
  BY <1>1, UndescribedDecodes
<1> HIDE DEF bare
<1>3. bare.type # "described"
  <2> SUFFICES ASSUME bare.type = "described"
               PROVE  FALSE
    OBVIOUS
  <2>1. below + 1 \in 0 .. DepthLimit
    BY <1>2, DescribedDecodes
  <2> QED
    BY <1>1, <1>2, <2>1, LimitsAssumption
<1>4. below \in 0 .. DepthLimit
  BY <1>1, <1>2
<1> QED
  BY <1>2, <1>3, <1>4 DEF bare

\* The name of a key that is decoded is the text it stands for.
LEMMA NameIsKeyText ==
    ASSUME NEW root, AllShaped(root), NEW depth, NEW key, Called(root, depth, key),
           Got(root, depth, key) # Decoder!Rejected
    PROVE  Decoder!NameOf(Got(root, depth, key)) = Decoder!KeyText(key)
<1> DEFINE bare == Decoder!Undescribed(key)[DepthLimit]
           decoded == Got(root, depth, key)
<1>1. PICK below \in 0 .. DepthLimit : /\ Called(root, below, bare)
                                       /\ Got(root, below, bare) = decoded
                                       /\ bare.type # "described"
  BY BareDecodes
<1>2. WellShaped(bare)
  BY <1>1 DEF AllShaped, Called
<1> DEFINE part == Decoder!Calls(root)[below + 1]
<1>3. decoded = Decoder!DecodeOne(bare, part)
  BY <1>1, CallReturns
<1>4. /\ bare.type \in Decoder!TextTypes => Decoder!KeyText(key) = {bare.t}
      /\ bare.type \in Decoder!NumberTypes \cup {"ulong"}
             => Decoder!KeyText(key) = {Decoder!Decimal(bare.n)}
      /\ bare.type \notin Decoder!TextTypes \cup Decoder!NumberTypes \cup {"ulong"}
             => Decoder!KeyText(key) = {}
  BY SMT DEF Decoder!KeyText, Decoder!TextTypes, Decoder!NumberTypes
<1> HIDE DEF bare, decoded, part
<1>5. CASE bare.type \in Decoder!TextTypes
  <2>1. decoded = [type |-> "String", t |-> bare.t]
    BY <1>3, <1>5, DecodesScalars
  <2>2. Decoder!NameOf(decoded) = {bare.t}
    BY <2>1 DEF Decoder!NameOf
  <2> QED
    BY <1>4, <1>5, <2>2 DEF decoded
<1>6. CASE bare.type \in Decoder!NumberTypes
  <2>1. decoded = [type |-> "Integer", n |-> bare.n]
    BY <1>3, <1>6, DecodesScalars
  <2>2. Decoder!NameOf(decoded) = {Decoder!Decimal(bare.n)}
    BY <2>1 DEF Decoder!NameOf
  <2> QED
    BY <1>4, <1>6, <2>2 DEF decoded
<1>7. CASE bare.type = "ulong"
  <2>1. decoded = Decoder!DecodeUnsigned(bare.n)
    BY <1>3, <1>7, DecodesScalars
  <2>2. Decoder!NameOf(decoded) = {Decoder!Decimal(bare.n)}
    BY <2>1 DEF Decoder!NameOf, Decoder!DecodeUnsigned
  <2> QED
    BY <1>4, <1>7, <2>2 DEF decoded
<1>8. CASE bare.type \notin Decoder!TextTypes \cup Decoder!NumberTypes \cup {"ulong"}
  <2>1. Decoder!KeyText(key) = {}
    BY <1>4, <1>8
  <2>2. decoded.type \in {"Null", "Scalar", "List", "Map", "Rejected"}
    <3>1. CASE bare.type = "null"
      BY <1>3, <3>1, DecodesScalars
    <3>2. CASE bare.type \in {"boolean", "float", "double"}
      BY <1>3, <3>2, DecodesScalars
    <3>3. CASE bare.type = "composite"
      BY <1>3, <3>3, DecodesScalars, RejectedByType
    <3>4. CASE bare.type \in {"list", "array"}
      <4>1. ItemRefused(bare, part) => decoded.type = "Rejected"
        BY <1>3, <3>4, ListRejected, RejectedByType
      <4>2. ~ItemRefused(bare, part) => decoded.type = "List"
        BY <1>3, <3>4, ListDecoded
      <4> QED
        BY <4>1, <4>2
    <3>5. CASE bare.type = "map"
      BY <1>3, <3>5, MapRejected, RejectedByType
    <3> QED
      BY <1>1, <1>2, <1>8, <3>1, <3>2, <3>3, <3>4, <3>5 DEF WellShaped, Decoder!ScalarTypes
  <2>3. Decoder!NameOf(decoded) = {}
    BY <2>2 DEF Decoder!NameOf
  <2> QED
    BY <2>1, <2>3 DEF decoded
<1> QED
  BY <1>5, <1>6, <1>7, <1>8

-----------------------------------------------------------------------------
(* What is rejected, and what is settable. *)

\* What the property names as a cause, at one depth; and a call there that rejects.
CauseAt(root, depth) ==
    \E v \in Decoder!Level(root)[depth] :
        \/ depth > DepthLimit
        \/ v.type = "composite"
        \/ v.type = "map" /\ \E i \in DOMAIN v.pairs : Decoder!KeyText(v.pairs[i][1]) = {}
RejectsAt(root, depth) ==
    \E v \in Decoder!Level(root)[depth] : Got(root, depth, v) = Decoder!Rejected

\* The keys of a map are called one deeper.
LEMMA KeyIsCalled ==
    ASSUME NEW root, NEW depth \in 0 .. DepthLimit, NEW v \in Decoder!Level(root)[depth],
           v.type = "map", NEW i \in DOMAIN v.pairs
    PROVE  /\ Called(root, depth + 1, v.pairs[i][1])
           /\ Called(root, depth + 1, v.pairs[i][2])
<1>1. v.pairs[i][1] \in Decoder!Children(v) /\ v.pairs[i][2] \in Decoder!Children(v)
  BY DEF Decoder!Children
<1> QED
  BY <1>1, ChildIsCalled

\* A call rejects for a cause at its depth or because one does that is one deeper.
LEMMA RejectsForCause ==
    ASSUME NEW root, AllShaped(root), NEW depth \in 0 .. DepthLimit, RejectsAt(root, depth)
    PROVE  CauseAt(root, depth) \/ RejectsAt(root, depth + 1)
<1>1. PICK v \in Decoder!Level(root)[depth] : Got(root, depth, v) = Decoder!Rejected
  BY DEF RejectsAt
<1> DEFINE part == Decoder!Calls(root)[depth + 1]
<1>2. depth \in 0 .. Top
  BY LimitsAssumption DEF Top
<1>3. WellShaped(v) /\ Called(root, depth, v)
  BY <1>2 DEF AllShaped, Called
<1>4. Decoder!DecodeOne(v, part) = Decoder!Rejected
  BY <1>1, <1>3, CallReturns
<1>5. \A child : part[child] = Got(root, depth + 1, child)
  BY DEF Got
<1> HIDE DEF part
<1>6. CASE \E child \in Decoder!Children(v) : part[child] = Decoder!Rejected
  <2>1. PICK child \in Decoder!Children(v) : part[child] = Decoder!Rejected
    BY <1>6
  <2>2. Called(root, depth + 1, child)
    BY ChildIsCalled
  <2> QED
    BY <1>5, <2>1, <2>2 DEF RejectsAt, Called
<1>7. CASE v.type = "composite"
  BY <1>7 DEF CauseAt
<1>8. CASE v.type = "map" /\ \E i \in DOMAIN v.pairs :
                                 Decoder!NameOf(part[v.pairs[i][1]]) = {}
  <2>1. PICK i \in DOMAIN v.pairs : Decoder!NameOf(part[v.pairs[i][1]]) = {}
    BY <1>8
  <2> DEFINE key == v.pairs[i][1]
  <2>2. Called(root, depth + 1, key)
    BY <1>8, KeyIsCalled
  <2>3. Decoder!NameOf(Got(root, depth + 1, key)) = {}
    BY <1>5, <2>1
  <2>4. key = v.pairs[i][1]
    OBVIOUS
  <2> HIDE DEF key
  <2>5. CASE Got(root, depth + 1, key) = Decoder!Rejected
    BY <2>2, <2>5 DEF RejectsAt, Called
  <2>6. CASE Got(root, depth + 1, key) # Decoder!Rejected
    <3>1. Decoder!KeyText(key) = {}
      BY <2>2, <2>3, <2>6, NameIsKeyText
    <3> QED
      BY <1>8, <2>4, <3>1 DEF CauseAt
  <2> QED
    BY <2>5, <2>6
<1> QED
  BY <1>3, <1>4, <1>6, <1>7, <1>8, RejectsOneFor

\* A call that rejects makes the one above it reject.
LEMMA RejectionPropagates ==
    ASSUME NEW root, AllShaped(root), NEW depth \in 0 .. DepthLimit, RejectsAt(root, depth + 1)
    PROVE  RejectsAt(root, depth)
<1>1. PICK child \in Decoder!Level(root)[depth + 1] :
          Got(root, depth + 1, child) = Decoder!Rejected
  BY DEF RejectsAt
<1>2. PICK v \in Decoder!Level(root)[depth] : child \in Decoder!Children(v)
  BY LevelEquation
<1> DEFINE part == Decoder!Calls(root)[depth + 1]
<1>3. depth \in 0 .. Top
  BY LimitsAssumption DEF Top
<1>4. WellShaped(v) /\ Called(root, depth, v)
  BY <1>3 DEF AllShaped, Called
<1>5. part[child] = Decoder!Rejected
  BY <1>1 DEF Got
<1>6. Got(root, depth, v) = Decoder!DecodeOne(v, part)
  BY <1>4, CallReturns
<1> HIDE DEF part
<1>7. Decoder!DecodeOne(v, part) = Decoder!Rejected
  BY <1>2, <1>4, <1>5, RejectsOneFor
<1> QED
  BY <1>6, <1>7 DEF RejectsAt

\* A cause makes a call at its depth reject.
LEMMA CauseRejects ==
    ASSUME NEW root, AllShaped(root), NEW depth \in 0 .. Top, CauseAt(root, depth)
    PROVE  RejectsAt(root, depth)
<1>1. PICK v \in Decoder!Level(root)[depth] :
          \/ depth > DepthLimit
          \/ v.type = "composite"
          \/ v.type = "map" /\ \E i \in DOMAIN v.pairs : Decoder!KeyText(v.pairs[i][1]) = {}
  BY DEF CauseAt
<1>2. WellShaped(v) /\ Called(root, depth, v)
  BY DEF AllShaped, Called
<1>3. CASE depth > DepthLimit
  <2>1. depth \notin 0 .. DepthLimit
    BY <1>3, LimitsAssumption
  <2> QED
    BY <1>2, <2>1, CallReturns DEF RejectsAt
<1>4. CASE depth \in 0 .. DepthLimit
  <2> SUFFICES ASSUME Got(root, depth, v) # Decoder!Rejected
               PROVE  FALSE
    BY DEF RejectsAt
  <2> DEFINE part == Decoder!Calls(root)[depth + 1]
  <2>1. Decoder!DecodeOne(v, part) # Decoder!Rejected
    BY <1>2, <1>4, CallReturns
  <2>2. \A child : part[child] = Got(root, depth + 1, child)
    BY DEF Got
  <2> HIDE DEF part
  <2>3. ~(depth > DepthLimit) /\ v.type # "composite"
    BY <1>2, <1>4, <2>1, RejectsOneFor, LimitsAssumption
  <2>4. PICK i \in DOMAIN v.pairs : Decoder!KeyText(v.pairs[i][1]) = {}
    BY <1>1, <2>3
  <2>5. v.type = "map"
    BY <1>1, <2>3
  <2> DEFINE key == v.pairs[i][1]
  <2>6. /\ Called(root, depth + 1, key)
        /\ key \in Decoder!Children(v)
    BY <1>4, <2>5, KeyIsCalled DEF Decoder!Children
  <2>7. part[key] # Decoder!Rejected /\ Decoder!NameOf(part[key]) # {}
    BY <1>2, <2>1, <2>5, <2>6, RejectsOneFor
  <2>8. Decoder!KeyText(key) = {}
    BY <2>4
  <2> HIDE DEF key
  <2>9. Decoder!NameOf(Got(root, depth + 1, key)) = Decoder!KeyText(key)
    BY <2>2, <2>6, <2>7, NameIsKeyText
  <2> QED
    BY <2>2, <2>7, <2>8, <2>9
<1> QED
  BY <1>3, <1>4, LimitsAssumption DEF Top

\* The value itself is what is called at depth 0.
LEMMA RootIsCalled ==
    ASSUME NEW root
    PROVE  /\ Called(root, 0, root)
           /\ Got(root, 0, root) = Decoder!Decode(root)
           /\ RejectsAt(root, 0) <=> Decoder!Decode(root) = Decoder!Rejected
<1>1. Decoder!Level(root)[0] = {root} /\ 0 \in 0 .. Top
  BY LevelEquation, LimitsAssumption DEF Top
<1> QED
  BY <1>1 DEF Called, Got, RejectsAt, Decoder!Decode

\* A value is rejected exactly when there is a cause at some depth.
LEMMA RejectedForCause ==
    ASSUME NEW root, AllShaped(root)
    PROVE  Decoder!Decode(root) = Decoder!Rejected
           <=> \E depth \in 0 .. Top : CauseAt(root, depth)
<1> DEFINE Rejecting == {depth \in Nat : RejectsAt(root, depth)}
<1>1. Top \in Nat /\ Top - 1 = DepthLimit /\ Rejecting \in SUBSET Nat
  BY LimitsAssumption DEF Top
<1>2. ASSUME RejectsAt(root, 0), \A depth \in 0 .. Top : ~CauseAt(root, depth)
      PROVE  FALSE
  <2>1. \A depth \in 0 .. Top - 1 : depth \in Rejecting => depth + 1 \in Rejecting
    <3>1. \A depth \in 0 .. DepthLimit : RejectsAt(root, depth) => RejectsAt(root, depth + 1)
      BY <1>1, <1>2, RejectsForCause
    <3> QED
      BY <1>1, <3>1
  <2>2. 0 \in Rejecting
    BY <1>2
  <2> HIDE DEF Rejecting
  <2>3. \A depth \in 0 .. Top : depth \in Rejecting
    BY <1>1, <2>1, <2>2, CountingUp
  <2>4. RejectsAt(root, Top) /\ Top > DepthLimit
    BY <1>1, <2>3, LimitsAssumption DEF Rejecting, Top
  <2>5. CauseAt(root, Top)
    BY <2>4 DEF RejectsAt, CauseAt
  <2> QED
    BY <1>1, <1>2, <2>5
<1>3. ASSUME NEW depth \in 0 .. Top, CauseAt(root, depth)
      PROVE  RejectsAt(root, 0)
  <2>1. depth \in Nat /\ RejectsAt(root, depth)
    BY <1>1, <1>3, CauseRejects
  <2>2. \A i \in 0 .. depth - 1 : i + 1 \in Rejecting => i \in Rejecting
    <3>1. \A i \in 0 .. depth - 1 : i \in 0 .. DepthLimit
      BY <1>1, LimitsAssumption
    <3> QED
      BY <3>1, RejectionPropagates
  <2>3. depth \in Rejecting
    BY <2>1
  <2> HIDE DEF Rejecting
  <2>4. \A i \in 0 .. depth : i \in Rejecting
    BY <1>1, <2>1, <2>2, <2>3, CountingDown
  <2> QED
    BY <2>1, <2>4 DEF Rejecting
<1> QED
  BY <1>2, <1>3, RootIsCalled

\* What is decoded as a map is one under at most DepthLimit descriptions.
LEMMA DecodedMapIsSettable ==
    ASSUME NEW root, AllShaped(root), Decoder!Decode(root).type = "Map"
    PROVE  Decoder!GetMetadataMap(root) # Decoder!Rejected
<1> DEFINE bare == Decoder!Undescribed(root)[DepthLimit]
<1>1. Decoder!Decode(root) # Decoder!Rejected
  BY RejectedByType
<1>2. PICK below \in 0 .. DepthLimit : /\ Called(root, below, bare)
                                       /\ Got(root, below, bare) = Decoder!Decode(root)
                                       /\ bare.type # "described"
  BY <1>1, RootIsCalled, BareDecodes
<1> DEFINE part == Decoder!Calls(root)[below + 1]
<1>3. Decoder!GetMetadataMap(root) = IF bare.type = "map" THEN bare ELSE Decoder!Rejected
  BY DEF Decoder!GetMetadataMap, Decoder!Stripped
<1> HIDE DEF bare
<1>4. WellShaped(bare)
  BY <1>2 DEF AllShaped, Called
<1>5. Decoder!DecodeOne(bare, part).type = "Map"
  BY <1>2, CallReturns
<1> HIDE DEF part
<1>6. bare.type = "map"
  <2>1. CASE bare.type = "null"
    BY <1>5, <2>1, DecodesScalars
  <2>2. CASE bare.type \in {"boolean", "float", "double"}
    BY <1>5, <2>2, DecodesScalars
  <2>3. CASE bare.type = "composite"
    BY <1>5, <2>3, DecodesScalars, RejectedByType
  <2>4. CASE bare.type \in {"list", "array"}
    <3>1. ItemRefused(bare, part) => Decoder!DecodeOne(bare, part).type = "Rejected"
      BY <2>4, ListRejected, RejectedByType
    <3>2. ~ItemRefused(bare, part) => Decoder!DecodeOne(bare, part).type = "List"
      BY <2>4, ListDecoded
    <3> QED
      BY <1>5, <3>1, <3>2
  <2>5. CASE bare.type \in Decoder!NumberTypes
    BY <1>5, <2>5, DecodesScalars
  <2>6. CASE bare.type = "ulong"
    BY <1>5, <2>6, DecodesScalars DEF Decoder!DecodeUnsigned
  <2>7. CASE bare.type \in Decoder!TextTypes
    BY <1>5, <2>7, DecodesScalars
  <2> QED
    BY <1>2, <1>4, <2>1, <2>2, <2>3, <2>4, <2>5, <2>6, <2>7
       DEF WellShaped, Decoder!ScalarTypes
<1>7. bare # Decoder!Rejected
  BY <1>6, RejectedByType
<1> QED
  BY <1>3, <1>6, <1>7

-----------------------------------------------------------------------------
(* What is kept. *)

\* The values inside a value that is decoded are decoded.
LEMMA ChildDecodes ==
    ASSUME NEW root, AllShaped(root), NEW depth, NEW v, Called(root, depth, v),
           Got(root, depth, v) # Decoder!Rejected, NEW child \in Decoder!Children(v)
    PROVE  /\ depth \in 0 .. DepthLimit
           /\ Called(root, depth + 1, child)
           /\ Got(root, depth + 1, child) # Decoder!Rejected
<1> DEFINE part == Decoder!Calls(root)[depth + 1]
<1>1. depth \in 0 .. DepthLimit /\ Decoder!DecodeOne(v, part) # Decoder!Rejected
  BY CallReturns
<1>2. Called(root, depth + 1, child)
  BY <1>1, ChildIsCalled DEF Called
<1>3. part[child] = Got(root, depth + 1, child)
  BY DEF Got
<1>4. WellShaped(v)
  BY DEF AllShaped, Called
<1> HIDE DEF part
<1>5. part[child] # Decoder!Rejected
  BY <1>1, <1>4, RejectsOneFor
<1> QED
  BY <1>1, <1>2, <1>3, <1>5

\* An item of a list that is decoded is shown by it.
LEMMA ItemIsShown ==
    ASSUME NEW root, AllShaped(root), NEW depth, NEW v, Called(root, depth, v),
           Got(root, depth, v) # Decoder!Rejected, v.type \in {"list", "array"},
           NEW i \in DOMAIN v.items
    PROVE  Got(root, depth + 1, v.items[i]) \in Decoder!Shown(Got(root, depth, v))
<1> DEFINE part == Decoder!Calls(root)[depth + 1]
           decoded == Got(root, depth, v)
<1>1. v.items[i] \in Decoder!Children(v)
  BY DEF Decoder!Children, Decoder!Range
<1>2. decoded = Decoder!DecodeOne(v, part)
  BY <1>1, ChildDecodes, CallReturns
<1>3. part[v.items[i]] = Got(root, depth + 1, v.items[i])
  BY DEF Got
<1> HIDE DEF part, decoded
<1>4. ~ItemRefused(v, part)
  BY <1>2, ListRejected DEF decoded
<1>5. decoded.type = "List" /\ decoded.list = ItemsDecoded(v, part)
  BY <1>2, <1>4, ListDecoded
<1>6. part[v.items[i]] \in {ItemsDecoded(v, part)[j] : j \in DOMAIN ItemsDecoded(v, part)}
  BY DEF ItemsDecoded
<1>7. part[v.items[i]] \in Decoder!Shown(decoded)
  BY <1>5, <1>6 DEF Decoder!Shown, Decoder!Range
<1> QED
  BY <1>3, <1>7 DEF decoded

\* An item of a map that is decoded is shown by it, unless a later key has its name.
LEMMA EntryIsShown ==
    ASSUME NEW root, AllShaped(root), NEW depth, NEW v, Called(root, depth, v),
           Got(root, depth, v) # Decoder!Rejected, v.type = "map", NEW i \in DOMAIN v.pairs,
           \A k \in DOMAIN v.pairs : k > i
               => Decoder!KeyText(v.pairs[k][1]) \cap Decoder!KeyText(v.pairs[i][1]) = {}
    PROVE  Got(root, depth + 1, v.pairs[i][2]) \in Decoder!Shown(Got(root, depth, v))
<1> DEFINE part == Decoder!Calls(root)[depth + 1]
           decoded == Got(root, depth, v)
           keys == KeysDecoded(v, part)
           items == EntriesDecoded(v, part)
           names == UNION {Decoder!NameOf(keys[j]) : j \in DOMAIN keys}
<1>1. ASSUME NEW j \in DOMAIN v.pairs
      PROVE  /\ v.pairs[j][1] \in Decoder!Children(v)
             /\ v.pairs[j][2] \in Decoder!Children(v)
  BY DEF Decoder!Children
<1>2. decoded = Decoder!DecodeOne(v, part)
  BY <1>1, ChildDecodes, CallReturns
<1>3. \A child : part[child] = Got(root, depth + 1, child)
  BY DEF Got
<1>4. WellShaped(v)
  BY DEF AllShaped, Called
<1> HIDE DEF part
<1>5. ASSUME NEW j \in DOMAIN v.pairs
      PROVE  Decoder!NameOf(keys[j]) = Decoder!KeyText(v.pairs[j][1])
  <2> DEFINE key == v.pairs[j][1]
  <2>1. key \in Decoder!Children(v)
    BY <1>1
  <2>2. keys[j] = Got(root, depth + 1, key)
    BY <1>3 DEF KeysDecoded
  <2> HIDE DEF key
  <2>3. Decoder!NameOf(Got(root, depth + 1, key)) = Decoder!KeyText(key)
    BY <2>1, ChildDecodes, NameIsKeyText
  <2> QED
    BY <2>2, <2>3 DEF key
<1>6. Decoder!NameOf(keys[i]) # {}
  BY <1>2, <1>4, RejectsOneFor DEF KeysDecoded
<1>7. /\ decoded.type = "Map"
      /\ decoded.map = [name \in names |-> items[Decoder!LastNamed(keys, name)]]
  <2>1. Decoder!DecodeOne(v, part) # Decoder!Rejected
    BY <1>2
  <2>2. ~EntryRefused(v, part)
    BY <2>1, MapRejected
  <2>3. decoded.type = "Map" /\ decoded.map = MapDecoded(v, part)
    BY <1>2, <2>2, MapRejected
  <2>4. MapDecoded(v, part) = [name \in names |-> items[Decoder!LastNamed(keys, name)]]
    BY DEF MapDecoded
  <2> QED
    BY <2>3, <2>4
<1>8. PICK name : name \in Decoder!NameOf(keys[i])
  BY <1>6
<1>9. Decoder!LastNamed(keys, name) = i
  <2> DEFINE NamedLast(j) == /\ name \in Decoder!NameOf(keys[j])
                        /\ \A k \in DOMAIN keys : k > j => name \notin Decoder!NameOf(keys[k])
  <2>1. DOMAIN keys = DOMAIN v.pairs /\ DOMAIN v.pairs \subseteq Int
    BY <1>4 DEF WellShaped, KeysDecoded
  <2> HIDE DEF keys
  <2>2. NamedLast(i)
    BY <1>5, <1>8, <2>1
  <2>3. \A j \in DOMAIN keys : NamedLast(j) => j = i
    <3> SUFFICES ASSUME NEW j \in DOMAIN keys, NamedLast(j), j # i
                 PROVE  FALSE
      OBVIOUS
    <3>1. j > i \/ i > j
      BY <2>1
    <3> QED
      BY <2>1, <2>2, <3>1
  <2>4. Decoder!LastNamed(keys, name) = CHOOSE j \in DOMAIN keys : NamedLast(j)
    BY DEF Decoder!LastNamed
  <2> HIDE DEF NamedLast
  <2> QED
    BY <2>1, <2>2, <2>3, <2>4
<1>10. name \in names
  BY <1>8 DEF KeysDecoded
<1>11. items[i] = Got(root, depth + 1, v.pairs[i][2])
  BY <1>3 DEF EntriesDecoded
<1> HIDE DEF decoded, keys, items, names
<1>12. DOMAIN decoded.map = names /\ decoded.map[name] = items[i]
  BY <1>7, <1>9, <1>10
<1>13. items[i] \in Decoder!Shown(decoded)
  BY <1>7, <1>10, <1>12 DEF Decoder!Shown, Decoder!Range
<1> QED
  BY <1>11, <1>13 DEF decoded

\* What is kept of a value that is decoded is shown by its decoding, or is decoded alike.
LEMMA KeptIsShown ==
    ASSUME NEW root, AllShaped(root), NEW depth, NEW v, Called(root, depth, v),
           Got(root, depth, v) # Decoder!Rejected, NEW part \in Decoder!Kept(v)
    PROVE  /\ depth \in 0 .. DepthLimit
           /\ Called(root, depth + 1, part)
           /\ Got(root, depth + 1, part) # Decoder!Rejected
           /\ \/ Got(root, depth + 1, part) = Got(root, depth, v)
              \/ Got(root, depth + 1, part) \in Decoder!Shown(Got(root, depth, v))
<1>1. part \in Decoder!Children(v)
  BY DEF Decoder!Kept, Decoder!Children
<1>2. /\ depth \in 0 .. DepthLimit
      /\ Called(root, depth + 1, part)
      /\ Got(root, depth + 1, part) # Decoder!Rejected
  BY <1>1, ChildDecodes
<1>3. CASE v.type = "described"
  <2>1. part = v.of
    BY <1>1, <1>3 DEF Decoder!Children
  <2> QED
    BY <1>2, <1>3, <2>1, DescribedDecodes
<1>4. CASE v.type \in {"list", "array"}
  <2>1. PICK i \in DOMAIN v.items : part = v.items[i]
    BY <1>1, <1>4 DEF Decoder!Children, Decoder!Range
  <2> QED
    BY <1>2, <1>4, <2>1, ItemIsShown
<1>5. CASE v.type = "map"
  <2>1. PICK i \in DOMAIN v.pairs :
            /\ part = v.pairs[i][2]
            /\ \A k \in DOMAIN v.pairs : k > i
                   => Decoder!KeyText(v.pairs[k][1]) \cap Decoder!KeyText(v.pairs[i][1]) = {}
    BY <1>5 DEF Decoder!Kept
  <2> QED
    BY <1>2, <1>5, <2>1, EntryIsShown
<1>6. v.type \in {"described", "list", "array", "map"}
  BY <1>1 DEF Decoder!Children
<1> QED
  BY <1>2, <1>3, <1>4, <1>5, <1>6

\* What is kept anywhere inside a value that is decoded is shown somewhere by its decoding.
LEMMA AllKeptIsShown ==
    ASSUME NEW root, AllShaped(root), Decoder!Decode(root) # Decoder!Rejected
    PROVE  \A depth \in 0 .. Top : \A v \in Decoder!KeptLevel(root)[depth] :
               /\ depth \in 0 .. DepthLimit
               /\ Called(root, depth, v)
               /\ Got(root, depth, v) # Decoder!Rejected
               /\ \E at \in 0 .. depth :
                      Got(root, depth, v) \in Decoder!ShownLevel(Decoder!Decode(root))[at]
<1> DEFINE shown(at) == Decoder!ShownLevel(Decoder!Decode(root))[at]
           Seen(depth, v) == /\ depth \in 0 .. DepthLimit
                             /\ Called(root, depth, v)
                             /\ Got(root, depth, v) # Decoder!Rejected
                             /\ \E at \in 0 .. depth : Got(root, depth, v) \in shown(at)
           Holds == {depth \in Nat : \A v \in Decoder!KeptLevel(root)[depth] : Seen(depth, v)}
<1>1. Top \in Nat /\ Top - 1 = DepthLimit /\ 0 \in 0 .. DepthLimit
  BY LimitsAssumption DEF Top
<1>2. 0 \in Holds
  <2>1. Decoder!KeptLevel(root)[0] = {root}
    BY KeptLevelEquation
  <2>2. shown(0) = {Decoder!Decode(root)}
    BY ShownLevelEquation
  <2> HIDE DEF shown
  <2>3. Seen(0, root)
    BY <1>1, <2>2, RootIsCalled
  <2> HIDE DEF Seen
  <2> QED
    BY <2>1, <2>3
<1>3. ASSUME NEW depth \in 0 .. DepthLimit, depth \in Holds
      PROVE  depth + 1 \in Holds
  <2>1. ASSUME NEW part \in Decoder!KeptLevel(root)[depth + 1]
        PROVE  Seen(depth + 1, part)
    <3>1. PICK v \in Decoder!KeptLevel(root)[depth] : part \in Decoder!Kept(v)
      BY KeptLevelEquation
    <3>2. Seen(depth, v)
      BY <1>3
    <3>3. PICK at \in 0 .. depth : Got(root, depth, v) \in shown(at)
      BY <3>2
    <3>4. shown(at + 1) = UNION {Decoder!Shown(other) : other \in shown(at)}
      <4>1. at \in 0 .. DepthLimit
        BY <1>1
      <4> QED
        BY <4>1, ShownLevelEquation
    <3> HIDE DEF shown
    <3>5. /\ Called(root, depth + 1, part)
          /\ Got(root, depth + 1, part) # Decoder!Rejected
          /\ \/ Got(root, depth + 1, part) = Got(root, depth, v)
             \/ Got(root, depth + 1, part) \in Decoder!Shown(Got(root, depth, v))
      BY <3>1, <3>2, KeptIsShown
    <3>6. depth + 1 \in 0 .. DepthLimit
      BY <3>5, CallReturns
    <3>7. \E other \in 0 .. depth + 1 : Got(root, depth + 1, part) \in shown(other)
      <4>1. at \in 0 .. depth + 1 /\ at + 1 \in 0 .. depth + 1
        OBVIOUS
      <4> QED
        BY <3>3, <3>4, <3>5, <4>1
    <3> QED
      BY <3>5, <3>6, <3>7
  <2> HIDE DEF Seen
  <2> QED
    BY <2>1
<1>4. \A depth \in 0 .. Top : depth \in Holds
  <2>1. Holds \in SUBSET Nat /\ \A depth \in 0 .. Top - 1 : depth \in Holds => depth + 1 \in Holds
    BY <1>1, <1>3
  <2> HIDE DEF Holds
  <2> QED
    BY <1>1, <1>2, <2>1, CountingUp
<1> QED
  BY <1>4

\* A number is shown by its decoding.
LEMMA NumberIsShown ==
    ASSUME NEW v, NEW part, WellShaped(v), v.type \in Decoder!NumberTypes \cup {"ulong"}
    PROVE  v.n \in Decoder!NumberShown(Decoder!DecodeOne(v, part))
<1> DEFINE decoded == Decoder!DecodeOne(v, part)
<1>1. CASE v.type \in Decoder!NumberTypes
  <2>1. decoded = [type |-> "Integer", n |-> v.n]
    BY <1>1, DecodesScalars
  <2>2. v.n <= MaxSigned
    BY <1>1 DEF WellShaped
  <2> HIDE DEF decoded
  <2> QED
    BY <2>1, <2>2 DEF Decoder!NumberShown, decoded
<1>2. CASE v.type = "ulong" /\ v.n > MaxSigned
  <2>1. decoded = [type |-> "String", t |-> Decoder!Decimal(v.n)]
    BY <1>2, DecodesScalars DEF Decoder!DecodeUnsigned
  <2> HIDE DEF decoded
  <2> QED
    BY <2>1 DEF Decoder!NumberShown, Decoder!Decimal, decoded
<1>3. CASE v.type = "ulong" /\ ~(v.n > MaxSigned)
  <2>1. decoded = [type |-> "Integer", n |-> v.n]
    BY <1>3, DecodesScalars DEF Decoder!DecodeUnsigned
  <2>2. v.n <= MaxSigned
    BY <1>3, LimitsAssumption DEF WellShaped
  <2> HIDE DEF decoded
  <2> QED
    BY <2>1, <2>2 DEF Decoder!NumberShown, decoded
<1> QED
  BY <1>1, <1>2, <1>3

\* Every number that is kept is shown.
LEMMA NumbersAreShown ==
    ASSUME NEW root, AllShaped(root), Decoder!Decode(root) # Decoder!Rejected
    PROVE  Decoder!Numbers(root) \subseteq Decoder!NumbersShown(Decoder!Decode(root))
<1> SUFFICES ASSUME NEW n \in Decoder!Numbers(root)
             PROVE  n \in Decoder!NumbersShown(Decoder!Decode(root))
  OBVIOUS
<1>1. PICK depth \in 0 .. DepthLimit : \E v \in Decoder!KeptLevel(root)[depth] :
          v.type \in Decoder!NumberTypes \cup {"ulong"} /\ n = v.n
  BY DEF Decoder!Numbers
<1>2. PICK v \in Decoder!KeptLevel(root)[depth] :
          v.type \in Decoder!NumberTypes \cup {"ulong"} /\ n = v.n
  BY <1>1
<1>3. depth \in 0 .. Top
  BY LimitsAssumption DEF Top
<1>4. Called(root, depth, v)
  BY <1>3, AllKeptIsShown
<1>5. PICK at \in 0 .. depth :
          Got(root, depth, v) \in Decoder!ShownLevel(Decoder!Decode(root))[at]
  BY <1>3, AllKeptIsShown
<1>6. Got(root, depth, v) = Decoder!DecodeOne(v, Decoder!Calls(root)[depth + 1])
  BY <1>4, CallReturns
<1>7. WellShaped(v)
  BY <1>4 DEF AllShaped, Called
<1>8. n \in Decoder!NumberShown(Got(root, depth, v))
  BY <1>2, <1>6, <1>7, NumberIsShown
<1>9. at \in 0 .. DepthLimit
  BY LimitsAssumption
<1> QED
  BY <1>5, <1>8, <1>9 DEF Decoder!NumbersShown

-----------------------------------------------------------------------------
(* The values that are built. *)

\* A set of values with all that is inside them.
Closed(values) == \A v \in values : WellShaped(v) /\ Decoder!Children(v) \subseteq values

\* The value, and all that is inside it however deep, is such as the decoder is called on.
DecoderInv == \E values : term \in values /\ Closed(values)

\* What is inside such a set stays inside at every depth.
LEMMA ClosedIsShaped ==
    ASSUME NEW values, Closed(values), NEW root \in values
    PROVE  AllShaped(root)
<1> DEFINE Holds == {depth \in Nat : Decoder!Level(root)[depth] \subseteq values}
<1>1. Top \in Nat /\ Top - 1 = DepthLimit
  BY LimitsAssumption DEF Top
<1>2. 0 \in Holds
  BY LevelEquation
<1>3. ASSUME NEW depth \in 0 .. DepthLimit, depth \in Holds
      PROVE  depth + 1 \in Holds
  <2>1. Decoder!Level(root)[depth + 1]
            = UNION {Decoder!Children(other) : other \in Decoder!Level(root)[depth]}
    BY LevelEquation
  <2>2. Decoder!Level(root)[depth + 1] \subseteq values
    BY <1>3, <2>1 DEF Closed
  <2> QED
    BY <2>2
<1>4. \A depth \in 0 .. Top : depth \in Holds
  <2>1. Holds \in SUBSET Nat /\ \A depth \in 0 .. Top - 1 : depth \in Holds => depth + 1 \in Holds
    BY <1>1, <1>3
  <2> HIDE DEF Holds
  <2> QED
    BY <1>1, <1>2, <2>1, CountingUp
<1> QED
  BY <1>4 DEF AllShaped, Closed

\* Values without parts are such values.
LEMMA LeafIsShaped ==
    ASSUME NEW v, IsLeaf(v)
    PROVE  WellShaped(v) /\ Decoder!Children(v) = {}
<1>1. WellShaped(v)
  BY DEF IsLeaf, WellShaped, Decoder!ScalarTypes, Decoder!NumberTypes, Decoder!TextTypes
<1>2. Decoder!Children(v) = {}
  BY DEF IsLeaf, Decoder!Children, Decoder!ScalarTypes, Decoder!NumberTypes, Decoder!TextTypes
<1> QED
  BY <1>1, <1>2

\* A value made of such values is one.
LEMMA MadeOfClosed ==
    ASSUME NEW values, Closed(values), NEW made, WellShaped(made),
           Decoder!Children(made) \subseteq values \cup Siblings \cup Keys
    PROVE  \E larger : made \in larger /\ Closed(larger)
<1> DEFINE larger == values \cup Siblings \cup Keys \cup {made}
<1>1. \A v \in Siblings \cup Keys : WellShaped(v) /\ Decoder!Children(v) = {}
  BY LeavesAssumption, LeafIsShaped
<1>2. Closed(larger)
  BY <1>1 DEF Closed
<1> QED
  BY <1>2

\* A described value.
LEMMA DescribedMade ==
    ASSUME NEW v, NEW made, made = [type |-> "described", of |-> v]
    PROVE  WellShaped(made) /\ Decoder!Children(made) = {v}
<1>1. made.type = "described" /\ made.of = v
  OBVIOUS
<1> QED
  BY <1>1 DEF WellShaped, Decoder!Children, Decoder!NumberTypes

\* A list or an array.
LEMMA ListMade ==
    ASSUME NEW type \in {"list", "array"}, NEW items, NEW made,
           made = [type |-> type, items |-> items]
    PROVE  WellShaped(made) /\ Decoder!Children(made) = {items[i] : i \in DOMAIN items}
<1>1. made.type = type /\ made.items = items
  OBVIOUS
<1>2. WellShaped(made)
  BY <1>1 DEF WellShaped, Decoder!NumberTypes
<1>3. Decoder!Children(made) = {items[i] : i \in DOMAIN items}
  BY <1>1 DEF Decoder!Children, Decoder!Range
<1> QED
  BY <1>2, <1>3

\* A map.
LEMMA MapMade ==
    ASSUME NEW pairs, DOMAIN pairs \subseteq Int, NEW made,
           made = [type |-> "map", pairs |-> pairs]
    PROVE  /\ WellShaped(made)
           /\ Decoder!Children(made) = {pairs[i][1] : i \in DOMAIN pairs}
                                           \cup {pairs[i][2] : i \in DOMAIN pairs}
<1>1. made.type = "map" /\ made.pairs = pairs
  OBVIOUS
<1>2. WellShaped(made)
  BY <1>1 DEF WellShaped, Decoder!NumberTypes
<1>3. Decoder!Children(made) = {pairs[i][1] : i \in DOMAIN pairs}
                                   \cup {pairs[i][2] : i \in DOMAIN pairs}
  BY <1>1 DEF Decoder!Children
<1> QED
  BY <1>2, <1>3

\* The values a peer may begin with.
LEMMA InitiallyDecodable == Decoder!Init => DecoderInv
<1> SUFFICES ASSUME Decoder!Init
             PROVE  WellShaped(term) /\ Decoder!Children(term) = {}
  <2>1. WellShaped(term) /\ Decoder!Children(term) = {}
            => term \in {term} /\ Closed({term})
    BY DEF Closed
  <2> QED
    BY <2>1 DEF DecoderInv
<1>1. CASE term \in Leaves
  BY <1>1, LeavesAssumption, LeafIsShaped
<1>2. CASE term = [type |-> "map", pairs |-> <<>>]
  <2>1. DOMAIN <<>> = {}
    OBVIOUS
  <2>2. /\ WellShaped(term)
        /\ Decoder!Children(term) = {<<>>[i][1] : i \in DOMAIN <<>>}
                                        \cup {<<>>[i][2] : i \in DOMAIN <<>>}
    BY <1>2, <2>1, MapMade
  <2> QED
    BY <2>1, <2>2
<1>3. CASE term = [type |-> "list", items |-> <<>>]
  <2>1. DOMAIN <<>> = {}
    OBVIOUS
  <2>2. WellShaped(term) /\ Decoder!Children(term) = {<<>>[i] : i \in DOMAIN <<>>}
    BY <1>3, ListMade
  <2> QED
    BY <2>1, <2>2
<1> QED
  BY <1>1, <1>2, <1>3 DEF Decoder!Init

\* Nesting a value keeps it such a value.
LEMMA NestingKeepsDecodable ==
    ASSUME DecoderInv, [Decoder!Next]_term
    PROVE  DecoderInv'
<1>1. PICK values : term \in values /\ Closed(values)
  BY DEF DecoderInv
<1>2. CASE UNCHANGED term
  BY <1>1, <1>2 DEF DecoderInv
<1>3. ASSUME WellShaped(term'), Decoder!Children(term') \subseteq values \cup Siblings \cup Keys
      PROVE  DecoderInv'
  <2>1. \E larger : term' \in larger /\ Closed(larger)
    BY <1>1, <1>3, MadeOfClosed
  <2> QED
    BY <2>1 DEF DecoderInv
<1>4. CASE Decoder!Describe
  <2>1. WellShaped(term') /\ Decoder!Children(term') = {term}
    BY <1>4, DescribedMade DEF Decoder!Describe
  <2> QED
    BY <1>1, <1>3, <2>1
<1>5. CASE Decoder!PutInList
  <2>1. CASE term' = [type |-> "array", items |-> <<term>>]
    <3>1. WellShaped(term') /\ Decoder!Children(term') = {<<term>>[i] : i \in DOMAIN <<term>>}
      BY <2>1, ListMade
    <3>2. Decoder!Children(term') \subseteq {term}
      BY <3>1
    <3> QED
      BY <1>1, <1>3, <3>1, <3>2
  <2>2. ASSUME NEW sibling \in Siblings,
               term' = [type |-> "list", items |-> <<sibling, term>>]
        PROVE  DecoderInv'
    <3>1. /\ WellShaped(term')
          /\ Decoder!Children(term')
                 = {<<sibling, term>>[i] : i \in DOMAIN <<sibling, term>>}
      BY <2>2, ListMade
    <3>2. Decoder!Children(term') \subseteq {sibling, term}
      BY <3>1
    <3> QED
      BY <1>1, <1>3, <3>1, <3>2
  <2> QED
    BY <1>5, <2>1, <2>2 DEF Decoder!PutInList
<1>6. CASE Decoder!PutInMap
  <2>1. PICK key, otherKey \in Keys, sibling \in Siblings :
            term' = [type |-> "map", pairs |-> <<<<otherKey, sibling>>, <<key, term>>>>]
    BY <1>6 DEF Decoder!PutInMap
  <2> DEFINE pairs == <<<<otherKey, sibling>>, <<key, term>>>>
  <2>2. /\ DOMAIN pairs = 1 .. 2
        /\ pairs[1][1] = otherKey /\ pairs[1][2] = sibling
        /\ pairs[2][1] = key /\ pairs[2][2] = term
    OBVIOUS
  <2> HIDE DEF pairs
  <2>3. /\ WellShaped(term')
        /\ Decoder!Children(term') = {pairs[i][1] : i \in DOMAIN pairs}
                                         \cup {pairs[i][2] : i \in DOMAIN pairs}
    <3>1. DOMAIN pairs \subseteq Int /\ term' = [type |-> "map", pairs |-> pairs]
      BY <2>1, <2>2 DEF pairs
    <3> QED
      BY <3>1, MapMade
  <2>4. Decoder!Children(term') \subseteq {otherKey, key, sibling, term}
    BY <2>2, <2>3
  <2> QED
    BY <1>1, <1>3, <2>3, <2>4
<1>7. CASE Decoder!UseAsKey
  <2>1. PICK sibling \in Siblings : term' = [type |-> "map", pairs |-> <<<<term, sibling>>>>]
    BY <1>7 DEF Decoder!UseAsKey
  <2> DEFINE pairs == <<<<term, sibling>>>>
  <2>2. DOMAIN pairs = 1 .. 1 /\ pairs[1][1] = term /\ pairs[1][2] = sibling
    OBVIOUS
  <2> HIDE DEF pairs
  <2>3. /\ WellShaped(term')
        /\ Decoder!Children(term') = {pairs[i][1] : i \in DOMAIN pairs}
                                         \cup {pairs[i][2] : i \in DOMAIN pairs}
    <3>1. DOMAIN pairs \subseteq Int /\ term' = [type |-> "map", pairs |-> pairs]
      BY <2>1, <2>2 DEF pairs
    <3> QED
      BY <3>1, MapMade
  <2>4. Decoder!Children(term') \subseteq {sibling, term}
    BY <2>2, <2>3
  <2> QED
    BY <1>1, <1>3, <2>3, <2>4
<1> QED
  BY <1>2, <1>4, <1>5, <1>6, <1>7 DEF Decoder!Next

\* However a value is nested, it is such a value.
LEMMA DecodableHolds == Decoder!Spec => []DecoderInv
<1>1. DecoderInv /\ [Decoder!Next]_term => DecoderInv'
  BY NestingKeepsDecodable
<1> QED
  BY InitiallyDecodable, <1>1, PTL DEF Decoder!Spec

\* Everything inside it is.
LEMMA DecodableIsShaped == DecoderInv => AllShaped(term)
  BY ClosedIsShaped DEF DecoderInv

\* A metadata value is rejected for being nested too deep, of no known type, or keyed by
\* what is neither text nor an integer, and for nothing else: for any depth limit and any
\* value.
THEOREM RejectsAnyValueExactly == Decoder!Spec => []RejectsExactly
<1>1. AllShaped(term) => RejectsExactly
  <2> SUFFICES ASSUME AllShaped(term)
               PROVE  RejectsExactly
    OBVIOUS
  <2>1. Decoder!Depths = 0 .. Top
    BY DEF Decoder!Depths, Top
  <2> QED
    BY <2>1, RejectedForCause DEF RejectsExactly, Decoder!RejectsExactly, CauseAt
<1> QED
  BY DecodableHolds, DecodableIsShaped, <1>1, PTL

\* No integer of a value that is decoded is lost or changed, however nested, unless a later
\* entry of its map has the same key.
THEOREM KeepsEveryNumber == Decoder!Spec => []KeepsNumbers
<1>1. AllShaped(term) => KeepsNumbers
  BY NumbersAreShown DEF KeepsNumbers, Decoder!KeepsNumbers
<1> QED
  BY DecodableHolds, DecodableIsShaped, <1>1, PTL

\* What the getters decode as a map, the setters find a map in.
THEOREM AnyMapShownIsSettable == Decoder!Spec => []ShownMeansSettable
<1>1. AllShaped(term) => ShownMeansSettable
  BY DecodedMapIsSettable DEF ShownMeansSettable, Decoder!ShownMeansSettable
<1> QED
  BY DecodableHolds, DecodableIsShaped, <1>1, PTL

-----------------------------------------------------------------------------
(* Texts and separators. *)

\* A character does not occur in a text.
Free(text, character) == \A i \in 1 .. Len(text) : text[i] # character

\* One text stands in another, after a place.
StandsIn(text, place, part) == \A m \in 1 .. Len(part) : text[place + m] = part[m]

\* Two texts with a separator between them, character by character.
IsJoined(whole, left, separator, right) ==
    /\ whole \in Seq(Nat)
    /\ Len(whole) = Len(left) + 1 + Len(right)
    /\ \A i \in 1 .. Len(left) : whole[i] = left[i]
    /\ whole[Len(left) + 1] = separator
    /\ StandsIn(whole, Len(left) + 1, right)

\* A joined text is its parts.
LEMMA JoinedProperties ==
    ASSUME NEW s \in Seq(Nat), NEW c \in Nat, NEW t \in Seq(Nat)
    PROVE  IsJoined(Endpoint!Joined(s, c, t), s, c, t)
<1>1. /\ s \o <<c>> \in Seq(Nat) /\ Len(s \o <<c>>) = Len(s) + 1
      /\ \A i \in 1 .. Len(s) : (s \o <<c>>)[i] = s[i]
      /\ (s \o <<c>>)[Len(s) + 1] = c
  OBVIOUS
<1> DEFINE front == s \o <<c>>
<1>2. /\ front \o t \in Seq(Nat) /\ Len(front \o t) = Len(front) + Len(t)
      /\ \A i \in 1 .. Len(front) + Len(t) :
             (front \o t)[i] = IF i <= Len(front) THEN front[i] ELSE t[i - Len(front)]
  BY <1>1, ConcatProperties
<1>3. Len(s) \in Nat /\ Len(t) \in Nat /\ Endpoint!Joined(s, c, t) = front \o t
  BY DEF Endpoint!Joined
<1>4. Len(front) = Len(s) + 1 /\ front[Len(s) + 1] = c /\ \A i \in 1 .. Len(s) : front[i] = s[i]
  BY <1>1
<1> HIDE DEF front
<1>5. \A i \in 1 .. Len(t) : (front \o t)[Len(s) + 1 + i] = t[i]
  <2> TAKE i \in 1 .. Len(t)
  <2>1. /\ Len(s) + 1 + i \in 1 .. Len(front) + Len(t) /\ ~(Len(s) + 1 + i <= Len(front))
        /\ (Len(s) + 1 + i) - Len(front) = i
    BY <1>3, <1>4
  <2> QED
    BY <1>2, <2>1
<1>6. \A i \in 1 .. Len(s) : (front \o t)[i] = s[i]
  <2> TAKE i \in 1 .. Len(s)
  <2>1. i \in 1 .. Len(front) + Len(t) /\ i <= Len(front)
    BY <1>3, <1>4
  <2> QED
    BY <1>2, <1>4, <2>1
<1>7. (front \o t)[Len(s) + 1] = c
  <2>1. Len(s) + 1 \in 1 .. Len(front) + Len(t) /\ Len(s) + 1 <= Len(front)
    BY <1>3, <1>4
  <2> QED
    BY <1>2, <1>4, <2>1
<1>8. IsJoined(front \o t, s, c, t)
  BY <1>2, <1>4, <1>5, <1>6, <1>7 DEF StandsIn, IsJoined
<1> QED
  BY <1>3, <1>8

\* It is a text.
LEMMA JoinedIsText ==
    ASSUME NEW s \in Seq(Nat), NEW c \in Nat, NEW t \in Seq(Nat)
    PROVE  Endpoint!Joined(s, c, t) \in Seq(Nat)
  BY JoinedProperties DEF IsJoined

\* The least and the largest of a set, by what they are.
LEMMA ExtremesAre ==
    ASSUME NEW set \in SUBSET Int, NEW i \in set
    PROVE  /\ (\A j \in set : i <= j) => Endpoint!Min(set) = i
           /\ (\A j \in set : i >= j) => Endpoint!Max(set) = i
<1>1. ASSUME \A j \in set : i <= j
      PROVE  Endpoint!Min(set) = i
  <2>1. \E x \in set : \A y \in set : x <= y
    BY <1>1
  <2>2. Endpoint!Min(set) \in set /\ \A y \in set : Endpoint!Min(set) <= y
    BY <2>1, Zenon DEF Endpoint!Min
  <2>3. Endpoint!Min(set) \in Int /\ i \in Int
    BY <2>2
  <2> QED
    BY <1>1, <2>2, <2>3
<1>2. ASSUME \A j \in set : i >= j
      PROVE  Endpoint!Max(set) = i
  <2>1. \E x \in set : \A y \in set : x >= y
    BY <1>2
  <2>2. Endpoint!Max(set) \in set /\ \A y \in set : Endpoint!Max(set) >= y
    BY <2>1, Zenon DEF Endpoint!Max
  <2>3. Endpoint!Max(set) \in Int /\ i \in Int
    BY <2>2
  <2> QED
    BY <1>2, <2>2, <2>3
<1> QED
  BY <1>1, <1>2

\* The first place of a character is the one the search finds.
LEMMA FirstPlace ==
    ASSUME NEW text \in Seq(Nat), NEW c, NEW i \in 1 .. Len(text), text[i] = c,
           \A j \in 1 .. i - 1 : text[j] # c
    PROVE  Endpoint!Find(text, c) = i
<1>1. DOMAIN text = 1 .. Len(text) /\ Len(text) \in Nat
  OBVIOUS
<1>2. i \in Endpoint!Places(text, c)
  BY <1>1 DEF Endpoint!Places
<1>3. Endpoint!Places(text, c) \in SUBSET Int /\ \A j \in Endpoint!Places(text, c) : i <= j
  BY <1>1 DEF Endpoint!Places
<1>4. Endpoint!Min(Endpoint!Places(text, c)) = i
  BY <1>2, <1>3, ExtremesAre
<1> QED
  BY <1>2, <1>4 DEF Endpoint!Find

\* A place of a character that no later one follows is the one the search from the end finds.
LEMMA LastPlace ==
    ASSUME NEW text \in Seq(Nat), NEW c, NEW i \in 1 .. Len(text), text[i] = c,
           \A j \in i + 1 .. Len(text) : text[j] # c
    PROVE  Endpoint!FindLast(text, c) = i
<1>1. DOMAIN text = 1 .. Len(text) /\ Len(text) \in Nat
  OBVIOUS
<1>2. i \in Endpoint!Places(text, c)
  BY <1>1 DEF Endpoint!Places
<1>3. Endpoint!Places(text, c) \in SUBSET Int /\ \A j \in Endpoint!Places(text, c) : i >= j
  BY <1>1 DEF Endpoint!Places
<1>4. Endpoint!Max(Endpoint!Places(text, c)) = i
  BY <1>2, <1>3, ExtremesAre
<1> QED
  BY <1>2, <1>4 DEF Endpoint!FindLast

\* What does not occur is not found.
LEMMA NoPlace ==
    ASSUME NEW text \in Seq(Nat), NEW c, Free(text, c)
    PROVE  Endpoint!Find(text, c) = 0 /\ Endpoint!FindLast(text, c) = 0
<1>1. Endpoint!Places(text, c) = {}
  BY DEF Endpoint!Places, Free
<1> QED
  BY <1>1 DEF Endpoint!Find, Endpoint!FindLast

\* In what was joined, the separator is found.
LEMMA JoinedFound ==
    ASSUME NEW s \in Seq(Nat), NEW c \in Nat, NEW t \in Seq(Nat)
    PROVE  /\ Free(s, c) => Endpoint!Find(Endpoint!Joined(s, c, t), c) = Len(s) + 1
           /\ Free(t, c) => Endpoint!FindLast(Endpoint!Joined(s, c, t), c) = Len(s) + 1
<1> DEFINE whole == Endpoint!Joined(s, c, t)
<1>1. /\ whole \in Seq(Nat) /\ Len(whole) = Len(s) + 1 + Len(t)
      /\ \A i \in 1 .. Len(s) : whole[i] = s[i]
      /\ whole[Len(s) + 1] = c
      /\ StandsIn(whole, Len(s) + 1, t)
  <2>1. IsJoined(whole, s, c, t)
    BY JoinedProperties
  <2> HIDE DEF whole
  <2> QED
    BY <2>1 DEF IsJoined
<1>2. Len(s) \in Nat /\ Len(t) \in Nat
  OBVIOUS
<1> HIDE DEF whole
<1>3. Len(s) + 1 \in 1 .. Len(whole)
  BY <1>1, <1>2
<1>4. ASSUME Free(s, c)
      PROVE  Endpoint!Find(whole, c) = Len(s) + 1
  <2>1. ASSUME NEW j \in 1 .. (Len(s) + 1) - 1
        PROVE  whole[j] # c
    <3>1. j \in 1 .. Len(s)
      BY <1>2
    <3> QED
      BY <1>1, <1>4, <3>1 DEF Free
  <2> QED
    BY <1>1, <1>3, <2>1, FirstPlace
<1>5. ASSUME Free(t, c)
      PROVE  Endpoint!FindLast(whole, c) = Len(s) + 1
  <2>1. ASSUME NEW j \in (Len(s) + 1) + 1 .. Len(whole)
        PROVE  whole[j] # c
    <3>1. j - (Len(s) + 1) \in 1 .. Len(t) /\ Len(s) + 1 + (j - (Len(s) + 1)) = j
      BY <1>1, <1>2
    <3>2. whole[j] = t[j - (Len(s) + 1)]
      BY <1>1, <3>1 DEF StandsIn
    <3> QED
      BY <1>5, <3>1, <3>2 DEF Free
  <2> QED
    BY <1>1, <1>3, <2>1, LastPlace
<1> QED
  BY <1>4, <1>5 DEF whole

\* Cut at the separator, a joined text gives its parts back.
LEMMA JoinedApart ==
    ASSUME NEW s \in Seq(Nat), NEW c \in Nat, NEW t \in Seq(Nat)
    PROVE  /\ Endpoint!Before(Endpoint!Joined(s, c, t), Len(s) + 1) = s
           /\ Endpoint!After(Endpoint!Joined(s, c, t), Len(s) + 1) = t
           /\ Endpoint!Splits(Endpoint!Joined(s, c, t), Len(s) + 1) <=> s # <<>> /\ t # <<>>
<1> DEFINE whole == Endpoint!Joined(s, c, t)
<1>1. /\ whole \in Seq(Nat) /\ Len(whole) = Len(s) + 1 + Len(t)
      /\ \A i \in 1 .. Len(s) : whole[i] = s[i]
      /\ whole[Len(s) + 1] = c
      /\ StandsIn(whole, Len(s) + 1, t)
  <2>1. IsJoined(whole, s, c, t)
    BY JoinedProperties
  <2> HIDE DEF whole
  <2> QED
    BY <2>1 DEF IsJoined
<1>2. Len(s) \in Nat /\ Len(t) \in Nat
  OBVIOUS
<1> HIDE DEF whole
<1>3. \A i \in 1 .. Len(whole) : whole[i] \in Nat
  BY <1>1, ElementOfSeq
<1>4. SubSeq(whole, 1, (Len(s) + 1) - 1) = s
  <2> DEFINE part == SubSeq(whole, 1, (Len(s) + 1) - 1)
  <2>1. \A i \in 1 .. (Len(s) + 1) - 1 : whole[i] \in Nat
    BY <1>1, <1>2, <1>3
  <2>2. /\ part \in Seq(Nat) /\ Len(part) = Len(s)
        /\ \A i \in 1 .. Len(s) : part[i] = whole[i]
    BY <1>2, <2>1, SubSeqProperties
  <2> HIDE DEF part
  <2>3. part = s
    BY <1>1, <2>2, SeqEqual
  <2> QED
    BY <2>3 DEF part
<1>5. SubSeq(whole, (Len(s) + 1) + 1, Len(whole)) = t
  <2> DEFINE m == (Len(s) + 1) + 1
             part == SubSeq(whole, m, Len(whole))
  <2>1. /\ m \in Int /\ Len(whole) \in Int
        /\ \A i \in m .. Len(whole) : whole[i] \in Nat
    BY <1>1, <1>2, <1>3
  <2>2. /\ part \in Seq(Nat) /\ Len(part) = IF m <= Len(whole) THEN Len(whole) - m + 1 ELSE 0
        /\ \A i \in 1 .. Len(whole) - m + 1 : part[i] = whole[m + i - 1]
    <3> HIDE DEF m
    <3> QED
      BY <2>1, SubSeqProperties
  <2>3. Len(part) = Len(t) /\ Len(whole) - m + 1 = Len(t)
    BY <1>1, <1>2, <2>2
  <2>4. ASSUME NEW i \in 1 .. Len(t)
        PROVE  part[i] = t[i]
    <3>1. m + i - 1 = Len(s) + 1 + i
      BY <1>2
    <3> QED
      BY <1>1, <2>2, <2>3, <3>1 DEF StandsIn
  <2> HIDE DEF part
  <2>5. part = t
    BY <2>2, <2>3, <2>4, SeqEqual
  <2> QED
    BY <2>5 DEF part
<1>6. Endpoint!Splits(whole, Len(s) + 1) <=> s # <<>> /\ t # <<>>
  <2>1. (s # <<>> <=> Len(s) > 0) /\ (t # <<>> <=> Len(t) > 0)
    OBVIOUS
  <2> QED
    BY <1>1, <1>2, <2>1 DEF Endpoint!Splits
<1> QED
  BY <1>4, <1>5, <1>6 DEF whole, Endpoint!Before, Endpoint!After

\* What occurs in neither part and is not the separator does not occur.
LEMMA JoinedFree ==
    ASSUME NEW s \in Seq(Nat), NEW d \in Nat, NEW t \in Seq(Nat), NEW c,
           Free(s, c), Free(t, c), c # d
    PROVE  Free(Endpoint!Joined(s, d, t), c)
<1> DEFINE whole == Endpoint!Joined(s, d, t)
<1>1. /\ whole \in Seq(Nat) /\ Len(whole) = Len(s) + 1 + Len(t)
      /\ \A i \in 1 .. Len(s) : whole[i] = s[i]
      /\ whole[Len(s) + 1] = d
      /\ StandsIn(whole, Len(s) + 1, t)
  <2>1. IsJoined(whole, s, d, t)
    BY JoinedProperties
  <2> HIDE DEF whole
  <2> QED
    BY <2>1 DEF IsJoined
<1>2. Len(s) \in Nat /\ Len(t) \in Nat
  OBVIOUS
<1> HIDE DEF whole
<1>3. ASSUME NEW i \in 1 .. Len(whole)
      PROVE  whole[i] # c
  <2>1. CASE i \in 1 .. Len(s)
    BY <1>1, <2>1 DEF Free
  <2>2. CASE i = Len(s) + 1
    BY <1>1, <2>2
  <2>3. CASE i > Len(s) + 1
    <3>1. i - (Len(s) + 1) \in 1 .. Len(t) /\ Len(s) + 1 + (i - (Len(s) + 1)) = i
      BY <1>1, <1>2, <2>3
    <3>2. whole[i] = t[i - (Len(s) + 1)]
      BY <1>1, <3>1 DEF StandsIn
    <3> QED
      BY <3>1, <3>2 DEF Free
  <2>4. i \in 1 .. Len(s) \/ i = Len(s) + 1 \/ i > Len(s) + 1
    <3>1. i \in Nat /\ i >= 1
      BY <1>1, <1>2
    <3> DEFINE m == Len(s)
    <3>2. m \in Nat
      BY <1>2
    <3> HIDE DEF m
    <3>3. i \in 1 .. m \/ i = m + 1 \/ i > m + 1
      BY <3>1, <3>2
    <3> QED
      BY <3>3 DEF m
  <2> QED
    BY <2>1, <2>2, <2>3, <2>4
<1> QED
  BY <1>3 DEF Free, whole

-----------------------------------------------------------------------------
(* decodePercent. *)

\* What is decoded from a place on, given what is decoded after one character and after a code.
DecodedFrom(text, i, afterOne, afterCode) ==
    IF i > Len(text) THEN {<<>>}
    ELSE IF text[i] # Percent THEN {<<text[i]>> \o decoded : decoded \in afterOne}
    ELSE IF ~Endpoint!Fits(text, i) THEN {}
    ELSE {<<16 * codes[1] + codes[2]>> \o codes[3] :
              codes \in Endpoint!HexDigit(text[i + 1]) \X Endpoint!HexDigit(text[i + 2])
                            \X afterCode}

\* Beyond the end there is nothing.
LEMMA DecodesToEnd ==
    ASSUME NEW text \in Seq(Nat), NEW one, NEW another, NEW code, NEW otherCode
    PROVE  DecodedFrom(text, Len(text) + 1, one, code)
               = DecodedFrom(text, Len(text) + 1, another, otherCode)
<1>1. Len(text) + 1 > Len(text)
  OBVIOUS
<1> QED
  BY <1>1 DEF DecodedFrom

\* A code does not reach beyond the end.
LEMMA DecodesWithin ==
    ASSUME NEW text \in Seq(Nat), NEW i \in 1 .. Len(text), i + 2 > Len(text),
           NEW one, NEW code, NEW otherCode
    PROVE  DecodedFrom(text, i, one, code) = DecodedFrom(text, i, one, otherCode)
<1>1. ~Endpoint!Fits(text, i)
  BY DEF Endpoint!Fits
<1> QED
  BY <1>1 DEF DecodedFrom

\* The recursive function of DecodePercent satisfies its equation.
LEMMA DecodeEquation ==
    ASSUME NEW text \in Seq(Nat)
    PROVE  \E rest : /\ \A i \in 1 .. Len(text) + 1 :
                            rest[i] = DecodedFrom(text, i, rest[i + 1], rest[i + 3])
                     /\ Endpoint!DecodePercent(text) = rest[1]
<1> DEFINE size == Len(text)
           Made(i, one, code) == DecodedFrom(text, i, one, code)
           Right(rest, n) == \A i \in size + 1 - n .. size + 1 :
                                 rest[i] = Made(i, rest[i + 1], rest[i + 3])
           Reached == {n \in Nat : \E rest : Right(rest, n)}
<1>1. size \in Nat
  OBVIOUS
<1>2. \A one, another, code, otherCode :
          Made(size + 1, one, code) = Made(size + 1, another, otherCode)
  BY DecodesToEnd
<1>3. \A one, code, otherCode : \A i \in 1 .. size : i + 2 > size =>
          Made(i, one, code) = Made(i, one, otherCode)
  BY DecodesWithin
<1>0. Endpoint!DecodePercent(text)
          = (CHOOSE f : f = [i \in 1 .. size + 1 |-> Made(i, f[i + 1], f[i + 3])])[1]
  BY DEF Endpoint!DecodePercent, DecodedFrom, Percent, Endpoint!Percent
<1> HIDE DEF Made, size
<1>4. 0 \in Reached
  <2> DEFINE only == [i \in {size + 1} |-> Made(size + 1, 0, 0)]
  <2>1. ASSUME NEW i \in size + 1 - 0 .. size + 1
        PROVE  only[i] = Made(i, only[i + 1], only[i + 3])
    <3>1. i = size + 1 /\ only[i] = Made(size + 1, 0, 0)
      BY <1>1
    <3> HIDE DEF only
    <3> QED
      BY <1>2, <3>1
  <2>2. Right(only, 0)
    BY <2>1
  <2> HIDE DEF Right
  <2> QED
    BY <2>2
<1>5. ASSUME NEW n \in 0 .. size - 1, n \in Reached
      PROVE  n + 1 \in Reached
  <2>1. PICK rest : Right(rest, n)
    BY <1>5
  <2> DEFINE new == size - n
             longer == [i \in new .. size + 1 |->
                            IF i = new THEN Made(new, rest[new + 1], rest[new + 3]) ELSE rest[i]]
  <2>2. new \in 1 .. size /\ new = size + 1 - (n + 1) /\ size + 1 - n = new + 1
    BY <1>1
  <2>3. ASSUME NEW i \in new .. size + 1
        PROVE  longer[i] = Made(i, longer[i + 1], longer[i + 3])
    <3> HIDE DEF new
    <3>1. CASE i = size + 1
      <4>1. longer[i] = rest[i] /\ rest[i] = Made(i, rest[i + 1], rest[i + 3])
        BY <1>1, <2>1, <2>2, <3>1
      <4> HIDE DEF longer
      <4> QED
        BY <1>2, <3>1, <4>1
    <3>2. CASE i = new
      <4>1. longer[i] = Made(i, rest[i + 1], rest[i + 3]) /\ longer[i + 1] = rest[i + 1]
        BY <1>1, <2>2, <3>2
      <4>2. CASE i + 2 > size
        <5> HIDE DEF longer
        <5> QED
          BY <1>3, <2>2, <3>2, <4>1, <4>2
      <4>3. CASE ~(i + 2 > size)
        <5>1. longer[i + 3] = rest[i + 3]
          BY <1>1, <2>2, <3>2, <4>3
        <5> HIDE DEF longer
        <5> QED
          BY <4>1, <5>1
      <4> QED
        BY <4>2, <4>3
    <3>3. CASE i \in new + 1 .. size
      <4>1. longer[i] = rest[i] /\ longer[i + 1] = rest[i + 1]
        BY <1>1, <2>2, <3>3
      <4>2. rest[i] = Made(i, rest[i + 1], rest[i + 3])
        BY <1>1, <2>1, <2>2, <3>3
      <4>3. CASE i + 2 > size
        <5>1. i \in 1 .. size
          BY <2>2, <3>3
        <5> HIDE DEF longer
        <5> QED
          BY <1>3, <4>1, <4>2, <4>3, <5>1
      <4>4. CASE ~(i + 2 > size)
        <5>1. longer[i + 3] = rest[i + 3]
          BY <1>1, <2>2, <3>3, <4>4
        <5> HIDE DEF longer
        <5> QED
          BY <4>1, <4>2, <5>1
      <4> QED
        BY <4>3, <4>4
    <3> QED
      BY <1>1, <2>2, <3>1, <3>2, <3>3
  <2> HIDE DEF longer
  <2>4. Right(longer, n + 1)
    BY <2>2, <2>3
  <2> HIDE DEF Right
  <2> QED
    BY <2>4
<1>6. size \in Reached
  <2>1. Reached \in SUBSET Nat
    OBVIOUS
  <2>2. \A n \in 0 .. size - 1 : n \in Reached => n + 1 \in Reached
    BY <1>5
  <2> HIDE DEF Reached
  <2>3. \A n \in 0 .. size : n \in Reached
    BY <1>1, <1>4, <2>1, <2>2, CountingUp
  <2> QED
    BY <1>1, <2>3
<1>7. PICK rest : Right(rest, size)
  BY <1>6
<1> DEFINE Equation(f) == f = [i \in 1 .. size + 1 |-> Made(i, f[i + 1], f[i + 3])]
           known == [i \in 1 .. size + 1 |-> rest[i]]
<1>8. Equation(known)
  <2>1. ASSUME NEW i \in 1 .. size + 1
        PROVE  known[i] = Made(i, known[i + 1], known[i + 3])
    <3>1. known[i] = rest[i] /\ rest[i] = Made(i, rest[i + 1], rest[i + 3])
      BY <1>1, <1>7
    <3>2. CASE i = size + 1
      <4> HIDE DEF known
      <4> QED
        BY <1>2, <3>1, <3>2
    <3>3. CASE i \in 1 .. size
      <4>1. known[i + 1] = rest[i + 1]
        BY <1>1, <3>3
      <4>2. CASE i + 2 > size
        <5> HIDE DEF known
        <5> QED
          BY <1>3, <3>1, <3>3, <4>1, <4>2
      <4>3. CASE ~(i + 2 > size)
        <5>1. known[i + 3] = rest[i + 3]
          BY <1>1, <3>3, <4>3
        <5> HIDE DEF known
        <5> QED
          BY <3>1, <4>1, <5>1
      <4> QED
        BY <4>2, <4>3
    <3> QED
      BY <1>1, <3>2, <3>3
  <2> QED
    BY <2>1
<1> DEFINE chosen == CHOOSE f : Equation(f)
<1>9. Equation(chosen)
  <2> HIDE DEF Equation, known
  <2> QED
    BY <1>8
<1>10. Endpoint!DecodePercent(text) = chosen[1]
  BY <1>0
<1> HIDE DEF chosen
<1>11. \A i \in 1 .. size + 1 : chosen[i] = Made(i, chosen[i + 1], chosen[i + 3])
  BY <1>9
<1> QED
  BY <1>10, <1>11 DEF Made, size

\* What holds of a place, if it holds of all after it, holds of every place.
LEMMA CountingBack ==
    ASSUME NEW n \in Nat, NEW Holds \in SUBSET Nat,
           \A i \in 1 .. n : (\A j \in i + 1 .. n : j \in Holds) => i \in Holds
    PROVE  \A i \in 1 .. n : i \in Holds
<1> DEFINE Fails == {k \in 0 .. n - 1 : n - k \notin Holds}
<1> SUFFICES ASSUME NEW i \in 1 .. n, i \notin Holds
             PROVE  FALSE
  OBVIOUS
<1>1. PICK least \in Fails : \A other \in Fails : least <= other
  <2>1. n - i \in 0 .. n - 1 /\ n - (n - i) = i
    OBVIOUS
  <2>2. Fails \in SUBSET Nat /\ n - i \in Fails
    BY <2>1
  <2> HIDE DEF Fails
  <2> QED
    BY <2>2, LeastNatural
<1>2. least \in 0 .. n - 1 /\ n - least \in 1 .. n /\ n - least \notin Holds
  BY <1>1
<1>3. ASSUME NEW j \in (n - least) + 1 .. n
      PROVE  j \in Holds
  <2>1. n - j \in 0 .. n - 1 /\ n - (n - j) = j /\ ~(least <= n - j)
    BY <1>2
  <2> QED
    BY <1>1, <2>1
<1> QED
  BY <1>2, <1>3

\* What is decoded from every place of a text on.
Decodes(text, rest) ==
    \A i \in 1 .. Len(text) + 1 : rest[i] = DecodedFrom(text, i, rest[i + 1], rest[i + 3])

\* A set that is empty or has one text.
OneText(set) == set \subseteq Seq(Nat) /\ \A one, another \in set : one = another

\* A hexadecimal digit has at most one value.
LEMMA DigitsAreOne ==
    ASSUME NEW character \in Nat
    PROVE  /\ Endpoint!HexDigit(character) \subseteq Nat
           /\ \A one, another \in Endpoint!HexDigit(character) : one = another
<1>1. CASE character \in 48 .. 57
  BY <1>1 DEF Endpoint!HexDigit
<1>2. CASE character \in 97 .. 102
  BY <1>2 DEF Endpoint!HexDigit
<1>3. CASE character \in 65 .. 70
  BY <1>3 DEF Endpoint!HexDigit
<1>4. CASE character \notin (48 .. 57) \cup (97 .. 102) \cup (65 .. 70)
  BY <1>4 DEF Endpoint!HexDigit
<1> QED
  BY <1>1, <1>2, <1>3, <1>4

\* One round of the loop.
LEMMA RoundIsOne ==
    ASSUME NEW text \in Seq(Nat), NEW i \in 1 .. Len(text) + 1, NEW one, NEW code,
           i <= Len(text) => OneText(one),
           i + 2 <= Len(text) => OneText(code)
    PROVE  OneText(DecodedFrom(text, i, one, code))
<1>1. CASE i > Len(text)
  <2>1. DecodedFrom(text, i, one, code) = {<<>>}
    BY <1>1 DEF DecodedFrom
  <2> QED
    BY <2>1 DEF OneText
<1>2. CASE ~(i > Len(text)) /\ text[i] # Percent
  <2>1. DecodedFrom(text, i, one, code) = {<<text[i]>> \o decoded : decoded \in one}
    BY <1>2 DEF DecodedFrom
  <2>2. OneText(one) /\ text[i] \in Nat
    BY <1>2
  <2>3. \A decoded \in one : <<text[i]>> \o decoded \in Seq(Nat)
    BY <2>2 DEF OneText
  <2> QED
    BY <2>1, <2>2, <2>3 DEF OneText
<1>3. CASE ~(i > Len(text)) /\ text[i] = Percent /\ ~Endpoint!Fits(text, i)
  <2>1. DecodedFrom(text, i, one, code) = {}
    BY <1>3 DEF DecodedFrom
  <2> QED
    BY <2>1 DEF OneText
<1>4. CASE ~(i > Len(text)) /\ text[i] = Percent /\ Endpoint!Fits(text, i)
  <2> DEFINE high == Endpoint!HexDigit(text[i + 1])
             low == Endpoint!HexDigit(text[i + 2])
  <2>1. DecodedFrom(text, i, one, code)
            = {<<16 * codes[1] + codes[2]>> \o codes[3] : codes \in high \X low \X code}
    BY <1>4 DEF DecodedFrom
  <2>2. i + 2 <= Len(text) /\ text[i + 1] \in Nat /\ text[i + 2] \in Nat
    BY <1>4 DEF Endpoint!Fits
  <2>3. OneText(code)
    BY <2>2
  <2>4. /\ high \subseteq Nat /\ \A x, y \in high : x = y
        /\ low \subseteq Nat /\ \A x, y \in low : x = y
    BY <2>2, DigitsAreOne
  <2> HIDE DEF high, low
  <2>5. \A codes \in high \X low \X code :
            codes[1] \in high /\ codes[2] \in low /\ codes[3] \in code
    OBVIOUS
  <2>6. \A codes \in high \X low \X code :
            <<16 * codes[1] + codes[2]>> \o codes[3] \in Seq(Nat)
    <3> TAKE codes \in high \X low \X code
    <3>1. codes[1] \in Nat /\ codes[2] \in Nat /\ codes[3] \in Seq(Nat)
      BY <2>3, <2>4, <2>5 DEF OneText
    <3>2. 16 * codes[1] + codes[2] \in Nat
      BY <3>1
    <3> QED
      BY <3>1, <3>2
  <2>7. \A codes, others \in high \X low \X code :
            <<16 * codes[1] + codes[2]>> \o codes[3] = <<16 * others[1] + others[2]>> \o others[3]
    <3> TAKE codes, others \in high \X low \X code
    <3>1. codes[1] = others[1] /\ codes[2] = others[2] /\ codes[3] = others[3]
      BY <2>3, <2>4, <2>5 DEF OneText
    <3> QED
      BY <3>1
  <2> QED
    BY <2>1, <2>6, <2>7 DEF OneText
<1> QED
  BY <1>1, <1>2, <1>3, <1>4

\* From every place on, at most one text is decoded.
LEMMA RestIsOne ==
    ASSUME NEW text \in Seq(Nat), NEW rest, Decodes(text, rest)
    PROVE  \A i \in 1 .. Len(text) + 1 : OneText(rest[i])
<1> DEFINE Holds == {i \in Nat : OneText(rest[i])}
<1>1. Len(text) + 1 \in Nat
  OBVIOUS
<1>2. ASSUME NEW i \in 1 .. Len(text) + 1, \A j \in i + 1 .. Len(text) + 1 : j \in Holds
      PROVE  i \in Holds
  <2>1. i <= Len(text) => OneText(rest[i + 1])
    BY <1>1, <1>2
  <2>2. i + 2 <= Len(text) => OneText(rest[i + 3])
    BY <1>1, <1>2
  <2>3. OneText(DecodedFrom(text, i, rest[i + 1], rest[i + 3]))
    BY <2>1, <2>2, RoundIsOne
  <2>4. OneText(rest[i])
    BY <2>3 DEF Decodes
  <2> QED
    BY <2>4
<1>3. Holds \in SUBSET Nat
  OBVIOUS
<1>4. \A i \in 1 .. Len(text) + 1 : i \in Holds
  <2>1. \A i \in 1 .. Len(text) + 1 :
            (\A j \in i + 1 .. Len(text) + 1 : j \in Holds) => i \in Holds
    BY <1>2
  <2> HIDE DEF Holds
  <2> QED
    BY <1>1, <1>3, <2>1, CountingBack
<1> QED
  BY <1>4

\* decodePercent returns at most one text, and nothing empty for what is not.
LEMMA DecodesToOne ==
    ASSUME NEW text \in Seq(Nat)
    PROVE  /\ OneText(Endpoint!DecodePercent(text))
           /\ text # <<>> => <<>> \notin Endpoint!DecodePercent(text)
<1>1. PICK rest : Decodes(text, rest) /\ Endpoint!DecodePercent(text) = rest[1]
  BY DecodeEquation DEF Decodes
<1>2. Len(text) \in Nat /\ 1 \in 1 .. Len(text) + 1
  OBVIOUS
<1>3. OneText(rest[1])
  BY <1>1, <1>2, RestIsOne
<1>4. ASSUME text # <<>>
      PROVE  <<>> \notin rest[1]
  <2>1. Len(text) > 0 /\ ~(1 > Len(text))
    BY <1>2, <1>4
  <2>2. rest[1] = DecodedFrom(text, 1, rest[2], rest[4])
    BY <1>1, <1>2 DEF Decodes
  <2>3. CASE text[1] # Percent
    <3>1. rest[1] = {<<text[1]>> \o decoded : decoded \in rest[2]}
      BY <2>1, <2>2, <2>3 DEF DecodedFrom
    <3>2. 2 \in 1 .. Len(text) + 1
      BY <1>2, <2>1
    <3>3. rest[2] \subseteq Seq(Nat)
      BY <1>1, <3>2, RestIsOne DEF OneText
    <3>4. \A decoded \in rest[2] : <<text[1]>> \o decoded # <<>>
      BY <3>3
    <3> QED
      BY <3>1, <3>4
  <2>4. CASE text[1] = Percent /\ Endpoint!Fits(text, 1)
    <3> DEFINE all == Endpoint!HexDigit(text[2]) \X Endpoint!HexDigit(text[3]) \X rest[4]
    <3>1. rest[1] = {<<16 * codes[1] + codes[2]>> \o codes[3] : codes \in all}
      BY <2>1, <2>2, <2>4 DEF DecodedFrom
    <3>2. 4 \in 1 .. Len(text) + 1
      BY <1>2, <2>4 DEF Endpoint!Fits
    <3>3. rest[4] \subseteq Seq(Nat)
      BY <1>1, <3>2, RestIsOne DEF OneText
    <3>4. \A codes \in all : codes[3] \in Seq(Nat)
      BY <3>3
    <3>5. \A codes \in all : <<16 * codes[1] + codes[2]>> \o codes[3] # <<>>
      <4> HIDE DEF all
      <4> QED
        BY <3>4
    <3> QED
      BY <3>1, <3>5
  <2>5. CASE text[1] = Percent /\ ~Endpoint!Fits(text, 1)
    BY <2>1, <2>2, <2>5 DEF DecodedFrom
  <2> QED
    BY <2>3, <2>4, <2>5
<1> QED
  BY <1>1, <1>3, <1>4

\* What has no percent sign is decoded to itself.
LEMMA PlainDecodes ==
    ASSUME NEW text \in Seq(Nat), Free(text, Percent)
    PROVE  Endpoint!DecodePercent(text) = {text}
<1>1. PICK rest : Decodes(text, rest) /\ Endpoint!DecodePercent(text) = rest[1]
  BY DecodeEquation DEF Decodes
<1> DEFINE size == Len(text)
           Holds == {i \in Nat : rest[i] = {SubSeq(text, i, size)}}
<1>2. size \in Nat /\ size + 1 \in Nat
  OBVIOUS
<1>3. ASSUME NEW i \in 1 .. size + 1, \A j \in i + 1 .. size + 1 : j \in Holds
      PROVE  i \in Holds
  <2>1. rest[i] = DecodedFrom(text, i, rest[i + 1], rest[i + 3])
    BY <1>1 DEF Decodes
  <2>2. CASE i = size + 1
    <3>1. rest[i] = {<<>>}
      BY <1>2, <2>1, <2>2 DEF DecodedFrom
    <3>2. SubSeq(text, i, size) = <<>>
      BY <1>2, <2>2, SubSeqEmpty
    <3>3. rest[i] = {SubSeq(text, i, size)} /\ i \in Nat
      BY <1>2, <2>2, <3>1, <3>2
    <3> QED
      BY <3>3
  <2>3. CASE i \in 1 .. size
    <3>1. text[i] # Percent /\ ~(i > size)
      BY <1>2, <2>3 DEF Free
    <3>2. rest[i] = {<<text[i]>> \o decoded : decoded \in rest[i + 1]}
      BY <2>1, <3>1 DEF DecodedFrom
    <3>3. rest[i + 1] = {SubSeq(text, i + 1, size)}
      <4>1. i + 1 \in i + 1 .. size + 1
        BY <1>2, <2>3
      <4>2. i + 1 \in Holds
        BY <1>3, <4>1
      <4> QED
        BY <4>2
    <3>4. SubSeq(text, i, size) = <<text[i]>> \o SubSeq(text, i + 1, size)
      BY <1>2, <2>3, SubSeqRecursiveFirst
    <3>5. i \in Nat
      BY <1>2, <2>3
    <3>6. rest[i] = {SubSeq(text, i, size)}
      BY <3>2, <3>3, <3>4
    <3> QED
      BY <3>5, <3>6
  <2> QED
    BY <1>2, <2>2, <2>3
<1>4. \A i \in 1 .. size + 1 : i \in Holds
  <2>1. Holds \in SUBSET Nat
        /\ \A i \in 1 .. size + 1 : (\A j \in i + 1 .. size + 1 : j \in Holds) => i \in Holds
    BY <1>3
  <2> HIDE DEF Holds, size
  <2> QED
    BY <1>2, <2>1, CountingBack
<1>5. rest[1] = {SubSeq(text, 1, size)}
  <2>1. 1 \in 1 .. size + 1
    BY <1>2
  <2>2. 1 \in Holds
    BY <1>4, <2>1
  <2> QED
    BY <2>2
<1> QED
  BY <1>1, <1>5, SubSeqFull

-----------------------------------------------------------------------------
(* Encoded credentials. *)

\* FlattenSeq puts sequences one after the other.
LEMMA Flattening ==
    ASSUME NEW seqs \in Seq(Seq(Nat))
    PROVE  \E front : /\ front[0] = <<>>
                      /\ \A i \in 1 .. Len(seqs) : front[i] = front[i - 1] \o seqs[i]
                      /\ Endpoint!FlattenSeq(seqs) = front[Len(seqs)]
<1> DEFINE size == Len(seqs)
           After(i, text) == text \o seqs[i]
           Right(front, n) == /\ front[0] = <<>>
                              /\ \A i \in 1 .. n : front[i] = After(i, front[i - 1])
           Reached == {n \in Nat : \E front : Right(front, n)}
<1>1. size \in Nat
  OBVIOUS
<1>2. ASSUME size # 0
      PROVE  /\ After(1, <<>>) = seqs[1]
             /\ Endpoint!FlattenSeq(seqs)
                    = (CHOOSE f : f = [i \in 1 .. size |->
                                           IF i = 1 THEN seqs[i] ELSE After(i, f[i - 1])])[size]
  <2>1. seqs[1] \in Seq(Nat)
    BY <1>1, <1>2, ElementOfSeq
  <2>2. After(1, <<>>) = seqs[1]
    BY <2>1, ConcatEmptySeq
  <2> QED
    BY <1>2, <2>2 DEF Endpoint!FlattenSeq
<1>3. ASSUME size = 0
      PROVE  Endpoint!FlattenSeq(seqs) = <<>>
  BY <1>3 DEF Endpoint!FlattenSeq
<1> HIDE DEF After, size
<1>4. 0 \in Reached
  <2>1. Right([i \in 0 .. 0 |-> <<>>], 0)
    OBVIOUS
  <2> HIDE DEF Right
  <2> QED
    BY <2>1
<1>5. ASSUME NEW n \in 0 .. size - 1, n \in Reached
      PROVE  n + 1 \in Reached
  <2>1. PICK front : Right(front, n)
    BY <1>5
  <2> DEFINE longer == [i \in 0 .. n + 1 |-> IF i = n + 1 THEN After(n + 1, front[n])
                                             ELSE front[i]]
  <2>2. longer[0] = <<>>
    BY <2>1
  <2>3. ASSUME NEW i \in 1 .. n + 1
        PROVE  longer[i] = After(i, longer[i - 1])
    <3>1. longer[i - 1] = front[i - 1] /\ i - 1 \in 0 .. n
      OBVIOUS
    <3>2. CASE i = n + 1
      BY <3>1, <3>2
    <3>3. CASE i \in 1 .. n
      BY <2>1, <3>1, <3>3
    <3> QED
      BY <3>2, <3>3
  <2> HIDE DEF longer
  <2>4. Right(longer, n + 1)
    BY <2>2, <2>3
  <2> HIDE DEF Right
  <2> QED
    BY <2>4
<1>6. size \in Reached
  <2>1. Reached \in SUBSET Nat
    OBVIOUS
  <2>2. \A n \in 0 .. size - 1 : n \in Reached => n + 1 \in Reached
    BY <1>5
  <2> HIDE DEF Reached
  <2>3. \A n \in 0 .. size : n \in Reached
    BY <1>1, <1>4, <2>1, <2>2, CountingUp
  <2> QED
    BY <1>1, <2>3
<1>7. PICK front : Right(front, size)
  BY <1>6
<1>8. CASE size = 0
  BY <1>3, <1>7, <1>8 DEF After, size
<1>9. CASE size # 0
  <2> DEFINE Equation(f) == f = [i \in 1 .. size |-> IF i = 1 THEN seqs[i] ELSE After(i, f[i - 1])]
             known == [i \in 1 .. size |-> front[i]]
             chosen == CHOOSE f : Equation(f)
  <2>1. After(1, <<>>) = seqs[1] /\ Endpoint!FlattenSeq(seqs) = chosen[size]
    BY <1>2, <1>9
  <2>2. Equation(known)
    <3>1. ASSUME NEW i \in 1 .. size
          PROVE  known[i] = IF i = 1 THEN seqs[i] ELSE After(i, known[i - 1])
      <4>1. CASE i = 1
        <5>1. front[1] = After(1, front[0]) /\ front[0] = <<>>
          BY <1>1, <1>7, <4>1
        <5> QED
          BY <2>1, <4>1, <5>1
      <4>2. CASE i \in 2 .. size
        <5>1. known[i - 1] = front[i - 1] /\ front[i] = After(i, front[i - 1])
          BY <1>1, <1>7, <4>2
        <5> QED
          BY <4>2, <5>1
      <4> QED
        BY <1>1, <4>1, <4>2
    <3> QED
      BY <3>1
  <2>3. Equation(chosen)
    <3> HIDE DEF Equation, known
    <3> QED
      BY <2>2
  <2> HIDE DEF chosen
  <2>4. chosen[1] = seqs[1] /\ \A i \in 2 .. size : chosen[i] = After(i, chosen[i - 1])
    BY <1>1, <1>9, <2>3
  <2> DEFINE whole == [i \in 0 .. size |-> IF i = 0 THEN <<>> ELSE chosen[i]]
  <2>5. whole[0] = <<>> /\ whole[size] = chosen[size]
    BY <1>1, <1>9
  <2>6. ASSUME NEW i \in 1 .. size
        PROVE  whole[i] = After(i, whole[i - 1])
    <3>1. CASE i = 1
      BY <1>1, <2>1, <2>4, <3>1
    <3>2. CASE i \in 2 .. size
      BY <1>1, <2>4, <3>2
    <3> QED
      BY <1>1, <3>1, <3>2
  <2> HIDE DEF whole
  <2> QED
    BY <2>1, <2>5, <2>6 DEF After, size
<1> QED
  BY <1>8, <1>9

\* The parts of an encoded text that stand for its first characters.
Encodes(text, front) ==
    /\ \A i \in 0 .. Len(text) : front[i] \in Seq(Nat)
    /\ front[0] = <<>>
    /\ \A i \in 1 .. Len(text) : front[i] = front[i - 1] \o Endpoint!Code(text[i])
    /\ Endpoint!Encoded(text) = front[Len(text)]

\* A character is written as a percent sign and two digits, which are no separators.
CodedBy(character, high, low, second, third) ==
    /\ Endpoint!Code(character) = <<Percent, second, third>>
    /\ Endpoint!HexDigit(second) = {high} /\ Endpoint!HexDigit(third) = {low}
    /\ 16 * high + low = character
    /\ second \notin {Slash, Colon, Question, At} /\ third \notin {Slash, Colon, Question, At}

\* A special character is written as its two hexadecimal digits.
LEMMA SpecialCoded ==
    ASSUME NEW character \in Endpoint!Special
    PROVE  \E high, low, second, third \in Nat : CodedBy(character, high, low, second, third)
<1> USE DEF Endpoint!Special, Endpoint!Percent, Endpoint!Slash, Endpoint!Colon, Endpoint!Question,
            Endpoint!At, Percent, Slash, Colon, Question, At
<1>1. CASE character = 37
  <2>1. Endpoint!Code(character) = <<37, 50, 53>>
    BY <1>1 DEF Endpoint!Code, Endpoint!HexCode
  <2>2. Endpoint!HexDigit(50) = {2} /\ Endpoint!HexDigit(53) = {5}
    BY DEF Endpoint!HexDigit
  <2>3. CodedBy(character, 2, 5, 50, 53)
    BY <1>1, <2>1, <2>2 DEF CodedBy
  <2> QED
    BY <2>3
<1>2. CASE character = 47
  <2>1. Endpoint!Code(character) = <<37, 50, 70>>
    BY <1>2 DEF Endpoint!Code, Endpoint!HexCode
  <2>2. Endpoint!HexDigit(50) = {2} /\ Endpoint!HexDigit(70) = {15}
    BY DEF Endpoint!HexDigit
  <2>3. CodedBy(character, 2, 15, 50, 70)
    BY <1>2, <2>1, <2>2 DEF CodedBy
  <2> QED
    BY <2>3
<1>3. CASE character = 58
  <2>1. Endpoint!Code(character) = <<37, 51, 65>>
    BY <1>3 DEF Endpoint!Code, Endpoint!HexCode
  <2>2. Endpoint!HexDigit(51) = {3} /\ Endpoint!HexDigit(65) = {10}
    BY DEF Endpoint!HexDigit
  <2>3. CodedBy(character, 3, 10, 51, 65)
    BY <1>3, <2>1, <2>2 DEF CodedBy
  <2> QED
    BY <2>3
<1>4. CASE character = 63
  <2>1. Endpoint!Code(character) = <<37, 51, 70>>
    BY <1>4 DEF Endpoint!Code, Endpoint!HexCode
  <2>2. Endpoint!HexDigit(51) = {3} /\ Endpoint!HexDigit(70) = {15}
    BY DEF Endpoint!HexDigit
  <2>3. CodedBy(character, 3, 15, 51, 70)
    BY <1>4, <2>1, <2>2 DEF CodedBy
  <2> QED
    BY <2>3
<1>5. CASE character = 64
  <2>1. Endpoint!Code(character) = <<37, 52, 48>>
    BY <1>5 DEF Endpoint!Code, Endpoint!HexCode
  <2>2. Endpoint!HexDigit(52) = {4} /\ Endpoint!HexDigit(48) = {0}
    BY DEF Endpoint!HexDigit
  <2>3. CodedBy(character, 4, 0, 52, 48)
    BY <1>5, <2>1, <2>2 DEF CodedBy
  <2> QED
    BY <2>3
<1> QED
  BY <1>1, <1>2, <1>3, <1>4, <1>5

\* One character: a code of three, or itself, and free of separators.
LEMMA CodeIs ==
    ASSUME NEW character \in Nat
    PROVE  /\ Endpoint!Code(character) \in Seq(Nat)
           /\ Len(Endpoint!Code(character)) \in {1, 3}
           /\ \A separator \in {Slash, Colon, Question, At} :
                  Free(Endpoint!Code(character), separator)
           /\ character \notin Endpoint!Special =>
                  character # Percent /\ Endpoint!Code(character) = <<character>>
<1>1. CASE character \notin Endpoint!Special
  BY <1>1 DEF Endpoint!Code, Free, Endpoint!Special, Endpoint!Percent, Endpoint!Slash,
              Endpoint!Colon, Endpoint!Question, Endpoint!At, Percent, Slash, Colon, Question, At
<1>2. CASE character \in Endpoint!Special
  <2>1. PICK high, low, second, third \in Nat : CodedBy(character, high, low, second, third)
    BY <1>2, SpecialCoded
  <2>2. /\ Endpoint!Code(character) \in Seq(Nat) /\ Len(Endpoint!Code(character)) = 3
        /\ Endpoint!Code(character)[1] = Percent /\ Endpoint!Code(character)[2] = second
        /\ Endpoint!Code(character)[3] = third
    BY <2>1 DEF CodedBy, Percent
  <2>3. \A separator \in {Slash, Colon, Question, At} : Free(Endpoint!Code(character), separator)
    BY <2>1, <2>2 DEF Free, CodedBy, Percent, Slash, Colon, Question, At
  <2> QED
    BY <1>2, <2>2, <2>3
<1> QED
  BY <1>1, <1>2

\* The parts of an encoded text.
LEMMA EncodedInParts ==
    ASSUME NEW text \in Seq(Nat)
    PROVE  \E front : Encodes(text, front)
<1> DEFINE codes == [i \in DOMAIN text |-> Endpoint!Code(text[i])]
<1>1. Len(text) \in Nat /\ DOMAIN text = 1 .. Len(text)
  OBVIOUS
<1>2. \A i \in 1 .. Len(text) : Endpoint!Code(text[i]) \in Seq(Nat)
  <2> TAKE i \in 1 .. Len(text)
  <2>1. text[i] \in Nat
    BY ElementOfSeq
  <2> QED
    BY <2>1, CodeIs
<1>3. /\ codes \in Seq(Seq(Nat)) /\ Len(codes) = Len(text)
      /\ \A i \in 1 .. Len(text) : codes[i] = Endpoint!Code(text[i])
  BY <1>1, <1>2
<1>4. Endpoint!Encoded(text) = Endpoint!FlattenSeq(codes)
  BY DEF Endpoint!Encoded
<1> HIDE DEF codes
<1>5. PICK front : /\ front[0] = <<>>
                   /\ \A i \in 1 .. Len(codes) : front[i] = front[i - 1] \o codes[i]
                   /\ Endpoint!FlattenSeq(codes) = front[Len(codes)]
  BY <1>3, Flattening
<1> DEFINE Typed == {n \in Nat : front[n] \in Seq(Nat)}
<1>6. 0 \in Typed
  <2>1. front[0] \in Seq(Nat)
    BY <1>5, EmptySeq
  <2> QED
    BY <2>1
<1>7. ASSUME NEW n \in 0 .. Len(text) - 1, n \in Typed
      PROVE  n + 1 \in Typed
  <2>1. n + 1 \in 1 .. Len(text) /\ (n + 1) - 1 = n
    BY <1>1
  <2>2. front[n + 1] = front[n] \o Endpoint!Code(text[n + 1])
    BY <1>3, <1>5, <2>1
  <2>3. front[n] \in Seq(Nat) /\ Endpoint!Code(text[n + 1]) \in Seq(Nat)
    BY <1>2, <1>7, <2>1
  <2>4. front[n + 1] \in Seq(Nat)
    BY <2>2, <2>3
  <2> QED
    BY <2>1, <2>4
<1>8. \A n \in 0 .. Len(text) : n \in Typed
  <2>1. Typed \in SUBSET Nat /\ \A n \in 0 .. Len(text) - 1 : n \in Typed => n + 1 \in Typed
    BY <1>7
  <2> HIDE DEF Typed
  <2> QED
    BY <1>1, <1>6, <2>1, CountingUp
<1>9. Encodes(text, front)
  BY <1>3, <1>4, <1>5, <1>8 DEF Encodes
<1> QED
  BY <1>9

\* What stands in one part stands in all that follow.
LEMMA PartsGrow ==
    ASSUME NEW text \in Seq(Nat), NEW front, Encodes(text, front),
           NEW n \in 0 .. Len(text), NEW k \in 0 .. n
    PROVE  /\ Len(front[k]) <= Len(front[n])
           /\ \A i \in 1 .. Len(front[k]) : front[n][i] = front[k][i]
<1> DEFINE Grown(one, other) == /\ Len(one) <= Len(other)
                                /\ \A i \in 1 .. Len(one) : other[i] = one[i]
           Holds == {m \in Nat : k + m <= Len(text) => Grown(front[k], front[k + m])}
<1>1. Len(text) \in Nat
  OBVIOUS
<1>2. 0 \in Holds
  <2>1. Grown(front[k], front[k + 0])
    BY DEF Encodes
  <2> HIDE DEF Grown
  <2> QED
    BY <2>1
<1>3. ASSUME NEW m \in 0 .. Len(text) - 1, m \in Holds
      PROVE  m + 1 \in Holds
  <2> SUFFICES ASSUME k + (m + 1) <= Len(text)
               PROVE  Grown(front[k], front[k + (m + 1)])
    BY <1>1
  <2>1. k + (m + 1) \in 1 .. Len(text) /\ (k + (m + 1)) - 1 = k + m /\ k + m \in 0 .. Len(text)
    BY <1>1
  <2> DEFINE before == front[k + m]
             code == Endpoint!Code(text[k + (m + 1)])
  <2>2. front[k + (m + 1)] = before \o code
    BY <2>1 DEF Encodes
  <2>3. text[k + (m + 1)] \in Nat
    BY <2>1, ElementOfSeq
  <2>4. before \in Seq(Nat) /\ code \in Seq(Nat)
    BY <2>1, <2>3, CodeIs DEF Encodes
  <2>5. Grown(front[k], before)
    <3>1. k + m <= Len(text)
      BY <1>1, <2>1
    <3> HIDE DEF Grown
    <3> QED
      BY <1>3, <3>1
  <2>6. front[k] \in Seq(Nat)
    BY <1>1 DEF Encodes
  <2> HIDE DEF before, code
  <2>7. Len(before \o code) = Len(before) + Len(code)
        /\ \A i \in 1 .. Len(before) : (before \o code)[i] = before[i]
    BY <2>4
  <2>8. Len(front[k]) \in Nat /\ Len(before) \in Nat /\ Len(code) \in Nat
    BY <2>4, <2>6
  <2>9. Len(front[k]) <= Len(before \o code)
    BY <2>5, <2>7, <2>8
  <2>10. \A i \in 1 .. Len(front[k]) : (before \o code)[i] = front[k][i]
    BY <2>5, <2>7, <2>8
  <2> QED
    BY <2>2, <2>9, <2>10
<1>4. \A m \in 0 .. Len(text) : m \in Holds
  <2>1. Holds \in SUBSET Nat /\ \A m \in 0 .. Len(text) - 1 : m \in Holds => m + 1 \in Holds
    BY <1>3
  <2> HIDE DEF Holds
  <2> QED
    BY <1>1, <1>2, <2>1, CountingUp
<1>5. n - k \in 0 .. Len(text) /\ k + (n - k) = n /\ n <= Len(text)
  BY <1>1
<1>6. n - k \in Holds
  BY <1>4, <1>5
<1>7. Grown(front[k], front[n])
  <2> HIDE DEF Grown
  <2> QED
    BY <1>5, <1>6
<1> QED
  BY <1>7

\* An encoded text has no separators in it, and is empty only if the text is.
LEMMA EncodedIsFree ==
    ASSUME NEW text \in Seq(Nat)
    PROVE  /\ Endpoint!Encoded(text) \in Seq(Nat)
           /\ Endpoint!Encoded(text) = <<>> <=> text = <<>>
           /\ \A separator \in {Slash, Colon, Question, At} :
                  Free(Endpoint!Encoded(text), separator)
<1>1. PICK front : Encodes(text, front)
  BY EncodedInParts
<1>2. Len(text) \in Nat
  OBVIOUS
<1>3. Endpoint!Encoded(text) = front[Len(text)] /\ front[Len(text)] \in Seq(Nat)
  BY <1>1, <1>2 DEF Encodes
<1>4. ASSUME text # <<>>
      PROVE  Endpoint!Encoded(text) # <<>>
  <2>1. 1 \in 1 .. Len(text) /\ 1 - 1 = 0
    BY <1>2, <1>4
  <2>2. front[1] = <<>> \o Endpoint!Code(text[1])
    BY <1>1, <2>1 DEF Encodes
  <2>3. text[1] \in Nat
    BY <2>1, ElementOfSeq
  <2>4. Endpoint!Code(text[1]) \in Seq(Nat) /\ Len(Endpoint!Code(text[1])) \in {1, 3}
    BY <2>3, CodeIs
  <2>5. Len(front[1]) \in {1, 3}
    BY <2>2, <2>4
  <2>6. Len(front[1]) <= Len(front[Len(text)])
    <3>1. Len(text) \in 0 .. Len(text) /\ 1 \in 0 .. Len(text)
      BY <1>2, <2>1
    <3> QED
      BY <1>1, <3>1, PartsGrow
  <2>7. Len(front[Len(text)]) # 0
    <3>1. Len(front[1]) \in Nat /\ Len(front[1]) # 0
      <4> DEFINE length == Len(front[1])
      <4>1. length = 1 \/ length = 3
        BY <2>5
      <4> HIDE DEF length
      <4>2. length \in Nat /\ length # 0
        BY <4>1
      <4> QED
        BY <4>2 DEF length
    <3>2. Len(front[Len(text)]) \in Nat
      BY <1>3, LenProperties
    <3> QED
      BY <2>6, <3>1, <3>2
  <2> QED
    BY <1>3, <2>7
<1>5. ASSUME text = <<>>
      PROVE  Endpoint!Encoded(text) = <<>>
  BY <1>1, <1>5 DEF Encodes
<1>6. ASSUME NEW separator \in {Slash, Colon, Question, At}
      PROVE  Free(Endpoint!Encoded(text), separator)
  <2> DEFINE Holds == {n \in Nat : Free(front[n], separator)}
  <2>1. 0 \in Holds
    BY <1>1 DEF Encodes, Free
  <2>2. ASSUME NEW n \in 0 .. Len(text) - 1, n \in Holds
        PROVE  n + 1 \in Holds
    <3>1. n + 1 \in 1 .. Len(text) /\ (n + 1) - 1 = n /\ n \in 0 .. Len(text)
      BY <1>2
    <3> DEFINE before == front[n]
               code == Endpoint!Code(text[n + 1])
    <3>2. front[n + 1] = before \o code /\ before \in Seq(Nat)
      BY <1>1, <3>1 DEF Encodes
    <3>3. text[n + 1] \in Nat
      BY <3>1, ElementOfSeq
    <3>4. code \in Seq(Nat) /\ Free(code, separator)
      BY <3>3, CodeIs
    <3>5. Free(before, separator)
      BY <2>2
    <3> HIDE DEF before, code
    <3>6. /\ Len(before \o code) = Len(before) + Len(code)
          /\ \A i \in 1 .. Len(before) + Len(code) :
                 (before \o code)[i] = IF i <= Len(before) THEN before[i] ELSE code[i - Len(before)]
      BY <3>2, <3>4, ConcatProperties
    <3>7. Len(before) \in Nat /\ Len(code) \in Nat
      BY <3>2, <3>4
    <3>8. ASSUME NEW i \in 1 .. Len(before \o code)
          PROVE  (before \o code)[i] # separator
      <4>1. CASE i \in 1 .. Len(before)
        BY <3>5, <3>6, <3>7, <4>1 DEF Free
      <4>2. CASE ~(i <= Len(before))
        <5>1. i - Len(before) \in 1 .. Len(code) /\ i \in 1 .. Len(before) + Len(code)
          BY <3>6, <3>7, <4>2
        <5> QED
          BY <3>4, <3>6, <4>2, <5>1 DEF Free
      <4> QED
        BY <3>7, <4>1, <4>2
    <3>9. Free(front[n + 1], separator)
      BY <3>2, <3>8 DEF Free
    <3> QED
      BY <3>1, <3>9
  <2>3. \A n \in 0 .. Len(text) : n \in Holds
    <3>1. Holds \in SUBSET Nat /\ \A n \in 0 .. Len(text) - 1 : n \in Holds => n + 1 \in Holds
      BY <2>2
    <3> HIDE DEF Holds
    <3> QED
      BY <1>2, <2>1, <3>1, CountingUp
  <2>4. Len(text) \in Holds
    BY <1>2, <2>3
  <2> QED
    BY <1>3, <2>4
<1> QED
  BY <1>3, <1>4, <1>5, <1>6

\* Where the code of a character stands.
LEMMA CodeStands ==
    ASSUME NEW text \in Seq(Nat), NEW front, Encodes(text, front), NEW k \in 1 .. Len(text)
    PROVE  /\ Len(front[k - 1]) \in Nat
           /\ Len(front[k]) = Len(front[k - 1]) + Len(Endpoint!Code(text[k]))
           /\ Len(front[k]) <= Len(Endpoint!Encoded(text))
           /\ StandsIn(Endpoint!Encoded(text), Len(front[k - 1]), Endpoint!Code(text[k]))
<1> DEFINE before == front[k - 1]
           code == Endpoint!Code(text[k])
           whole == Endpoint!Encoded(text)
<1>1. Len(text) \in Nat /\ k - 1 \in 0 .. Len(text) /\ k \in 0 .. Len(text)
      /\ Len(text) \in 0 .. Len(text)
  OBVIOUS
<1>2. before \in Seq(Nat) /\ front[k] = before \o code /\ whole = front[Len(text)]
  BY <1>1 DEF Encodes
<1>3. text[k] \in Nat
  BY ElementOfSeq
<1>4. code \in Seq(Nat)
  BY <1>3, CodeIs
<1>5. Len(front[k]) <= Len(whole) /\ \A i \in 1 .. Len(front[k]) : whole[i] = front[k][i]
  <2>1. /\ Len(front[k]) <= Len(front[Len(text)])
        /\ \A i \in 1 .. Len(front[k]) : front[Len(text)][i] = front[k][i]
    BY <1>1, PartsGrow
  <2> QED
    BY <1>2, <2>1
<1> HIDE DEF before, code, whole
<1>6. /\ Len(before \o code) = Len(before) + Len(code)
      /\ \A i \in 1 .. Len(before) + Len(code) :
             (before \o code)[i] = IF i <= Len(before) THEN before[i] ELSE code[i - Len(before)]
  BY <1>2, <1>4, ConcatProperties
<1>7. Len(before) \in Nat /\ Len(code) \in Nat
  BY <1>2, <1>4
<1>8. ASSUME NEW m \in 1 .. Len(code)
      PROVE  whole[Len(before) + m] = code[m]
  <2>1. /\ Len(before) + m \in 1 .. Len(before) + Len(code)
        /\ ~(Len(before) + m <= Len(before)) /\ (Len(before) + m) - Len(before) = m
    BY <1>7
  <2> QED
    BY <1>2, <1>5, <1>6, <2>1
<1> QED
  BY <1>2, <1>5, <1>6, <1>7, <1>8 DEF before, code, whole, StandsIn

\* A credential that is encoded and decoded comes back.
LEMMA EncodedDecodes ==
    ASSUME NEW text \in Seq(Nat)
    PROVE  Endpoint!DecodePercent(Endpoint!Encoded(text)) = {text}
<1> DEFINE whole == Endpoint!Encoded(text)
           size == Len(text)
<1>1. whole \in Seq(Nat) /\ Len(whole) \in Nat /\ size \in Nat
  BY EncodedIsFree
<1>2. PICK front : Encodes(text, front)
  BY EncodedInParts
<1>3. PICK rest : Decodes(whole, rest) /\ Endpoint!DecodePercent(whole) = rest[1]
  BY <1>1, DecodeEquation DEF Decodes
<1> DEFINE from(k) == Len(front[k - 1])
           code(k) == Endpoint!Code(text[k])
           Right(k) == rest[from(k) + 1] = {SubSeq(text, k, size)}
<1>4. \A k \in 1 .. size :
          /\ from(k) \in Nat /\ from(k + 1) = from(k) + Len(code(k)) /\ from(k + 1) <= Len(whole)
          /\ StandsIn(whole, from(k), code(k))
  <2> TAKE k \in 1 .. size
  <2>1. /\ Len(front[k - 1]) \in Nat
        /\ Len(front[k]) = Len(front[k - 1]) + Len(code(k)) /\ Len(front[k]) <= Len(whole)
        /\ StandsIn(whole, Len(front[k - 1]), code(k))
    BY <1>2, CodeStands
  <2>2. from(k + 1) = Len(front[k])
    OBVIOUS
  <2> QED
    BY <2>1, <2>2
<1>5. from(size + 1) = Len(whole) /\ from(1) = 0
  BY <1>1, <1>2 DEF Encodes
<1> HIDE DEF from, whole
<1>6. Right(size + 1)
  <2>1. rest[Len(whole) + 1] = {<<>>}
    <3>1. Len(whole) + 1 \in 1 .. Len(whole) + 1 /\ Len(whole) + 1 > Len(whole)
      BY <1>1
    <3> QED
      BY <1>3, <3>1 DEF Decodes, DecodedFrom
  <2>2. SubSeq(text, size + 1, size) = <<>>
    BY <1>1, SubSeqEmpty
  <2> QED
    BY <1>5, <2>1, <2>2
<1>7. ASSUME NEW k \in 1 .. size, Right(k + 1)
      PROVE  Right(k)
  <2> DEFINE place == from(k) + 1
  <2>1. text[k] \in Nat
    BY ElementOfSeq
  <2>2. /\ code(k) \in Seq(Nat) /\ Len(code(k)) \in {1, 3}
        /\ text[k] \notin Endpoint!Special => text[k] # Percent /\ code(k) = <<text[k]>>
    BY <2>1, CodeIs
  <2>3. /\ from(k) \in Nat /\ from(k + 1) = from(k) + Len(code(k)) /\ from(k + 1) <= Len(whole)
        /\ StandsIn(whole, from(k), code(k))
    BY <1>4
  <2>4. SubSeq(text, k, size) = <<text[k]>> \o SubSeq(text, k + 1, size)
    BY <1>1, SubSeqRecursiveFirst
  <2>5. place \in 1 .. Len(whole) + 1 /\ ~(place > Len(whole))
    <3>1. Len(code(k)) = 1 \/ Len(code(k)) = 3
      BY <2>2
    <3>2. from(k) \in Nat /\ from(k + 1) = from(k) + Len(code(k)) /\ from(k + 1) <= Len(whole)
      BY <2>3
    <3>3. Len(whole) \in Nat
      BY <1>1
    <3> DEFINE here == from(k)
               next == from(k + 1)
               length == Len(code(k))
               end == Len(whole)
    <3>4. here + 1 <= end
      <4>1. here \in Nat /\ next = here + length /\ next <= end /\ (length = 1 \/ length = 3)
        BY <3>1, <3>2
      <4>2. end \in Nat
        BY <3>3
      <4> HIDE DEF here, next, length, end
      <4> QED
        BY <4>1, <4>2
    <3> QED
      BY <3>2, <3>3, <3>4
  <2>6. rest[place] = DecodedFrom(whole, place, rest[place + 1], rest[place + 3])
    BY <1>3, <2>5 DEF Decodes
  <2>7. rest[from(k + 1) + 1] = {SubSeq(text, k + 1, size)}
    BY <1>7
  <2>8. CASE text[k] \notin Endpoint!Special
    <3>1. Len(code(k)) = 1 /\ code(k)[1] = text[k] /\ text[k] # Percent
      BY <2>2, <2>8
    <3>2. whole[place] = text[k] /\ from(k + 1) + 1 = place + 1
      BY <2>3, <3>1 DEF StandsIn
    <3>3. rest[place] = {<<text[k]>> \o decoded : decoded \in rest[place + 1]}
      BY <2>5, <2>6, <3>1, <3>2 DEF DecodedFrom
    <3>4. rest[place + 1] = {SubSeq(text, k + 1, size)}
      BY <2>7, <3>2
    <3> QED
      BY <2>4, <3>3, <3>4
  <2>9. CASE text[k] \in Endpoint!Special
    <3>1. PICK high, low, second, third \in Nat : CodedBy(text[k], high, low, second, third)
      BY <2>9, SpecialCoded
    <3>2. /\ Len(code(k)) = 3 /\ code(k)[1] = Percent /\ code(k)[2] = second
          /\ code(k)[3] = third
      BY <3>1 DEF CodedBy
    <3>3. /\ whole[place] = Percent /\ whole[place + 1] = second /\ whole[place + 2] = third
          /\ from(k + 1) + 1 = place + 3
      <4>1. place = from(k) + 1 /\ place + 1 = from(k) + 2 /\ place + 2 = from(k) + 3
        BY <2>3
      <4>2. /\ whole[from(k) + 1] = code(k)[1] /\ whole[from(k) + 2] = code(k)[2]
            /\ whole[from(k) + 3] = code(k)[3]
        <5>1. \A m \in 1 .. 3 : whole[from(k) + m] = code(k)[m]
          BY <2>3, <3>2 DEF StandsIn
        <5>2. 1 \in 1 .. 3 /\ 2 \in 1 .. 3 /\ 3 \in 1 .. 3
          OBVIOUS
        <5> HIDE DEF from, code, whole
        <5> QED
          BY <5>1, <5>2
      <4>3. from(k + 1) + 1 = place + 3
        BY <2>3, <3>2
      <4> HIDE DEF place
      <4> QED
        BY <3>2, <4>1, <4>2, <4>3
    <3>4. Endpoint!Fits(whole, place)
      BY <1>1, <2>3, <3>2 DEF Endpoint!Fits
    <3>5. rest[place]
              = {<<16 * codes[1] + codes[2]>> \o codes[3] :
                     codes \in {high} \X {low} \X rest[place + 3]}
      BY <2>5, <2>6, <3>1, <3>3, <3>4 DEF DecodedFrom, CodedBy
    <3>6. rest[place + 3] = {SubSeq(text, k + 1, size)}
      BY <2>7, <3>3
    <3>7. 16 * high + low = text[k]
      BY <3>1 DEF CodedBy
    <3> DEFINE tail == SubSeq(text, k + 1, size)
           all == {high} \X {low} \X {tail}
    <3>8. \A codes \in all : codes[1] = high /\ codes[2] = low /\ codes[3] = tail
      <4> HIDE DEF tail
      <4> QED
        OBVIOUS
    <3>9. <<high, low, tail>> \in all
      OBVIOUS
    <3>10. rest[place] = {<<16 * codes[1] + codes[2]>> \o codes[3] : codes \in all}
      BY <3>5, <3>6
    <3> HIDE DEF all, tail
    <3>11. \A codes \in all :
              <<16 * codes[1] + codes[2]>> \o codes[3] = <<16 * high + low>> \o tail
      BY <3>8
    <3>12. rest[place] = {<<16 * high + low>> \o tail}
      BY <3>9, <3>10, <3>11
    <3> QED
      BY <2>4, <3>7, <3>12 DEF tail
  <2> QED
    BY <2>8, <2>9
<1>8. \A k \in 1 .. size + 1 : Right(k)
  <2> DEFINE Holds == {k \in Nat : Right(k)}
  <2>1. ASSUME NEW k \in 1 .. size + 1, \A j \in k + 1 .. size + 1 : j \in Holds
        PROVE  k \in Holds
    <3>1. CASE k = size + 1
      BY <1>1, <1>6, <3>1
    <3>2. CASE k \in 1 .. size
      <4>1. k + 1 \in k + 1 .. size + 1 /\ k \in Nat
        BY <1>1, <3>2
      <4>2. Right(k + 1)
        BY <2>1, <4>1
      <4>3. Right(k)
        BY <1>7, <3>2, <4>2
      <4> HIDE DEF Right
      <4> QED
        BY <4>1, <4>3
    <3> QED
      BY <1>1, <3>1, <3>2
  <2>2. Holds \in SUBSET Nat
        /\ \A k \in 1 .. size + 1 : (\A j \in k + 1 .. size + 1 : j \in Holds) => k \in Holds
    BY <2>1
  <2>3. size + 1 \in Nat
    BY <1>1
  <2> HIDE DEF Holds, size
  <2>4. \A k \in 1 .. size + 1 : k \in Holds
    BY <2>2, <2>3, CountingBack
  <2> QED
    BY <2>4 DEF Holds
<1>9. rest[1] = {SubSeq(text, 1, size)}
  <2>1. 1 \in 1 .. size + 1 /\ from(1) + 1 = 1
    BY <1>1, <1>5
  <2> QED
    BY <1>8, <2>1
<1> QED
  BY <1>3, <1>9, SubSeqFull DEF whole

-----------------------------------------------------------------------------
(* parseEndpoint. *)

\* What the parts of an endpoint are.
LEMMA PartsAreTexts ==
    ASSUME NEW parts, IsEndpoint(parts)
    PROVE  /\ parts.user \in Seq(Nat) /\ parts.password \in Seq(Nat) /\ parts.host \in Seq(Nat)
           /\ parts.port \in Seq(Nat) /\ parts.resource \in Seq(Nat) /\ parts.query \in Seq(Nat)
           /\ \A separator \in {Slash, Question, At} :
                  Free(parts.host, separator) /\ Free(parts.port, separator)
           /\ Free(parts.port, Colon)
           /\ Free(parts.resource, Question)
<1>1. /\ parts.user \in Seq(Nat) /\ parts.password \in Seq(Nat) /\ parts.host \in Seq(Nat)
      /\ parts.port \in Seq(Nat) /\ parts.resource \in Seq(Nat) /\ parts.query \in Seq(Nat)
  BY DEF IsEndpoint
<1>2. /\ \A i \in DOMAIN parts.host : parts.host[i] \notin {Slash, Question, At}
      /\ \A i \in DOMAIN parts.port : parts.port[i] \notin {Colon, Slash, Question, At}
      /\ \A i \in DOMAIN parts.resource : parts.resource[i] # Question
  BY DEF IsEndpoint
<1>3. /\ DOMAIN parts.host = 1 .. Len(parts.host) /\ DOMAIN parts.port = 1 .. Len(parts.port)
      /\ DOMAIN parts.resource = 1 .. Len(parts.resource)
  BY <1>1
<1> QED
  BY <1>1, <1>2, <1>3 DEF Free

\* Two texts, one after the other.
LEMMA ConcatApart ==
    ASSUME NEW s \in Seq(Nat), NEW t \in Seq(Nat)
    PROVE  /\ SubSeq(s \o t, 1, Len(s)) = s
           /\ Endpoint!After(s \o t, Len(s)) = t
<1> DEFINE whole == s \o t
<1>1. /\ whole \in Seq(Nat) /\ Len(whole) = Len(s) + Len(t)
      /\ \A i \in 1 .. Len(s) + Len(t) : whole[i] = IF i <= Len(s) THEN s[i] ELSE t[i - Len(s)]
  BY ConcatProperties
<1>2. Len(s) \in Nat /\ Len(t) \in Nat
  OBVIOUS
<1> HIDE DEF whole
<1>3. \A i \in 1 .. Len(whole) : whole[i] \in Nat
  BY <1>1, ElementOfSeq
<1>4. SubSeq(whole, 1, Len(s)) = s
  <2> DEFINE part == SubSeq(whole, 1, Len(s))
  <2>1. \A i \in 1 .. Len(s) : whole[i] \in Nat
    BY <1>1, <1>2, <1>3
  <2>2. /\ part \in Seq(Nat) /\ Len(part) = Len(s)
        /\ \A i \in 1 .. Len(s) : part[i] = whole[i]
    BY <1>2, <2>1, SubSeqProperties
  <2>3. \A i \in 1 .. Len(s) : whole[i] = s[i]
    BY <1>1, <1>2
  <2> HIDE DEF part
  <2>4. part = s
    BY <2>2, <2>3, SeqEqual
  <2> QED
    BY <2>4 DEF part
<1>5. SubSeq(whole, Len(s) + 1, Len(whole)) = t
  <2> DEFINE m == Len(s) + 1
             part == SubSeq(whole, m, Len(whole))
  <2>1. /\ m \in Int /\ Len(whole) \in Int
        /\ \A i \in m .. Len(whole) : whole[i] \in Nat
    BY <1>1, <1>2, <1>3
  <2>2. /\ part \in Seq(Nat) /\ Len(part) = IF m <= Len(whole) THEN Len(whole) - m + 1 ELSE 0
        /\ \A i \in 1 .. Len(whole) - m + 1 : part[i] = whole[m + i - 1]
    <3> HIDE DEF m
    <3> QED
      BY <2>1, SubSeqProperties
  <2>3. Len(part) = Len(t) /\ Len(whole) - m + 1 = Len(t)
    BY <1>1, <1>2, <2>2
  <2>4. ASSUME NEW i \in 1 .. Len(t)
        PROVE  part[i] = t[i]
    <3>1. /\ m + i - 1 \in 1 .. Len(s) + Len(t) /\ ~(m + i - 1 <= Len(s))
          /\ (m + i - 1) - Len(s) = i
      BY <1>2
    <3>2. part[i] = whole[m + i - 1]
      BY <2>2, <2>3
    <3> QED
      BY <1>1, <3>1, <3>2
  <2> HIDE DEF part
  <2>5. part = t
    BY <2>2, <2>3, <2>4, SeqEqual
  <2> QED
    BY <2>5 DEF part
<1> QED
  BY <1>4, <1>5 DEF whole, Endpoint!After

\* What stands before the resource is made of.
LEMMA ServerIs ==
    ASSUME NEW parts, IsEndpoint(parts)
    PROVE  /\ Endpoint!Server(parts) \in Seq(Nat)
           /\ \A separator \in {Slash, Question, At} : Free(Endpoint!Server(parts), separator)
<1>1. Endpoint!Server(parts) = Endpoint!Joined(parts.host, Colon, parts.port)
  BY DEF Endpoint!Server, Colon, Endpoint!Colon
<1>2. Colon \in Nat /\ \A separator \in {Slash, Question, At} : separator # Colon
  BY DEF Colon, Slash, Question, At
<1>3. parts.host \in Seq(Nat) /\ parts.port \in Seq(Nat)
  BY PartsAreTexts
<1>4. Endpoint!Joined(parts.host, Colon, parts.port) \in Seq(Nat)
  BY <1>2, <1>3, JoinedIsText
<1>5. ASSUME NEW separator \in {Slash, Question, At}
      PROVE  Free(Endpoint!Joined(parts.host, Colon, parts.port), separator)
  <2>1. Free(parts.host, separator) /\ Free(parts.port, separator)
    BY PartsAreTexts
  <2> QED
    BY <1>2, <1>3, <2>1, JoinedFree
<1> QED
  BY <1>1, <1>4, <1>5

\* The credentials of an endpoint, as written.
Credentials(parts) ==
    Endpoint!Joined(Endpoint!Encoded(parts.user), Colon, Endpoint!Encoded(parts.password))

\* The credentials hold no separator but the one between them.
LEMMA CredentialsAre ==
    ASSUME NEW parts, IsEndpoint(parts)
    PROVE  /\ Credentials(parts) \in Seq(Nat)
           /\ \A separator \in {Slash, Question, At} : Free(Credentials(parts), separator)
<1> DEFINE user == Endpoint!Encoded(parts.user)
           password == Endpoint!Encoded(parts.password)
<1>1. /\ user \in Seq(Nat) /\ password \in Seq(Nat)
      /\ \A separator \in {Slash, Question, At} :
             Free(user, separator) /\ Free(password, separator)
  BY PartsAreTexts, EncodedIsFree
<1> HIDE DEF user, password
<1>2. Endpoint!Joined(user, Colon, password) \in Seq(Nat)
  BY <1>1, JoinedIsText DEF Colon
<1>3. ASSUME NEW separator \in {Slash, Question, At}
      PROVE  Free(Endpoint!Joined(user, Colon, password), separator)
  <2>1. separator # Colon /\ Colon \in Nat
    BY DEF Colon, Slash, Question, At
  <2> QED
    BY <1>1, <2>1, JoinedFree
<1> QED
  BY <1>2, <1>3 DEF Credentials, user, password

\* What stands before the resource holds neither slash nor question mark.
LEMMA AuthorityIs ==
    ASSUME NEW parts, IsEndpoint(parts)
    PROVE  /\ Endpoint!Authority(parts)
                  = IF parts.info
                    THEN Endpoint!Joined(Credentials(parts), At, Endpoint!Server(parts))
                    ELSE Endpoint!Server(parts)
           /\ Endpoint!Authority(parts) \in Seq(Nat)
           /\ \A separator \in {Slash, Question} : Free(Endpoint!Authority(parts), separator)
<1>1. Endpoint!Authority(parts)
          = IF parts.info THEN Endpoint!Joined(Credentials(parts), At, Endpoint!Server(parts))
            ELSE Endpoint!Server(parts)
  BY DEF Endpoint!Authority, Credentials, Colon, At, Endpoint!Colon, Endpoint!At
<1>2. CASE parts.info
  <2>1. At \in Nat /\ \A separator \in {Slash, Question} : separator # At
    BY DEF At, Slash, Question
  <2>2. Endpoint!Joined(Credentials(parts), At, Endpoint!Server(parts)) \in Seq(Nat)
    BY <2>1, CredentialsAre, ServerIs, JoinedIsText
  <2>3. ASSUME NEW separator \in {Slash, Question}
        PROVE  Free(Endpoint!Joined(Credentials(parts), At, Endpoint!Server(parts)), separator)
    <3>1. Free(Credentials(parts), separator) /\ Free(Endpoint!Server(parts), separator)
      BY CredentialsAre, ServerIs
    <3> QED
      BY <2>1, <3>1, CredentialsAre, ServerIs, JoinedFree
  <2> QED
    BY <1>1, <1>2, <2>2, <2>3
<1>3. CASE ~parts.info
  BY <1>1, <1>3, ServerIs
<1> QED
  BY <1>1, <1>2, <1>3

\* What stands before the query holds no question mark.
LEMMA AddressIs ==
    ASSUME NEW parts, IsEndpoint(parts)
    PROVE  /\ Endpoint!Address(parts)
                  = Endpoint!Joined(Endpoint!Authority(parts), Slash, parts.resource)
           /\ Endpoint!Address(parts) \in Seq(Nat)
           /\ Free(Endpoint!Address(parts), Question)
<1>1. Endpoint!Address(parts) = Endpoint!Joined(Endpoint!Authority(parts), Slash, parts.resource)
  BY DEF Endpoint!Address, Slash, Endpoint!Slash
<1>2. Slash \in Nat /\ Slash # Question
  BY DEF Slash, Question
<1>3. /\ Endpoint!Authority(parts) \in Seq(Nat) /\ Free(Endpoint!Authority(parts), Question)
      /\ parts.resource \in Seq(Nat) /\ Free(parts.resource, Question)
  BY AuthorityIs, PartsAreTexts
<1>4. Endpoint!Joined(Endpoint!Authority(parts), Slash, parts.resource) \in Seq(Nat)
  BY <1>2, <1>3, JoinedIsText
<1>5. Free(Endpoint!Joined(Endpoint!Authority(parts), Slash, parts.resource), Question)
  BY <1>2, <1>3, JoinedFree
<1> QED
  BY <1>1, <1>4, <1>5

\* The query is cut off.
LEMMA QueryCutOff ==
    ASSUME NEW parts, IsEndpoint(parts)
    PROVE  Endpoint!WithoutQuery(Endpoint!Address(parts) \o parts.query) = Endpoint!Address(parts)
<1> DEFINE address == Endpoint!Address(parts)
           query == parts.query
           whole == address \o query
<1>1. /\ address \in Seq(Nat) /\ Free(address, Question) /\ query \in Seq(Nat)
  BY AddressIs, PartsAreTexts
<1>2. query # <<>> => query[1] = Question
  BY DEF IsEndpoint
<1> HIDE DEF address, query
<1>3. /\ whole \in Seq(Nat) /\ Len(whole) = Len(address) + Len(query)
      /\ \A i \in 1 .. Len(address) + Len(query) :
             whole[i] = IF i <= Len(address) THEN address[i] ELSE query[i - Len(address)]
  BY <1>1, ConcatProperties
<1>4. Len(address) \in Nat /\ Len(query) \in Nat
  BY <1>1
<1>5. CASE query = <<>>
  <2>1. whole = address
    BY <1>1, <1>5, ConcatEmptySeq
  <2>2. Endpoint!Find(address, Question) = 0
    BY <1>1, NoPlace
  <2> QED
    BY <2>1, <2>2 DEF Endpoint!WithoutQuery, Endpoint!Question, Question, address, query
<1>6. CASE query # <<>>
  <2> DEFINE place == Len(address) + 1
  <2>1. Len(query) >= 1
    BY <1>1, <1>6
  <2>2. place \in 1 .. Len(whole) /\ place \in 1 .. Len(address) + Len(query)
        /\ ~(place <= Len(address)) /\ place - Len(address) = 1
    BY <1>3, <1>4, <2>1
  <2>3. whole[place] = Question
    BY <1>2, <1>3, <1>6, <2>2
  <2>4. ASSUME NEW j \in 1 .. place - 1
        PROVE  whole[j] # Question
    <3>1. j \in 1 .. Len(address) /\ j \in 1 .. Len(address) + Len(query) /\ j <= Len(address)
      BY <1>4
    <3>2. whole[j] = address[j]
      BY <1>3, <3>1
    <3> QED
      BY <1>1, <3>1, <3>2 DEF Free
  <2> HIDE DEF place, whole
  <2>5. Endpoint!Find(whole, Question) = place
    BY <1>3, <2>2, <2>3, <2>4, FirstPlace
  <2>6. place # 0 /\ place - 1 = Len(address)
    BY <1>4 DEF place
  <2>7. SubSeq(whole, 1, Len(address)) = address
    BY <1>1, ConcatApart DEF whole
  <2>8. Endpoint!WithoutQuery(whole) = SubSeq(whole, 1, place - 1)
    BY <2>5, <2>6 DEF Endpoint!WithoutQuery, Endpoint!Before, Endpoint!Question, Question
  <2> QED
    BY <2>6, <2>7, <2>8 DEF whole, address, query
<1> QED
  BY <1>5, <1>6

\* The first characters of a text are those of the scheme, up to its first slash.
LooksLikeScheme(full) ==
    /\ full[1] = 97 /\ full[2] = 109 /\ full[3] = 113 /\ full[4] = 112 /\ full[5] = 115
    /\ full[6] = 58 /\ full[7] = 47

\* A text whose first eight characters are the scheme has its characters.
LEMMA SchemeBegins ==
    ASSUME NEW full \in Seq(Nat), Len(full) >= 8, SubSeq(full, 1, 8) = Endpoint!Scheme
    PROVE  \A i \in 1 .. 8 : full[i] = Endpoint!Scheme[i]
<1>1. \A i \in 1 .. 8 : full[i] \in Nat
  <2> TAKE i \in 1 .. 8
  <2>1. i \in 1 .. Len(full)
    OBVIOUS
  <2> QED
    BY <2>1, ElementOfSeq
<1>2. \A i \in 1 .. 8 - 1 + 1 : SubSeq(full, 1, 8)[i] = full[1 + i - 1]
  BY <1>1, SubSeqProperties
<1> QED
  <2> TAKE i \in 1 .. 8
  <2>1. i \in 1 .. 8 - 1 + 1 /\ 1 + i - 1 = i
    OBVIOUS
  <2> QED
    BY <1>2, <2>1

\* A text with the characters of the scheme looks like it.
LEMMA SchemeSeen ==
    ASSUME NEW full, \A i \in 1 .. 8 : full[i] = Endpoint!Scheme[i]
    PROVE  LooksLikeScheme(full)
<1>1. /\ Endpoint!Scheme[1] = 97 /\ Endpoint!Scheme[2] = 109 /\ Endpoint!Scheme[3] = 113
      /\ Endpoint!Scheme[4] = 112 /\ Endpoint!Scheme[5] = 115 /\ Endpoint!Scheme[6] = 58
      /\ Endpoint!Scheme[7] = 47
  BY DEF Endpoint!Scheme
<1> QED
  BY <1>1 DEF LooksLikeScheme

\* The scheme has its first slash after six characters.
LEMMA SixBeforeSlash ==
    ASSUME NEW full, LooksLikeScheme(full), NEW size \in Nat,
           \A i \in 1 .. size : full[i] # 47, full[size + 1] = 47
    PROVE  size = 6
<1>1. ~(size >= 7)
  BY DEF LooksLikeScheme
<1>2. size + 1 # 1 /\ size + 1 # 2 /\ size + 1 # 3 /\ size + 1 # 4 /\ size + 1 # 5 /\ size + 1 # 6
  BY DEF LooksLikeScheme
<1> QED
  BY <1>1, <1>2

\* What an endpoint without scheme begins with.
LEMMA AuthorityFirst ==
    ASSUME NEW parts, IsEndpoint(parts)
    PROVE  LET full == Endpoint!Address(parts) \o parts.query
               authority == Endpoint!Authority(parts)
           IN /\ full \in Seq(Nat)
              /\ \A i \in 1 .. Len(authority) : full[i] = authority[i]
              /\ full[Len(authority) + 1] = Slash
<1> DEFINE authority == Endpoint!Authority(parts)
           address == Endpoint!Address(parts)
           resource == parts.resource
           query == parts.query
           full == address \o query
<1>1. /\ authority \in Seq(Nat) /\ address = Endpoint!Joined(authority, Slash, resource)
      /\ address \in Seq(Nat) /\ resource \in Seq(Nat) /\ query \in Seq(Nat)
  BY AuthorityIs, AddressIs, PartsAreTexts
<1> HIDE DEF authority, address, query, resource
<1>2. /\ full \in Seq(Nat)
      /\ \A i \in 1 .. Len(address) + Len(query) :
             full[i] = IF i <= Len(address) THEN address[i] ELSE query[i - Len(address)]
  BY <1>1, ConcatProperties
<1>3. Slash \in Nat
  BY DEF Slash
<1>4. /\ Len(address) = Len(authority) + 1 + Len(resource)
      /\ \A i \in 1 .. Len(authority) : address[i] = authority[i]
      /\ address[Len(authority) + 1] = Slash
  <2>1. IsJoined(address, authority, Slash, resource)
    BY <1>1, <1>3, JoinedProperties
  <2> QED
    BY <2>1 DEF IsJoined
<1>5. Len(authority) \in Nat /\ Len(resource) \in Nat /\ Len(query) \in Nat
  BY <1>1, LenProperties
<1> HIDE DEF full
<1>6. \A i \in 1 .. Len(authority) + 1 : full[i] = address[i]
  <2> TAKE i \in 1 .. Len(authority) + 1
  <2>1. i \in 1 .. Len(address) + Len(query) /\ i <= Len(address)
    BY <1>4, <1>5
  <2> QED
    BY <1>2, <2>1
<1>7. Len(authority) + 1 \in 1 .. Len(authority) + 1
      /\ \A i \in 1 .. Len(authority) : i \in 1 .. Len(authority) + 1
  BY <1>5
<1>8. /\ \A i \in 1 .. Len(authority) : full[i] = authority[i]
      /\ full[Len(authority) + 1] = Slash
  BY <1>4, <1>6, <1>7
<1> QED
  BY <1>2, <1>8 DEF full, authority, address, query

\* "amqps:" is a host and a separator, and no port.
SixCharacters(full, server, host, m, port, n) ==
    /\ LooksLikeScheme(full) /\ m \in Nat /\ n \in Nat /\ m + 1 + n = 6
    /\ \A i \in 1 .. 6 : full[i] = server[i]
    /\ \A i \in 1 .. m : server[i] = host[i]
    /\ n # 0 => server[m + 1 + n] = port[n] /\ port[n] # 58

\* Then the six characters are "amqps" and the colon.
LEMMA SixCharactersAre ==
    ASSUME NEW full, NEW server, NEW host, NEW m, NEW port, NEW n,
           SixCharacters(full, server, host, m, port, n)
    PROVE  /\ n = 0 /\ m = 5
           /\ host[1] = 97 /\ host[2] = 109 /\ host[3] = 113 /\ host[4] = 112 /\ host[5] = 115
<1>1. n = 0
  BY DEF LooksLikeScheme, SixCharacters
<1>2. m = 5
  BY <1>1 DEF SixCharacters
<1> QED
  BY <1>1, <1>2 DEF LooksLikeScheme, SixCharacters

\* A text is its characters.
LEMMA AmqpsIs ==
    ASSUME NEW host \in Seq(Nat), Len(host) = 5, host[1] = 97, host[2] = 109, host[3] = 113,
           host[4] = 112, host[5] = 115
    PROVE  host = <<97, 109, 113, 112, 115>>
  OBVIOUS

\* "amqps:" is no host and port, unless the port is missing.
LEMMA NotAmqps ==
    ASSUME NEW host \in Seq(Nat), NEW port \in Seq(Nat), Free(port, Colon),
           NEW full, LooksLikeScheme(full), NEW server,
           server = Endpoint!Joined(host, Colon, port), Len(server) = 6,
           \A i \in 1 .. 6 : full[i] = server[i]
    PROVE  port = <<>> /\ host = <<97, 109, 113, 112, 115>>
<1> DEFINE m == Len(host)
           n == Len(port)
<1>1. /\ Len(server) = m + 1 + n
      /\ \A i \in 1 .. m : server[i] = host[i]
      /\ StandsIn(server, m + 1, port)
  <2>1. IsJoined(server, host, Colon, port)
    BY JoinedProperties DEF Colon
  <2> QED
    BY <2>1 DEF IsJoined
<1>2. m \in Nat /\ n \in Nat
  BY LenProperties
<1>3. n # 0 => server[m + 1 + n] = port[n] /\ port[n] # 58
  <2> SUFFICES ASSUME n # 0
               PROVE  server[m + 1 + n] = port[n] /\ port[n] # 58
    OBVIOUS
  <2>1. n \in 1 .. n
    BY <1>2
  <2> QED
    BY <1>1, <2>1 DEF StandsIn, Free, Colon
<1>4. m + 1 + n = 6
  BY <1>1
<1> HIDE DEF m, n
<1>5. SixCharacters(full, server, host, m, port, n)
  BY <1>1, <1>2, <1>3, <1>4 DEF SixCharacters
<1>6. /\ n = 0 /\ m = 5
      /\ host[1] = 97 /\ host[2] = 109 /\ host[3] = 113 /\ host[4] = 112 /\ host[5] = 115
  BY <1>5, SixCharactersAre
<1>7. host = <<97, 109, 113, 112, 115>>
  BY <1>6, AmqpsIs DEF m
<1>8. port = <<>>
  BY <1>6, EmptySeq DEF n
<1> QED
  BY <1>7, <1>8

\* What has no scheme does not look like it.
LEMMA NoSchemeSeen ==
    ASSUME NEW parts, IsEndpoint(parts), ~parts.scheme
    PROVE  ~LooksLikeScheme(Endpoint!Address(parts) \o parts.query)
<1> DEFINE authority == Endpoint!Authority(parts)
           full == Endpoint!Address(parts) \o parts.query
<1>1. /\ \A i \in 1 .. Len(authority) : full[i] = authority[i]
      /\ full[Len(authority) + 1] = 47
  BY AuthorityFirst DEF Slash
<1>2. Len(authority) \in Nat /\ \A i \in 1 .. Len(authority) : authority[i] # 47
  BY AuthorityIs, LenProperties DEF Free, Slash
<1> HIDE DEF authority, full
<1> SUFFICES ASSUME LooksLikeScheme(full)
             PROVE  FALSE
  BY DEF full
<1>3. Len(authority) = 6
  <2> DEFINE size == Len(authority)
  <2>1. size \in Nat /\ (\A i \in 1 .. size : full[i] # 47) /\ full[size + 1] = 47
    BY <1>1, <1>2
  <2> HIDE DEF size
  <2>2. size = 6
    BY <2>1, SixBeforeSlash
  <2> QED
    BY <2>2 DEF size
<1>4. \A i \in 1 .. 6 : full[i] = authority[i]
  BY <1>1, <1>3
<1>5. CASE parts.info
  <2> DEFINE size == Len(Credentials(parts))
             serverSize == Len(Endpoint!Server(parts))
  <2>1. authority = Endpoint!Joined(Credentials(parts), At, Endpoint!Server(parts))
    BY <1>5, AuthorityIs DEF authority
  <2>2. /\ Credentials(parts) \in Seq(Nat) /\ Endpoint!Server(parts) \in Seq(Nat) /\ At \in Nat
    BY CredentialsAre, ServerIs DEF At
  <2>3. Len(authority) = size + 1 + serverSize /\ authority[size + 1] = At
    <3>1. IsJoined(authority, Credentials(parts), At, Endpoint!Server(parts))
      BY <2>1, <2>2, JoinedProperties
    <3> QED
      BY <3>1 DEF IsJoined
  <2>4. size \in Nat /\ serverSize \in Nat
    BY <2>2, LenProperties
  <2> HIDE DEF size, serverSize
  <2>5. size + 1 \in 1 .. 6
    BY <1>3, <2>3, <2>4
  <2>6. full[size + 1] = 64
    BY <1>4, <2>3, <2>5 DEF At
  <2>7. size + 1 = 1 \/ size + 1 = 2 \/ size + 1 = 3 \/ size + 1 = 4 \/ size + 1 = 5 \/ size + 1 = 6
    BY <2>5
  <2> QED
    BY <2>6, <2>7 DEF LooksLikeScheme
<1>6. CASE ~parts.info
  <2>1. authority = Endpoint!Joined(parts.host, Colon, parts.port)
    BY <1>6, AuthorityIs DEF authority, Endpoint!Server, Colon, Endpoint!Colon
  <2>2. parts.host \in Seq(Nat) /\ parts.port \in Seq(Nat) /\ Free(parts.port, Colon)
    BY PartsAreTexts
  <2>3. parts.port = <<>> /\ parts.host = <<97, 109, 113, 112, 115>>
    BY <1>3, <1>4, <2>1, <2>2, NotAmqps
  <2> QED
    BY <2>3 DEF IsEndpoint
<1> QED
  BY <1>5, <1>6

\* The scheme is cut off.
Bare(full) ==
    IF Len(full) >= 8 /\ SubSeq(full, 1, 8) = Endpoint!Scheme THEN Endpoint!After(full, 8)
    ELSE full

\* What is left of an endpoint is its address and its query.
LEMMA SchemeCutOff ==
    ASSUME NEW parts, IsEndpoint(parts)
    PROVE  Bare(Endpoint!Written(parts)) = Endpoint!Address(parts) \o parts.query
<1> DEFINE rest == Endpoint!Address(parts) \o parts.query
<1>1. rest \in Seq(Nat)
  BY AddressIs, PartsAreTexts, ConcatProperties
<1>2. Endpoint!Written(parts) = (IF parts.scheme THEN Endpoint!Scheme ELSE <<>>) \o rest
  BY DEF Endpoint!Written
<1> HIDE DEF rest
<1>3. CASE parts.scheme
  <2> DEFINE scheme == Endpoint!Scheme
  <2>1. scheme \in Seq(Nat) /\ Len(scheme) = 8
    BY DEF Endpoint!Scheme
  <2>2. Endpoint!Written(parts) = scheme \o rest
    BY <1>2, <1>3
  <2> HIDE DEF scheme
  <2>3. Len(scheme \o rest) = 8 + Len(rest) /\ Len(rest) \in Nat
    <3>1. Len(scheme \o rest) = Len(scheme) + Len(rest)
      BY <1>1, <2>1, ConcatProperties
    <3>2. Len(rest) \in Nat
      BY <1>1, LenProperties
    <3> QED
      BY <2>1, <3>1, <3>2
  <2>4. SubSeq(scheme \o rest, 1, 8) = scheme /\ Endpoint!After(scheme \o rest, 8) = rest
    BY <1>1, <2>1, ConcatApart
  <2>5. Len(scheme \o rest) >= 8
    BY <2>3
  <2> QED
    BY <2>2, <2>4, <2>5 DEF Bare, scheme, rest
<1>4. CASE ~parts.scheme
  <2>1. Endpoint!Written(parts) = rest
    BY <1>1, <1>2, <1>4, ConcatEmptySeq
  <2>2. ~LooksLikeScheme(rest)
    BY <1>4, NoSchemeSeen DEF rest
  <2>3. ~(Len(rest) >= 8 /\ SubSeq(rest, 1, 8) = Endpoint!Scheme)
    <3> SUFFICES ASSUME Len(rest) >= 8, SubSeq(rest, 1, 8) = Endpoint!Scheme
                 PROVE  FALSE
      OBVIOUS
    <3>1. \A i \in 1 .. 8 : rest[i] = Endpoint!Scheme[i]
      BY <1>1, SchemeBegins
    <3> QED
      BY <2>2, <3>1, SchemeSeen
  <2>4. Bare(rest) = rest
    BY <2>3 DEF Bare
  <2> QED
    BY <2>1, <2>4 DEF rest
<1> QED
  BY <1>3, <1>4

\* parseEndpoint in the texts it cuts out.
EndpointsOf(host, ports, resource, infos) ==
    {[host |-> host, port |-> port, resource |-> resource, user |-> info[1],
      password |-> info[2]] : port \in ports, info \in infos}

\* The endpoint is made of what the four separators cut out.
LEMMA ParseSteps ==
    ASSUME NEW full, NEW text, text = Endpoint!WithoutQuery(Bare(full)),
           NEW slash, slash = Endpoint!Find(text, Endpoint!Slash),
           NEW hostPort, hostPort = Endpoint!Before(text, slash),
           NEW server,
           server = Endpoint!After(hostPort, Endpoint!FindLast(hostPort, Endpoint!At)),
           NEW colon, colon = Endpoint!FindLast(server, Endpoint!Colon)
    PROVE  Endpoint!ParseEndpoint(full)
               = IF ~Endpoint!Splits(text, slash) \/ ~Endpoint!Splits(server, colon) THEN {}
                 ELSE EndpointsOf(Endpoint!Before(server, colon),
                                  Endpoint!ParsePositive(Endpoint!After(server, colon)),
                                  Endpoint!After(text, slash), Endpoint!UserInfo(hostPort))
  BY DEF Endpoint!ParseEndpoint, Bare, EndpointsOf

\* The credentials an endpoint has to give.
Infos(parts) == IF ~parts.info THEN {<<<<>>, <<>>>>}
                ELSE IF parts.user = <<>> \/ parts.password = <<>> THEN {}
                ELSE {<<parts.user, parts.password>>}

\* Behind the last at sign stands the server.
LEMMA ServerFound ==
    ASSUME NEW parts, IsEndpoint(parts)
    PROVE  LET authority == Endpoint!Authority(parts)
           IN Endpoint!After(authority, Endpoint!FindLast(authority, Endpoint!At))
                  = Endpoint!Server(parts)
<1> DEFINE authority == Endpoint!Authority(parts)
           server == Endpoint!Server(parts)
           credentials == Credentials(parts)
<1>1. /\ server \in Seq(Nat) /\ Free(server, At) /\ credentials \in Seq(Nat)
      /\ authority = IF parts.info THEN Endpoint!Joined(credentials, At, server) ELSE server
  BY ServerIs, CredentialsAre, AuthorityIs
<1>2. At \in Nat /\ Endpoint!At = At
  BY DEF At, Endpoint!At
<1> HIDE DEF authority, server, credentials
<1>3. CASE parts.info
  <2>1. Endpoint!FindLast(authority, At) = Len(credentials) + 1
    BY <1>1, <1>2, <1>3, JoinedFound
  <2>2. Endpoint!After(authority, Len(credentials) + 1) = server
    BY <1>1, <1>2, <1>3, JoinedApart
  <2> QED
    BY <1>2, <2>1, <2>2 DEF authority, server
<1>4. CASE ~parts.info
  <2>1. Endpoint!FindLast(server, At) = 0
    BY <1>1, NoPlace
  <2>2. Endpoint!After(server, 0) = server
    BY <1>1 DEF Endpoint!After
  <2> QED
    BY <1>1, <1>2, <1>4, <2>1, <2>2 DEF authority, server
<1> QED
  BY <1>3, <1>4

\* Before it stand the credentials, and each is decoded to what it was.
LEMMA InfosFound ==
    ASSUME NEW parts, IsEndpoint(parts)
    PROVE  Endpoint!UserInfo(Endpoint!Authority(parts)) = Infos(parts)
<1> DEFINE authority == Endpoint!Authority(parts)
           server == Endpoint!Server(parts)
           user == Endpoint!Encoded(parts.user)
           password == Endpoint!Encoded(parts.password)
           credentials == Endpoint!Joined(user, Colon, password)
<1>1. /\ server \in Seq(Nat) /\ Free(server, At) /\ credentials \in Seq(Nat)
      /\ authority = IF parts.info THEN Endpoint!Joined(credentials, At, server) ELSE server
  BY ServerIs, CredentialsAre, AuthorityIs DEF Credentials
<1>2. At \in Nat /\ Endpoint!At = At /\ Colon \in Nat /\ Endpoint!Colon = Colon
  BY DEF At, Endpoint!At, Colon, Endpoint!Colon
<1>3. /\ user \in Seq(Nat) /\ password \in Seq(Nat) /\ Free(user, Colon)
      /\ (user = <<>> <=> parts.user = <<>>) /\ (password = <<>> <=> parts.password = <<>>)
  BY PartsAreTexts, EncodedIsFree
<1>4. /\ Endpoint!DecodePercent(user) = {parts.user}
      /\ Endpoint!DecodePercent(password) = {parts.password}
  BY PartsAreTexts, EncodedDecodes
<1> HIDE DEF authority, server, user, password, credentials
<1>5. CASE parts.info
  <2> DEFINE at == Len(credentials) + 1
             separator == Len(user) + 1
  <2>1. Endpoint!FindLast(authority, At) = at /\ at # 0
    <3>1. Endpoint!FindLast(authority, At) = at
      BY <1>1, <1>2, <1>5, JoinedFound
    <3>2. at # 0
      BY <1>1, LenProperties
    <3> QED
      BY <3>1, <3>2
  <2>2. Endpoint!Before(authority, at) = credentials
    BY <1>1, <1>2, <1>5, JoinedApart
  <2>3. Endpoint!Find(credentials, Colon) = separator
    BY <1>2, <1>3, JoinedFound DEF credentials
  <2>4. /\ Endpoint!Before(credentials, separator) = user
        /\ Endpoint!After(credentials, separator) = password
        /\ Endpoint!Splits(credentials, separator) <=> user # <<>> /\ password # <<>>
    BY <1>2, <1>3, JoinedApart DEF credentials
  <2> HIDE DEF at, separator
  <2>5. Endpoint!UserInfo(authority)
            = IF ~Endpoint!Splits(credentials, separator) THEN {}
              ELSE Endpoint!DecodePercent(user) \X Endpoint!DecodePercent(password)
    BY <1>2, <2>1, <2>2, <2>3, <2>4 DEF Endpoint!UserInfo
  <2>6. {parts.user} \X {parts.password} = {<<parts.user, parts.password>>}
    OBVIOUS
  <2> QED
    BY <1>3, <1>4, <1>5, <2>4, <2>5, <2>6 DEF Infos, authority
<1>6. CASE ~parts.info
  <2>1. Endpoint!FindLast(authority, At) = 0
    BY <1>1, <1>6, NoPlace
  <2> QED
    BY <1>2, <1>6, <2>1 DEF Infos, Endpoint!UserInfo, authority
<1> QED
  BY <1>5, <1>6

\* Something stands before the slash.
LEMMA AuthorityNotEmpty ==
    ASSUME NEW parts, IsEndpoint(parts)
    PROVE  Endpoint!Authority(parts) # <<>>
<1>1. ASSUME NEW s \in Seq(Nat), NEW c \in Nat, NEW t \in Seq(Nat)
      PROVE  Endpoint!Joined(s, c, t) # <<>>
  <2> DEFINE whole == Endpoint!Joined(s, c, t)
  <2>1. Len(whole) = Len(s) + 1 + Len(t) /\ Len(s) \in Nat /\ Len(t) \in Nat
    BY JoinedProperties, LenProperties DEF IsJoined
  <2>2. Len(whole) # 0
    BY <2>1
  <2> QED
    BY <2>2, EmptySeq
<1>2. /\ Colon \in Nat /\ At \in Nat /\ Endpoint!Server(parts) \in Seq(Nat)
      /\ Credentials(parts) \in Seq(Nat)
      /\ parts.host \in Seq(Nat) /\ parts.port \in Seq(Nat)
  BY PartsAreTexts, ServerIs, CredentialsAre DEF Colon, At
<1>3. Endpoint!Server(parts) = Endpoint!Joined(parts.host, Colon, parts.port)
  BY DEF Endpoint!Server, Colon, Endpoint!Colon
<1>4. Endpoint!Server(parts) # <<>>
  BY <1>1, <1>2, <1>3
<1>5. Endpoint!Joined(Credentials(parts), At, Endpoint!Server(parts)) # <<>>
  BY <1>1, <1>2
<1> QED
  BY <1>4, <1>5, AuthorityIs

\* What is read from an endpoint is what was written.
LEMMA EndpointRead ==
    ASSUME NEW parts, IsEndpoint(parts)
    PROVE  Endpoint!ParseEndpoint(Endpoint!Written(parts))
               = IF parts.resource = <<>> \/ parts.host = <<>> \/ parts.port = <<>> THEN {}
                 ELSE EndpointsOf(parts.host, Endpoint!ParsePositive(parts.port),
                                  parts.resource, Infos(parts))
<1> DEFINE full == Endpoint!Written(parts)
           text == Endpoint!Address(parts)
           hostPort == Endpoint!Authority(parts)
           server == Endpoint!Server(parts)
           resource == parts.resource
           host == parts.host
           port == parts.port
           slash == Len(hostPort) + 1
           colon == Len(host) + 1
<1>1. text = Endpoint!WithoutQuery(Bare(full))
  BY SchemeCutOff, QueryCutOff
<1>2. /\ hostPort \in Seq(Nat) /\ resource \in Seq(Nat) /\ host \in Seq(Nat) /\ port \in Seq(Nat)
      /\ Free(hostPort, Slash) /\ Free(port, Colon)
  BY PartsAreTexts, AuthorityIs
<1>3. text = Endpoint!Joined(hostPort, Slash, resource)
  BY AddressIs
<1>4. server = Endpoint!Joined(host, Colon, port)
  BY DEF Endpoint!Server, Colon, Endpoint!Colon
<1>5. Slash \in Nat /\ Endpoint!Slash = Slash /\ Colon \in Nat /\ Endpoint!Colon = Colon
  BY DEF Slash, Endpoint!Slash, Colon, Endpoint!Colon
<1>6. server = Endpoint!After(hostPort, Endpoint!FindLast(hostPort, Endpoint!At))
  BY ServerFound
<1>7. Endpoint!UserInfo(hostPort) = Infos(parts)
  BY InfosFound
<1>8. hostPort # <<>>
  BY AuthorityNotEmpty
<1> HIDE DEF full, text, hostPort, server, resource, host, port
<1>9. Endpoint!Find(text, Slash) = slash
  BY <1>2, <1>3, <1>5, JoinedFound
<1>10. /\ Endpoint!Before(text, slash) = hostPort
       /\ Endpoint!After(text, slash) = resource
       /\ Endpoint!Splits(text, slash) <=> hostPort # <<>> /\ resource # <<>>
  BY <1>2, <1>3, <1>5, JoinedApart
<1>11. Endpoint!FindLast(server, Colon) = colon
  BY <1>2, <1>4, <1>5, JoinedFound
<1>12. /\ Endpoint!Before(server, colon) = host
       /\ Endpoint!After(server, colon) = port
       /\ Endpoint!Splits(server, colon) <=> host # <<>> /\ port # <<>>
  BY <1>2, <1>4, <1>5, JoinedApart
<1> HIDE DEF slash, colon
<1>13. Endpoint!ParseEndpoint(full)
           = IF ~Endpoint!Splits(text, slash) \/ ~Endpoint!Splits(server, colon) THEN {}
             ELSE EndpointsOf(Endpoint!Before(server, colon),
                              Endpoint!ParsePositive(Endpoint!After(server, colon)),
                              Endpoint!After(text, slash), Endpoint!UserInfo(hostPort))
  BY <1>1, <1>5, <1>6, <1>9, <1>10, <1>11, ParseSteps
<1> QED
  BY <1>7, <1>8, <1>10, <1>12, <1>13 DEF full, resource, host, port

-----------------------------------------------------------------------------
(* parseOptions. *)

\* What was read from an endpoint, part by part.
LEMMA EndpointParts ==
    ASSUME NEW parts, IsEndpoint(parts),
           NEW endpoint \in Endpoint!ParseEndpoint(Endpoint!Written(parts))
    PROVE  /\ endpoint.host = parts.host
           /\ endpoint.port \in Endpoint!ParsePositive(parts.port)
           /\ endpoint.resource = parts.resource
           /\ parts.info => endpoint.user = parts.user /\ endpoint.password = parts.password
           /\ ~parts.info => endpoint.user = <<>> /\ endpoint.password = <<>>
<1>1. endpoint \in EndpointsOf(parts.host, Endpoint!ParsePositive(parts.port), parts.resource,
                               Infos(parts))
  BY EndpointRead
<1>2. PICK port \in Endpoint!ParsePositive(parts.port), info \in Infos(parts) :
          endpoint = [host |-> parts.host, port |-> port, resource |-> parts.resource,
                      user |-> info[1], password |-> info[2]]
  BY <1>1 DEF EndpointsOf
<1>3. /\ parts.info => info[1] = parts.user /\ info[2] = parts.password
      /\ ~parts.info => info[1] = <<>> /\ info[2] = <<>>
  BY DEF Infos
<1> QED
  BY <1>2, <1>3

\* An endpoint is refused for what it lacks.
LEMMA EndpointRefused ==
    ASSUME NEW parts, IsEndpoint(parts), Endpoint!ParseEndpoint(Endpoint!Written(parts)) = {}
    PROVE  \/ <<>> \in {parts.host, parts.port, parts.resource}
           \/ Endpoint!ParsePositive(parts.port) = {}
           \/ parts.info /\ <<>> \in {parts.user, parts.password}
<1> SUFFICES ASSUME parts.host # <<>>, parts.port # <<>>, parts.resource # <<>>,
                    NEW port \in Endpoint!ParsePositive(parts.port)
             PROVE  parts.info /\ <<>> \in {parts.user, parts.password}
  OBVIOUS
<1>1. EndpointsOf(parts.host, Endpoint!ParsePositive(parts.port), parts.resource, Infos(parts)) = {}
  BY EndpointRead
<1>2. Infos(parts) = {}
  <2> SUFFICES ASSUME NEW info \in Infos(parts)
               PROVE  FALSE
    OBVIOUS
  <2>1. [host |-> parts.host, port |-> port, resource |-> parts.resource,
         user |-> info[1], password |-> info[2]]
            \in EndpointsOf(parts.host, Endpoint!ParsePositive(parts.port), parts.resource,
                            Infos(parts))
    BY DEF EndpointsOf
  <2> QED
    BY <1>1, <2>1
<1> QED
  BY <1>2 DEF Infos

\* What the command line gives for a credential, up to an argument.
Credential == {"user", "password"}
TakenUpTo(line, name, text, n) ==
    \/ /\ \A i \in 1 .. n : line.arguments[i].name # name
       /\ text = line[name]
    \/ \E i \in 1 .. n : /\ line.arguments[i].name = name
                         /\ text = line.arguments[i].value
                         /\ \A j \in i + 1 .. n : line.arguments[j].name # name

\* One more argument gives its value, if it has the name, and changes nothing else.
LEMMA OneMoreTaken ==
    ASSUME NEW line, NEW name, NEW text, NEW n \in Nat, TakenUpTo(line, name, text, n)
    PROVE  IF line.arguments[n + 1].name = name
           THEN TakenUpTo(line, name, line.arguments[n + 1].value, n + 1)
           ELSE TakenUpTo(line, name, text, n + 1)
<1>1. n + 1 \in 1 .. n + 1 /\ \A i \in 1 .. n : i \in 1 .. n + 1
  OBVIOUS
<1>2. CASE line.arguments[n + 1].name = name
  <2>1. \A j \in n + 1 + 1 .. n + 1 : line.arguments[j].name # name
    OBVIOUS
  <2> QED
    BY <1>1, <1>2, <2>1 DEF TakenUpTo
<1>3. CASE line.arguments[n + 1].name # name
  <2>1. CASE \A i \in 1 .. n : line.arguments[i].name # name
    <3>1. \A i \in 1 .. n + 1 : line.arguments[i].name # name
      BY <1>3, <2>1
    <3> QED
      BY <1>3, <2>1, <3>1 DEF TakenUpTo
  <2>2. CASE ~\A i \in 1 .. n : line.arguments[i].name # name
    <3>1. PICK i \in 1 .. n : /\ line.arguments[i].name = name
                              /\ text = line.arguments[i].value
                              /\ \A j \in i + 1 .. n : line.arguments[j].name # name
      BY <2>2 DEF TakenUpTo
    <3>2. \A j \in i + 1 .. n + 1 : line.arguments[j].name # name
      BY <1>3, <3>1
    <3> QED
      BY <1>1, <1>3, <3>1, <3>2 DEF TakenUpTo
  <2> QED
    BY <2>1, <2>2
<1> QED
  BY <1>2, <1>3

\* What all arguments give for a credential is what is given for it.
LEMMA AllTaken ==
    ASSUME command \in Commands, NEW name \in Credential, NEW text,
           TakenUpTo(command, name, text, Len(command.arguments))
    PROVE  text = Endpoint!Given(name)
<1> DEFINE arguments == command.arguments
           n == Len(arguments)
           named == {i \in DOMAIN arguments : arguments[i].name = name}
<1>1. n \in Nat /\ DOMAIN arguments = 1 .. n
  BY CommandsAssumption
<1>2. Endpoint!Given(name) = IF named = {} THEN command[name]
                             ELSE arguments[Endpoint!Max(named)].value
  BY DEF Endpoint!Given
<1>3. CASE \A i \in 1 .. n : arguments[i].name # name
  <2>1. named = {} /\ text = command[name]
    BY <1>1, <1>3 DEF TakenUpTo
  <2> QED
    BY <1>2, <2>1
<1>4. CASE ~\A i \in 1 .. n : arguments[i].name # name
  <2>1. PICK i \in 1 .. n : /\ arguments[i].name = name
                            /\ text = arguments[i].value
                            /\ \A j \in i + 1 .. n : arguments[j].name # name
    BY <1>4 DEF TakenUpTo
  <2>2. named \in SUBSET Int /\ i \in named /\ \A j \in named : i >= j
    BY <1>1, <2>1
  <2>3. Endpoint!Max(named) = i /\ named # {}
    <3> HIDE DEF named
    <3> QED
      BY <2>2, ExtremesAre
  <2> QED
    BY <1>2, <2>1, <2>3
<1> QED
  BY <1>3, <1>4

\* Where the program is, and what the options are there.
OptionsInv ==
    /\ command \in Commands
    /\ {"endpoint", "user", "password"} \subseteq DOMAIN options
    /\ stage \in {"arguments", "credentials"} =>
           \A name \in Credential : options[name] \in Seq(Nat)
    /\ stage = "arguments" =>
           /\ position \in 1 .. Len(command.arguments) + 1
           /\ \A name \in Credential : TakenUpTo(command, name, options[name], position - 1)
    /\ stage = "credentials" =>
           /\ options.endpoint \in Endpoint!ParseEndpoint(Endpoint!Written(command.parts))
           /\ \A name \in Credential : options[name] = Endpoint!Given(name)
    /\ OptionsAsWritten

\* The invariant holds before the first argument.
LEMMA InitiallyOptions == Endpoint!Init => OptionsInv
<1> SUFFICES ASSUME Endpoint!Init
             PROVE  OptionsInv
  OBVIOUS
<1>1. command \in Commands /\ stage = "arguments" /\ position = 1
  BY DEF Endpoint!Init
<1>2. options = [endpoint |-> Endpoint!NoEndpoint, user |-> command.user,
                 password |-> command.password, count |-> 1, timeoutSeconds |-> 60]
  BY DEF Endpoint!Init
<1>3. command.user \in Seq(Nat) /\ command.password \in Seq(Nat) /\ Len(command.arguments) \in Nat
  BY <1>1, CommandsAssumption
<1>4. {"endpoint", "user", "password"} \subseteq DOMAIN options
  BY <1>2
<1>5. \A name \in Credential : options[name] = command[name] /\ options[name] \in Seq(Nat)
  BY <1>2, <1>3 DEF Credential
<1>6. 1 \in 1 .. Len(command.arguments) + 1
  BY <1>3
<1>7. \A name \in Credential : TakenUpTo(command, name, options[name], position - 1)
  <2>1. position - 1 = 0 /\ \A i \in 1 .. 0 : FALSE
    BY <1>1
  <2> QED
    BY <1>5, <2>1 DEF TakenUpTo
<1>8. OptionsAsWritten
  BY <1>1 DEF OptionsAsWritten, Endpoint!OptionsAsWritten, Endpoint!EndpointTakenApart,
              Endpoint!RefusedForCause, Endpoint!CredentialsAsGiven
<1> QED
  BY <1>1, <1>4, <1>5, <1>6, <1>7, <1>8 DEF OptionsInv

\* parseOptions, one argument.
LEMMA ArgumentKeepsOptions ==
    ASSUME OptionsInv, Endpoint!ParseArgument
    PROVE  OptionsInv'
<1> DEFINE argument == command.arguments[position]
<1>1. /\ command' = command /\ command \in Commands /\ stage = "arguments"
      /\ position <= Len(command.arguments) /\ position' = position + 1
      /\ {"endpoint", "user", "password"} \subseteq DOMAIN options
      /\ \A name \in Credential : options[name] \in Seq(Nat)
      /\ position \in 1 .. Len(command.arguments) + 1
      /\ \A name \in Credential : TakenUpTo(command, name, options[name], position - 1)
  BY DEF OptionsInv, Endpoint!ParseArgument
<1>2. /\ Len(command.arguments) \in Nat
      /\ DOMAIN command.arguments = 1 .. Len(command.arguments)
  BY <1>1, CommandsAssumption
<1>3. /\ position \in DOMAIN command.arguments /\ position - 1 \in Nat
      /\ (position - 1) + 1 = position /\ position' - 1 = position
      /\ position' \in 1 .. Len(command.arguments) + 1
  BY <1>1, <1>2
<1>4. argument.value \in Seq(Nat)
  BY <1>1, <1>3, CommandsAssumption DEF IsArgument
<1>5. \A name \in Credential :
          IF argument.name = name THEN TakenUpTo(command, name, argument.value, position)
          ELSE TakenUpTo(command, name, options[name], position)
  <2> TAKE name \in Credential
  <2> DEFINE n == position - 1
  <2>1. n \in Nat /\ TakenUpTo(command, name, options[name], n) /\ n + 1 = position
    BY <1>1, <1>3
  <2> HIDE DEF n
  <2> QED
    BY <2>1, OneMoreTaken
<1>6. CASE stage' = "arguments"
  <2>1. /\ {"endpoint", "user", "password"} \subseteq DOMAIN options'
        /\ \A name \in Credential :
               options'[name] = IF argument.name = name THEN argument.value ELSE options[name]
    <3>1. CASE /\ argument.name \in {"user", "password"}
               /\ options' = [options EXCEPT ![argument.name] = argument.value]
      BY <1>1, <3>1 DEF Credential
    <3>2. CASE /\ argument.name \in {"count", "timeoutSeconds"}
               /\ \E number \in Endpoint!ParsePositive(argument.value) :
                      options' = [options EXCEPT ![argument.name] = number]
      BY <1>1, <3>2 DEF Credential
    <3> QED
      BY <1>6, <3>1, <3>2 DEF Endpoint!ParseArgument, Endpoint!Argument
  <2>2. /\ \A name \in Credential : options'[name] \in Seq(Nat)
        /\ \A name \in Credential : TakenUpTo(command, name, options'[name], position)
    BY <1>1, <1>4, <1>5, <2>1
  <2>3. \A name \in Credential : TakenUpTo(command', name, options'[name], position' - 1)
    BY <1>1, <1>3, <2>2
  <2>4. OptionsAsWritten'
    BY <1>6 DEF OptionsAsWritten, Endpoint!OptionsAsWritten, Endpoint!EndpointTakenApart,
                Endpoint!RefusedForCause, Endpoint!CredentialsAsGiven
  <2> QED
    BY <1>1, <1>3, <1>6, <2>1, <2>2, <2>3, <2>4 DEF OptionsInv
<1>7. CASE stage' \in {"rejected", "help"} /\ options' = options
  <2>1. command.arguments # <<>>
    BY <1>3
  <2>2. OptionsAsWritten'
    BY <1>1, <1>7, <2>1
       DEF OptionsAsWritten, Endpoint!OptionsAsWritten, Endpoint!EndpointTakenApart,
           Endpoint!RefusedForCause, Endpoint!CredentialsAsGiven
  <2> QED
    BY <1>1, <1>7, <2>2 DEF OptionsInv
<1> QED
  BY <1>1, <1>6, <1>7 DEF Endpoint!ParseArgument

\* parseOptions, the endpoint.
LEMMA EndpointKeepsOptions ==
    ASSUME OptionsInv, Endpoint!ParseArgumentsEnds
    PROVE  OptionsInv'
<1> DEFINE parts == command.parts
           endpoints == Endpoint!ParseEndpoint(Endpoint!Written(parts))
<1>1. /\ command' = command /\ command \in Commands /\ stage = "arguments"
      /\ position > Len(command.arguments) /\ position' = position
      /\ {"endpoint", "user", "password"} \subseteq DOMAIN options
      /\ \A name \in Credential : options[name] \in Seq(Nat)
      /\ position \in 1 .. Len(command.arguments) + 1
      /\ \A name \in Credential : TakenUpTo(command, name, options[name], position - 1)
  BY DEF OptionsInv, Endpoint!ParseArgumentsEnds
<1>2. IsEndpoint(parts) /\ Len(command.arguments) \in Nat
  BY <1>1, CommandsAssumption
<1>3. position - 1 = Len(command.arguments)
  BY <1>1, <1>2
<1>4. \A name \in Credential : options[name] = Endpoint!Given(name)
  BY <1>1, <1>3, AllTaken
<1>5. \A name \in Credential : Endpoint!Given(name)' = Endpoint!Given(name)
  BY <1>1 DEF Endpoint!Given
<1>6. ASSUME NEW endpoint \in endpoints, options' = [options EXCEPT !.endpoint = endpoint],
             stage' = "credentials"
      PROVE  OptionsInv'
  <2>1. /\ {"endpoint", "user", "password"} \subseteq DOMAIN options'
        /\ options'.endpoint = endpoint
        /\ \A name \in Credential : options'[name] = options[name]
    BY <1>1, <1>6 DEF Credential
  <2>2. Endpoint!EndpointTakenApart'
    BY <1>1, <1>2, <2>1, EndpointParts DEF Endpoint!EndpointTakenApart
  <2>3. OptionsAsWritten'
    BY <1>6, <2>2 DEF OptionsAsWritten, Endpoint!OptionsAsWritten, Endpoint!RefusedForCause,
                      Endpoint!CredentialsAsGiven
  <2> QED
    BY <1>1, <1>4, <1>5, <1>6, <2>1, <2>3 DEF OptionsInv
<1>7. ASSUME endpoints = {}, stage' = "rejected", options' = options
      PROVE  OptionsInv'
  <2>1. Endpoint!RefusedForCause'
    BY <1>1, <1>2, <1>7, EndpointRefused DEF Endpoint!RefusedForCause
  <2>2. OptionsAsWritten'
    BY <1>7, <2>1 DEF OptionsAsWritten, Endpoint!OptionsAsWritten, Endpoint!EndpointTakenApart,
                      Endpoint!CredentialsAsGiven
  <2> QED
    BY <1>1, <1>7, <2>2 DEF OptionsInv
<1> QED
  BY <1>6, <1>7 DEF Endpoint!ParseArgumentsEnds

\* A credential is decoded once, and comes from where it was given last.
LEMMA CredentialDecoded ==
    ASSUME NEW given \in Seq(Nat), NEW written \in Seq(Nat), NEW inEndpoint \in {written, <<>>},
           NEW decoded \in Endpoint!DecodePercent(Endpoint!Chosen(given, inEndpoint)) \ {<<>>}
    PROVE  IF given # <<>> THEN Endpoint!DecodePercent(given) = {decoded}
           ELSE Percent \notin Endpoint!Range(written) => decoded = written
<1>1. \A text \in Seq(Nat) :
          decoded \in Endpoint!DecodePercent(text) => Endpoint!DecodePercent(text) = {decoded}
  BY DecodesToOne DEF OneText
<1>2. CASE given # <<>>
  BY <1>1, <1>2 DEF Endpoint!Chosen
<1>3. CASE given = <<>> /\ inEndpoint = written
  <2> SUFFICES ASSUME Percent \notin Endpoint!Range(written)
               PROVE  decoded = written
    BY <1>3
  <2>1. Free(written, Percent)
    BY DEF Free, Endpoint!Range
  <2>2. Endpoint!DecodePercent(written) = {written}
    BY <2>1, PlainDecodes
  <2> QED
    BY <1>3, <2>2 DEF Endpoint!Chosen
<1>4. CASE given = <<>> /\ inEndpoint = <<>>
  <2>1. <<>> \in Seq(Nat) /\ Free(<<>>, Percent)
    BY DEF Free
  <2>2. Endpoint!DecodePercent(<<>>) = {<<>>}
    BY <2>1, PlainDecodes
  <2>3. FALSE
    BY <1>4, <2>2 DEF Endpoint!Chosen
  <2> QED
    BY <2>3
<1> QED
  BY <1>2, <1>3, <1>4

\* parseOptions, the credentials.
LEMMA CredentialsKeepOptions ==
    ASSUME OptionsInv, Endpoint!DecodeCredentials
    PROVE  OptionsInv'
<1> DEFINE parts == command.parts
           endpoint == options.endpoint
           users == Endpoint!DecodePercent(Endpoint!Chosen(options.user, endpoint.user)) \ {<<>>}
           passwords == Endpoint!DecodePercent(Endpoint!Chosen(options.password, endpoint.password))
                            \ {<<>>}
<1>1. /\ command' = command /\ command \in Commands /\ stage = "credentials"
      /\ {"endpoint", "user", "password"} \subseteq DOMAIN options
      /\ options.user \in Seq(Nat) /\ options.password \in Seq(Nat)
      /\ endpoint \in Endpoint!ParseEndpoint(Endpoint!Written(parts))
      /\ options.user = Endpoint!Given("user") /\ options.password = Endpoint!Given("password")
  BY DEF OptionsInv, Endpoint!DecodeCredentials, Credential
<1>2. /\ IsEndpoint(parts)
      /\ parts.user \in Seq(Nat) /\ parts.password \in Seq(Nat) /\ parts.info \in BOOLEAN
  <2>1. IsEndpoint(parts)
    BY <1>1, CommandsAssumption
  <2>2. parts.info \in BOOLEAN
    BY <2>1 DEF IsEndpoint
  <2> HIDE DEF parts
  <2> QED
    BY <2>1, <2>2, PartsAreTexts
<1>3. /\ parts.info => endpoint.user = parts.user /\ endpoint.password = parts.password
      /\ ~parts.info => endpoint.user = <<>> /\ endpoint.password = <<>>
  BY <1>1, <1>2, EndpointParts
<1>4. \A name \in Credential : Endpoint!Given(name)' = Endpoint!Given(name)
  BY <1>1 DEF Endpoint!Given
<1>5. Endpoint!EndpointTakenApart
  BY <1>1 DEF OptionsInv, OptionsAsWritten, Endpoint!OptionsAsWritten
<1>6. ASSUME NEW user \in users, NEW password \in passwords, stage' = "done",
             options' = [options EXCEPT !.user = user, !.password = password]
      PROVE  OptionsInv'
  <2>1. /\ {"endpoint", "user", "password"} \subseteq DOMAIN options'
        /\ options'.endpoint = endpoint
        /\ options'["user"] = user /\ options'["password"] = password
    BY <1>1, <1>6
  <2>2. IF options.user # <<>> THEN Endpoint!DecodePercent(options.user) = {user}
        ELSE Percent \notin Endpoint!Range(parts.user) => user = parts.user
    <3> DEFINE given == options.user
               inEndpoint == endpoint.user
               written == parts.user
    <3>1. /\ given \in Seq(Nat) /\ written \in Seq(Nat) /\ inEndpoint \in {written, <<>>}
          /\ user \in Endpoint!DecodePercent(Endpoint!Chosen(given, inEndpoint)) \ {<<>>}
      BY <1>1, <1>2, <1>3
    <3> HIDE DEF given, inEndpoint, written
    <3>2. IF given # <<>> THEN Endpoint!DecodePercent(given) = {user}
          ELSE Percent \notin Endpoint!Range(written) => user = written
      BY <3>1, CredentialDecoded
    <3> QED
      BY <3>2 DEF given, written
  <2>3. IF options.password # <<>> THEN Endpoint!DecodePercent(options.password) = {password}
        ELSE Percent \notin Endpoint!Range(parts.password) => password = parts.password
    <3> DEFINE given == options.password
               inEndpoint == endpoint.password
               written == parts.password
    <3>1. /\ given \in Seq(Nat) /\ written \in Seq(Nat) /\ inEndpoint \in {written, <<>>}
          /\ password \in Endpoint!DecodePercent(Endpoint!Chosen(given, inEndpoint)) \ {<<>>}
      BY <1>1, <1>2, <1>3
    <3> HIDE DEF given, inEndpoint, written
    <3>2. IF given # <<>> THEN Endpoint!DecodePercent(given) = {password}
          ELSE Percent \notin Endpoint!Range(written) => password = written
      BY <3>1, CredentialDecoded
    <3> QED
      BY <3>2 DEF given, written
  <2>4. Endpoint!CredentialsAsGiven'
    <3>1. Endpoint!Percent = Percent
      BY DEF Endpoint!Percent, Percent
    <3> HIDE DEF endpoint, users, passwords
    <3>2. Endpoint!Given("user")' = options.user /\ Endpoint!Given("password")' = options.password
      BY <1>1, <1>4 DEF Credential
    <3> QED
      BY <1>1, <2>1, <2>2, <2>3, <3>1, <3>2 DEF Endpoint!CredentialsAsGiven
  <2>5. Endpoint!EndpointTakenApart'
    BY <1>1, <1>5, <1>6, <2>1 DEF Endpoint!EndpointTakenApart
  <2>6. OptionsAsWritten'
    BY <1>6, <2>4, <2>5 DEF OptionsAsWritten, Endpoint!OptionsAsWritten, Endpoint!RefusedForCause
  <2> QED
    BY <1>1, <1>6, <2>1, <2>6 DEF OptionsInv
<1>7. ASSUME {} \in {users, passwords}, stage' = "rejected", options' = options
      PROVE  OptionsInv'
  <2>1. Endpoint!RefusedForCause'
    <3> SUFFICES ASSUME command.arguments = <<>>, command.user # <<>>, command.password # <<>>
                 PROVE  {} \in {Endpoint!DecodePercent(command.user),
                                Endpoint!DecodePercent(command.password)}
      BY <1>1 DEF Endpoint!RefusedForCause
    <3>1. options.user = command.user /\ options.password = command.password
      <4>1. ASSUME NEW name
            PROVE  Endpoint!Given(name) = command[name]
        <5>1. DOMAIN command.arguments = {}
          OBVIOUS
        <5> QED
          BY <5>1 DEF Endpoint!Given
      <4> QED
        BY <1>1, <4>1
    <3>2. /\ users = Endpoint!DecodePercent(command.user) \ {<<>>}
          /\ passwords = Endpoint!DecodePercent(command.password) \ {<<>>}
      BY <3>1 DEF Endpoint!Chosen
    <3>3. /\ <<>> \notin Endpoint!DecodePercent(command.user)
          /\ <<>> \notin Endpoint!DecodePercent(command.password)
      BY <1>1, <3>1, DecodesToOne
    <3> HIDE DEF users, passwords
    <3> QED
      BY <1>7, <3>2, <3>3
  <2>2. OptionsAsWritten'
    BY <1>7, <2>1 DEF OptionsAsWritten, Endpoint!OptionsAsWritten, Endpoint!EndpointTakenApart,
                      Endpoint!CredentialsAsGiven
  <2> QED
    BY <1>1, <1>7, <2>2 DEF OptionsInv
<1> QED
  BY <1>6, <1>7 DEF Endpoint!DecodeCredentials

\* Endpoints of every documented form are taken apart as they were written, refused only for
\* what they lack, and credentials are decoded once and come from where they were given last:
\* for any endpoint, any arguments and any length of either.
THEOREM AnyOptionsAsWritten == Endpoint!Spec => []OptionsAsWritten
<1>1. OptionsInv /\ [Endpoint!Next]_Endpoint!vars => OptionsInv'
  <2> SUFFICES ASSUME OptionsInv, [Endpoint!Next]_Endpoint!vars
               PROVE  OptionsInv'
    OBVIOUS
  <2>1. CASE UNCHANGED Endpoint!vars
    <3>1. command' = command /\ stage' = stage /\ position' = position /\ options' = options
      BY <2>1 DEF Endpoint!vars
    <3>2. \A name \in Credential : Endpoint!Given(name)' = Endpoint!Given(name)
      BY <3>1 DEF Endpoint!Given
    <3>3. Endpoint!EndpointTakenApart' <=> Endpoint!EndpointTakenApart
      BY <3>1 DEF Endpoint!EndpointTakenApart
    <3>4. Endpoint!RefusedForCause' <=> Endpoint!RefusedForCause
      BY <3>1 DEF Endpoint!RefusedForCause
    <3>5. Endpoint!CredentialsAsGiven' <=> Endpoint!CredentialsAsGiven
      BY <3>1, <3>2 DEF Endpoint!CredentialsAsGiven, Credential
    <3>6. OptionsAsWritten'
      BY <3>3, <3>4, <3>5 DEF OptionsInv, OptionsAsWritten, Endpoint!OptionsAsWritten
    <3> QED
      BY <3>1, <3>2, <3>6 DEF OptionsInv
  <2> QED
    BY <2>1, ArgumentKeepsOptions, EndpointKeepsOptions, CredentialsKeepOptions DEF Endpoint!Next
<1>2. OptionsInv => OptionsAsWritten
  BY DEF OptionsInv
<1> QED
  BY InitiallyOptions, <1>1, <1>2, PTL DEF Endpoint!Spec
=============================================================================
