---------------------------- MODULE ValueDecoder ----------------------------
(***************************************************************************)
(* decode_amqp_value (AmqpValueDecoder.cpp) on AMQP values built step by   *)
(* step, and get_metadata_map (Message.cpp), which the setters use on the  *)
(* same values.                                                            *)
(*                                                                         *)
(* A value has a type and, by type, a number "n", a text "t", the value    *)
(* "of" that is described, "items", or "pairs" of a map.  Text is a string *)
(* or, where it is the decimal form of a number, that number.              *)
(***************************************************************************)
EXTENDS Integers, Sequences, SequencesExt

CONSTANTS
    DepthLimit,     \* 32 in the code, of both functions
    MaxSigned,      \* the largest int64
    Leaves,         \* values without parts
    Keys,           \* values used as keys of maps
    Siblings        \* what stands beside a value in a list or a map

VARIABLE value

Text(t) == [is |-> "text", t |-> t]
Decimal(n) == [is |-> "decimal", n |-> n]

NumberTypes == {"byte", "ubyte", "short", "ushort", "int", "uint", "long", "char", "timestamp"}
TextTypes == {"string", "symbol", "binary", "uuid"}
ScalarTypes == {"null", "boolean", "float", "double", "ulong"} \cup NumberTypes \cup TextTypes

Rejected == [type |-> "Rejected"]

\* Nothing is looked at that is nested deeper.
Depths == 0 .. DepthLimit + 1

\* The values directly inside a value.
Children(v) == CASE v.type = "described" -> {v.of}
                 [] v.type \in {"list", "array"} -> Range(v.items)
                 [] v.type = "map" -> {v.pairs[i][1] : i \in DOMAIN v.pairs}
                                          \cup {v.pairs[i][2] : i \in DOMAIN v.pairs}
                 [] OTHER -> {}

\* A value with up to a number of descriptions taken off.
Undescribed(v) ==
    LET bare[count \in Depths] ==
            IF count = 0 THEN v
            ELSE IF bare[count - 1].type = "described" THEN bare[count - 1].of
            ELSE bare[count - 1]
    IN bare

\* The values nested so deep in a value.
Level(v) ==
    LET level[depth \in Depths] ==
            IF depth = 0 THEN {v} ELSE UNION {Children(other) : other \in level[depth - 1]}
    IN level

-----------------------------------------------------------------------------
\* The check at the entry; wrong: one level too few.
TooDeepAtLimit(depth) == depth >= DepthLimit
TooDeep(depth) == depth > DepthLimit

\* AMQP_TYPE_ULONG; wrong: cast to int64_t without the check.
CastUnsigned(n) == [type |-> "Integer",
                    n |-> IF n > MaxSigned THEN n - 2 * (MaxSigned + 1) ELSE n]
DecodeUnsigned(n) == IF n > MaxSigned THEN [type |-> "String", t |-> Decimal(n)]
                     ELSE [type |-> "Integer", n |-> n]

\* The name of a decoded key, or a set without any.
NameOf(key) == CASE key.type = "String" -> {key.t}
                 [] key.type = "Integer" -> {Decimal(key.n)}
                 [] OTHER -> {}

\* A list of decoded items.
DecodeList(items) ==
    IF \E i \in DOMAIN items : items[i] = Rejected THEN Rejected
    ELSE [type |-> "List", list |-> items]

\* A map of decoded keys and items: result.map[name] = item, pair by pair, so that the
\* last one with a name counts.
LastNamed(keys, name) ==
    CHOOSE i \in DOMAIN keys : /\ name \in NameOf(keys[i])
                              /\ \A j \in DOMAIN keys : j > i => name \notin NameOf(keys[j])
DecodeMap(keys, items) ==
    IF \E i \in DOMAIN keys : Rejected \in {keys[i], items[i]} \/ NameOf(keys[i]) = {}
    THEN Rejected
    ELSE [type |-> "Map",
          map |-> [name \in UNION {NameOf(keys[i]) : i \in DOMAIN keys} |->
                       items[LastNamed(keys, name)]]]

\* One call, on a value that is not too deep, given what the calls it makes return.
DecodeOne(v, part) ==
    CASE v.type = "null" -> [type |-> "Null"]
      [] v.type \in {"boolean", "float", "double"} -> [type |-> "Scalar", of |-> v]
      [] v.type \in NumberTypes -> [type |-> "Integer", n |-> v.n]
      [] v.type = "ulong" -> DecodeUnsigned(v.n)
      [] v.type \in TextTypes -> [type |-> "String", t |-> v.t]
      [] v.type = "described" -> part[v.of]
      [] v.type \in {"list", "array"} -> DecodeList([i \in DOMAIN v.items |-> part[v.items[i]]])
      [] v.type = "map" -> DecodeMap([i \in DOMAIN v.pairs |-> part[v.pairs[i][1]]],
                                     [i \in DOMAIN v.pairs |-> part[v.pairs[i][2]]])
      [] OTHER -> Rejected

\* The calls at each depth, on the values nested so deep; no call is deeper than the one
\* that rejects what it is given.
Calls(v) ==
    LET calls[depth \in Depths] ==
            [other \in Level(v)[depth] |->
                 IF TooDeep(depth) THEN Rejected ELSE DecodeOne(other, calls[depth + 1])]
    IN calls
Decode(v) == Calls(v)[0][v]

\* How many descriptions get_metadata_map takes off; wrong: one too few.
OneLessStripped == DepthLimit - 1
Stripped == DepthLimit

GetMetadataMap(v) ==
    LET map == Undescribed(v)[Stripped] IN IF map.type = "map" THEN map ELSE Rejected

-----------------------------------------------------------------------------
(* The inputs. *)

Init == value \in Leaves \cup {[type |-> "map", pairs |-> <<>>], [type |-> "list", items |-> <<>>]}

Describe == value' = [type |-> "described", of |-> value]

PutInList == \/ value' = [type |-> "array", items |-> <<value>>]
             \/ \E sibling \in Siblings : value' = [type |-> "list", items |-> <<sibling, value>>]

PutInMap == \E key, otherKey \in Keys, sibling \in Siblings :
                value' = [type |-> "map", pairs |-> <<<<otherKey, sibling>>, <<key, value>>>>]

UseAsKey == \E sibling \in Siblings : value' = [type |-> "map", pairs |-> <<<<value, sibling>>>>]

Next == Describe \/ PutInList \/ PutInMap \/ UseAsKey

Spec == Init /\ [][Next]_value

-----------------------------------------------------------------------------
(* Properties. *)

\* The text a key stands for, if it is text or an integer.
KeyText(key) == LET bare == Undescribed(key)[DepthLimit]
                IN CASE bare.type \in TextTypes -> {bare.t}
                     [] bare.type \in NumberTypes \cup {"ulong"} -> {Decimal(bare.n)}
                     [] OTHER -> {}

\* A value is rejected exactly when something in it is nested more than DepthLimit
\* deep, is of no known type, or is a key that is neither text nor an integer.
RejectsExactly ==
    (Decode(value) = Rejected) <=>
        \E depth \in Depths : \E v \in Level(value)[depth] :
            \/ depth > DepthLimit
            \/ v.type = "composite"
            \/ v.type = "map" /\ \E i \in DOMAIN v.pairs : KeyText(v.pairs[i][1]) = {}

\* What a decoded value keeps of a value: not the keys of a map, and of items with keys
\* that stand for the same text the last.
Kept(v) ==
    IF v.type = "map"
    THEN {v.pairs[i][2] : i \in {j \in DOMAIN v.pairs :
              \A k \in DOMAIN v.pairs :
                  k > j => KeyText(v.pairs[k][1]) \cap KeyText(v.pairs[j][1]) = {}}}
    ELSE Children(v)
KeptLevel(v) ==
    LET level[depth \in Depths] ==
            IF depth = 0 THEN {v} ELSE UNION {Kept(other) : other \in level[depth - 1]}
    IN level
Numbers(v) ==
    {other.n : other \in {kept \in UNION {KeptLevel(v)[depth] : depth \in 0 .. DepthLimit} :
                              kept.type \in NumberTypes \cup {"ulong"}}}

\* What a decoded value shows.
Shown(decoded) == CASE decoded.type = "List" -> Range(decoded.list)
                    [] decoded.type = "Map" -> Range(decoded.map)
                    [] OTHER -> {}
ShownLevel(decoded) ==
    LET level[depth \in Depths] ==
            IF depth = 0 THEN {decoded} ELSE UNION {Shown(other) : other \in level[depth - 1]}
    IN level
NumberShown(decoded) == CASE decoded.type = "Integer" /\ decoded.n <= MaxSigned -> {decoded.n}
                          [] decoded.type = "String" /\ decoded.t.is = "decimal" -> {decoded.t.n}
                          [] OTHER -> {}
NumbersShown(decoded) ==
    UNION {UNION {NumberShown(shown) : shown \in ShownLevel(decoded)[depth]} :
               depth \in 0 .. DepthLimit}

\* "unsigned integers outside the PHP integer range are preserved (the latter as
\* decimal strings)": every number a value holds can be read off its decoded form,
\* as an integer PHP can represent or as decimal text, also inside maps, unless a
\* later key stands for the same text.
KeepsNumbers == Decode(value) # Rejected => Numbers(value) \subseteq NumbersShown(Decode(value))

\* A section whose entries the getters show is one the setters can change.
ShownMeansSettable == Decode(value).type = "Map" => GetMetadataMap(value) # Rejected
=============================================================================
