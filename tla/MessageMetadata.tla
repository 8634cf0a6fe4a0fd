--------------------------- MODULE MessageMetadata --------------------------
(***************************************************************************)
(* The metadata of Message objects (Message.cpp): the sections of a native *)
(* message are reference-counted values, which clone and setMessageHandler *)
(* share and the setters copy before they write.  The three sections never *)
(* meet, so a behaviour is about one of them, "part".                      *)
(*                                                                         *)
(* A section is kept at an address of "heap"; the addresses owners refer   *)
(* to are in use, and no others, which is what the reference counts        *)
(* achieve.  An entry of a map has a key, of some AMQP type, and a value.  *)
(*                                                                         *)
(* A text is a sequence of pieces, of which "nul" is the NUL character: the *)
(* setters pass c_str() on, which ends there.  A value has a number or a   *)
(* text, as its type letter says; a call has what PHP itself converts its  *)
(* argument to for that letter, a 64-bit integer for I, T and L.           *)
(***************************************************************************)
EXTENDS Integers, Sequences, FiniteSets, SequencesExt

CONSTANTS
    Objects,    \* PHP objects
    Delivered,  \* the entries of maps that deliveries bring
    Calls,      \* what setters are called with: a name, a type letter and a value
    Pieces,     \* what texts are made of
    Int32Limit  \* 2^31

VARIABLES
    part,       \* "application_properties", "message_annotations" or "properties"
    section,    \* of each owner: an address, Null, or NoMessage
    heap,       \* from the addresses in use to what is stored there
    set         \* history: what the last setter was given for each object, or Unset

vars == <<part, section, heap, set>>

Delivery == "delivery" \* the message the native receiver lends to the callback
Owners == Objects \cup {Delivery}
Null == 0
NoMessage == -1
Map(entries) == [kind |-> "map", entries |-> entries]
Described(inner) == [kind |-> "described", inner |-> inner]
Properties(entries) == [kind |-> "properties", entries |-> entries]
List == [kind |-> "list"]

Text == Seq(Pieces)
Call == [name : Text, letter : {"I", "S", "T", "D", "L", "B"}, number : Int, text : Text]
Kept == [number : Int, text : Text]
Entry(key, value) == [key |-> key, value |-> value]
Entries == [key : {"string", "symbol"} \X Text, value : Kept]
Unset == [name |-> <<>>, letter |-> "none", number |-> 0, text |-> <<>>]

ASSUME ObjectsAssumption == Delivery \notin Objects
ASSUME PiecesAssumption == {"id", "to"} \subseteq Pieces
ASSUME CallsAssumption == Calls \subseteq Call
ASSUME Int32Assumption == Int32Limit \in Nat \ {0}
\* AMQP has no map with the same key twice.
ASSUME DeliveredAssumption ==
    /\ Delivered \subseteq Seq(Entries)
    /\ \A entries \in Delivered :
           \A i, j \in DOMAIN entries : entries[i].key = entries[j].key => i = j

\* The value an address describes, if it does; described values nest at most twice here.
Inner(memory, address) ==
    IF memory[address].kind = "described" THEN memory[address].inner ELSE address
Inside(memory, address) == Inner(memory, Inner(memory, address))
Chain(memory, address) == {address, Inner(memory, address), Inside(memory, address)}

Collected(memory, sections) ==
    Restrict(memory, UNION {Chain(memory, sections[owner]) :
                            owner \in {holder \in Owners : sections[holder] \in DOMAIN memory}})

TypeOK ==
    /\ part \in {"application_properties", "message_annotations", "properties"}
    /\ section \in [Owners -> DOMAIN heap \cup {Null, NoMessage}]
    /\ set \in [Objects -> Call \cup {Unset}]
    /\ DOMAIN heap \subseteq Nat \ {0}
    /\ \A address \in DOMAIN heap :
           heap[address] \in [kind : {"described"}, inner : DOMAIN heap] \cup {List}
                                 \cup [kind : {"map", "properties"}, entries : Seq(Entries)]

\* The fields of properties, by their names.
MessageId == <<"string", <<"id">>>>
To == <<"string", <<"to">>>>
Brought == [number |-> 0, text |-> <<>>]

\* A delivery brings a bare or described map, once or twice, or what is no map.
Nested(what, depth) ==
    [address \in 1 .. depth + 1 |-> IF address <= depth THEN Described(address + 1) ELSE what]

Init ==
    /\ \/ /\ part = "properties"
          /\ \E id \in {<<>>, <<Entry(MessageId, Brought)>>} :
                 heap \in {<<>>, <<Properties(Append(id, Entry(To, Brought)))>>}
       \/ /\ part \in {"application_properties", "message_annotations"}
          /\ \E what \in {List} \cup {Map(entries) : entries \in Delivered}, depth \in 0 .. 2 :
                 heap \in {<<>>, Nested(what, depth)}
    /\ section = [owner \in Owners |-> IF owner # Delivery THEN NoMessage
                                       ELSE IF heap = <<>> THEN Null ELSE 1]
    /\ set = [object \in Objects |-> Unset]

-----------------------------------------------------------------------------
\* new Message, setMessageHandler of the delivery, and clone.
New(object) ==
    /\ section[object] = NoMessage
    /\ section' = [section EXCEPT ![object] = Null]
    /\ UNCHANGED <<part, heap, set>>

SetMessageHandler(object, source) ==
    /\ section[object] = NoMessage /\ section[source] # NoMessage
    /\ section' = [section EXCEPT ![object] = section[source]]
    /\ set' = IF source = Delivery THEN set ELSE [set EXCEPT ![object] = set[source]]
    /\ heap' = Collected(heap, section')
    /\ UNCHANGED part

\* ~Message, and the end of the callback for the delivery.
Destroy(owner) ==
    /\ section[owner] # NoMessage
    /\ section' = [section EXCEPT ![owner] = NoMessage]
    /\ set' = [object \in Objects |-> IF object = owner THEN Unset ELSE set[object]]
    /\ heap' = Collected(heap, section')
    /\ UNCHANGED part

-----------------------------------------------------------------------------
(* set_metadata and setMessageId. *)

\* A C string of a text: up to the first NUL.
UpToNul(text) ==
    LET nul == SelectInSeq(text, LAMBDA piece : piece = "nul")
    IN IF nul = 0 THEN text ELSE SubSeq(text, 1, nul - 1)

\* static_cast<int32_t>
Narrowed(number) == ((number + Int32Limit) % (2 * Int32Limit)) - Int32Limit

\* What becomes of a value: letter I has 32 bits, T and L all 64.
Converted(call) ==
    [number |-> IF call.letter = "I" THEN Narrowed(call.number) ELSE call.number,
     text |-> UpToNul(call.text)]

\* copy_metadata_container without the replaced key, and the new entry behind it;
\* wrong: the entry is replaced where it stands.
ReplacedInPlace(entries, key, value) ==
    IF \E i \in DOMAIN entries : entries[i].key = key
    THEN [i \in DOMAIN entries |-> IF entries[i].key = key THEN Entry(key, value) ELSE entries[i]]
    ELSE Append(entries, Entry(key, value))
Copied(entries, key) ==
    LET copied[count \in 0 .. Len(entries)] ==
            IF count = 0 THEN <<>>
            ELSE IF entries[count].key = key THEN copied[count - 1]
            ELSE Append(copied[count - 1], entries[count])
    IN copied[Len(entries)]
CopiedAndSet(entries, key, value) == Append(Copied(entries, key), Entry(key, value))

\* An address that is not in use.
Fresh(used) == CHOOSE address \in 1 .. Cardinality(used) + 1 : address \notin used

\* Where a setter writes; wrong: into the container it was given.
WhereItStands(object) ==
    IF section[object] = Null THEN Fresh(DOMAIN heap) ELSE Inside(heap, section[object])
IntoACopy(object) == Fresh(DOMAIN heap)

\* Whether the section is stored inside a description; wrong: always.
WrapsBoth == part # "properties"
WrapsAnnotations == part = "message_annotations"

\* The section of an object becomes a copy in which the key has a value.
Write(object, key, value) ==
    LET old == IF section[object] = Null THEN Map(<<>>)
               ELSE heap[Inside(heap, section[object])]
        where == IntoACopy(object)
        container == [kind |-> IF part = "properties" THEN "properties" ELSE "map",
                      entries |-> CopiedAndSet(old.entries, key, value)]
        root == IF WrapsAnnotations THEN Fresh(DOMAIN heap \cup {where}) ELSE where
    IN /\ section[object] # NoMessage
       /\ old.kind # "list" \* otherwise the setter throws, and nothing has changed
       /\ section' = [section EXCEPT ![object] = root]
       /\ heap' = Collected([address \in DOMAIN heap \cup {where, root} |->
                                 IF address = where THEN container
                                 ELSE IF address = root THEN Described(where)
                                 ELSE heap[address]], section')
       /\ UNCHANGED part

\* The key that a name becomes.
KeyType == IF part = "message_annotations" THEN "symbol" ELSE "string"
KeyOf(name) == <<KeyType, UpToNul(name)>>

SetMetadata(object, call) ==
    /\ part # "properties"
    /\ Write(object, KeyOf(call.name), Converted(call))
    /\ set' = [set EXCEPT ![object] = call]

SetMessageId(object, call) ==
    /\ part = "properties" /\ call.letter = "S"
    /\ Write(object, MessageId, Converted(call))
    /\ set' = [set EXCEPT ![object] = [call EXCEPT !.name = MessageId[2]]]

Next == \/ \E object \in Objects : New(object)
        \/ \E object \in Objects, source \in Owners : SetMessageHandler(object, source)
        \/ \E owner \in Owners : Destroy(owner)
        \/ \E object \in Objects, call \in Calls :
               SetMetadata(object, call) \/ SetMessageId(object, call)

Spec == Init /\ [][Next]_vars

-----------------------------------------------------------------------------
(* Properties. *)

\* What getApplicationProperties, getMessageAnnotations and getMessageId show: an
\* entry per name, whatever the type of its key, the last one where there are
\* several (see ValueDecoder).
IsLast(entries, name, i) ==
    /\ entries[i].key[2] = name
    /\ \A j \in DOMAIN entries : entries[j].key[2] = name => j <= i
Shown(entries) ==
    [name \in {entries[i].key[2] : i \in DOMAIN entries} |->
        entries[CHOOSE i \in DOMAIN entries : IsLast(entries, name, i)].value]
Decoded(owner) ==
    CASE section[owner] = NoMessage -> [is |-> "absent"]
      [] section[owner] = Null -> [is |-> "map", at |-> <<>>]
      [] OTHER -> LET what == heap[Inside(heap, section[owner])]
                  IN IF what.kind = "list" THEN [is |-> "list"]
                     ELSE [is |-> "map", at |-> Shown(what.entries)]

Values == INSTANCE MessageValues
          WITH value <- [owner \in Owners |-> Decoded(owner)],
               Names <- {UpToNul(call.name) : call \in Calls} \cup {MessageId[2]},
               NewValues <- {Converted(call) : call \in Calls}

\* "setters do not change another PHP clone or the borrowed delivery": every object
\* acts as if it had a copy of its own, of which a setter changes one entry.
ActsAsValues == Values!Spec

\* A setter stores all of its arguments.
StoredWhole(call) ==
    /\ call.letter = "I" => call.number \in -Int32Limit .. Int32Limit - 1
    /\ \A text \in {call.name, call.text} : \A i \in DOMAIN text : text[i] # "nul"

\* A getter returns what the last setter was given, on clones too, and also over a
\* delivery that has the name already, under a key of another type: the whole of it
\* where it fits, and otherwise the low 32 bits of a number for letter I and what a
\* name and a text have before a NUL.
ReadsBackWhatWasSet ==
    \A object \in Objects :
        set[object] # Unset =>
            LET call == set[object]
                shown == Decoded(object).at
            IN /\ shown[UpToNul(call.name)] = Converted(call)
               /\ StoredWhole(call)
                     => shown[call.name] = [number |-> call.number, text |-> call.text]

\* "Keep exactly one annotations section around the underlying map": what a setter
\* stores is described once for annotations and not at all for the others, whatever
\* the delivery looked like.
WrappedOnce ==
    \A object \in Objects :
        set[object] # Unset =>
            IF part = "message_annotations"
            THEN /\ heap[section[object]].kind = "described"
                 /\ heap[heap[section[object]].inner].kind = "map"
            ELSE heap[section[object]].kind \in {"map", "properties"}
=============================================================================
