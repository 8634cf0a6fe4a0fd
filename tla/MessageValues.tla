---------------------------- MODULE MessageValues ---------------------------
(***************************************************************************)
(* What PHP code sees of the metadata of its Message objects: each object  *)
(* has a value of its own.  A setter changes one entry of one object, and  *)
(* cloning or receiving copies the value.  MessageMetadata implements this *)
(* with sections that objects share until one of them is written.          *)
(***************************************************************************)
CONSTANTS Objects, Delivery, Names, NewValues

VARIABLE value  \* of each object, and of the delivery being handled: "absent",
                \* a "map" with a value at each of some names, or a "list"

Absent == [is |-> "absent"]
Empty == [is |-> "map", at |-> <<>>]

Init == \A object \in Objects : value[object] = Absent

Appear(object) ==
    /\ value[object] = Absent
    /\ \E what \in {Empty} \cup {value[other] : other \in Objects \cup {Delivery}} :
           value' = [value EXCEPT ![object] = what]

Disappear(owner) == value' = [value EXCEPT ![owner] = Absent]

\* A map with one entry set.
Assigned(map, name, new) ==
    [other \in DOMAIN map \cup {name} |-> IF other = name THEN new ELSE map[other]]

Set(object, name, new) ==
    /\ value[object].is = "map"
    /\ value' = [value EXCEPT ![object].at = Assigned(@, name, new)]

Next == \/ \E object \in Objects : Appear(object)
        \/ \E owner \in Objects \cup {Delivery} : Disappear(owner)
        \/ \E object \in Objects, name \in Names, new \in NewValues :
               Set(object, name, new)

Spec == Init /\ [][Next]_value
=============================================================================
