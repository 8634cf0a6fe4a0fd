------------------------------ MODULE MCMessage ------------------------------
(* Two PHP objects, which are interchangeable, and the delivery.  Metadata and  *)
(* body never meet, so that a behaviour is about one of them: "part" is a       *)
(* section of the metadata, or "body".  Bodies have up to three sections.       *)
EXTENDS MessageMetadata, TLC

CONSTANTS Texts, MaxParts

ASSUME TextsAssumption == \A text \in Texts : text \in Seq(Range(text))
ASSUME MaxPartsAssumption == MaxParts \in Nat

VARIABLES message, delivery

Body == INSTANCE MessageBody

MCCalls == {[name |-> <<"k">>, letter |-> "I", number |-> 3, text |-> <<>>],
            [name |-> <<"k">>, letter |-> "S", number |-> 0, text |-> <<"b">>],
            [name |-> <<"k", "nul", "l">>, letter |-> "S", number |-> 0,
             text |-> <<"a", "nul", "b">>]}
MCKeys == {<<"string", <<"k">>>>, <<"symbol", <<"k">>>>, <<"symbol", <<"l">>>>}
MCDelivered == {entries \in BoundedSeq({Entry(key, Brought) : key \in MCKeys}, 2) :
                    \A i, j \in DOMAIN entries : i # j => entries[i] # entries[j]}
MCTexts == {<<>>, <<"a">>}
Symmetry == Permutations(Objects)

MCInit == \/ /\ Init
             /\ message = [object \in Objects |-> Body!NoMessage]
             /\ delivery = [type |-> "none", parts |-> <<>>]
          \/ /\ part = "body"
             /\ section = [owner \in Owners |-> NoMessage]
             /\ heap = <<>>
             /\ set = [object \in Objects |-> Unset]
             /\ Body!Init

MCNext == \/ part # "body" /\ Next /\ UNCHANGED <<message, delivery>>
          \/ part = "body" /\ Body!Next /\ UNCHANGED vars

MCSpec == MCInit /\ [][MCNext]_<<vars, message, delivery>>

\* What getBody returns is what is sent (see MessageBody).
BodyIsWhatIsSent == Body!BodyIsWhatIsSent
=============================================================================
