----------------------------- MODULE MessageBody ----------------------------
(***************************************************************************)
(* The body of Message objects (Message.cpp): the sections of the native   *)
(* message, which are what is sent, and the decoded text that getBody      *)
(* keeps.  A text is a sequence of pieces; "nl" is the newline.            *)
(***************************************************************************)
EXTENDS Naturals, Sequences, SequencesExt

CONSTANTS
    Objects,
    Texts,      \* of one section, as text
    MaxParts    \* bound: sections of a body

VARIABLES
    message,    \* of each object
    delivery    \* the sections of the message lent to the callback

vars == <<message, delivery>>

Types == {"none", "data", "value", "sequence"}
NoMessage == [exists |-> FALSE]

\* A native body, as far as uAMQP allows it.
Bodies == {[type |-> "none", parts |-> <<>>]}
          \cup [type : {"value"}, parts : {<<text>> : text \in Texts}]
          \cup [type : {"data", "sequence"}, parts : BoundedSeq(Texts, MaxParts) \ {<<>>}]

\* message_create and message_clone: nothing is decoded.
Holding(native) == [exists |-> TRUE, native |-> native, body |-> <<>>, bodyDecoded |-> FALSE,
                    rebuilt |-> FALSE] \* history: __construct found sections there already

TypeOK ==
    /\ delivery \in Bodies
    /\ \A object \in Objects :
           \/ message[object] = NoMessage
           \/ /\ message[object].native \in Bodies
              /\ message[object].body \in Seq(UNION {Range(text) : text \in Texts} \cup {"nl"})
              /\ message[object].bodyDecoded \in BOOLEAN
              /\ message[object].rebuilt \in BOOLEAN

Init == /\ message = [object \in Objects |-> NoMessage]
        /\ delivery \in Bodies

-----------------------------------------------------------------------------
\* new Message, before __construct, which a subclass need not call.
New(object) ==
    /\ ~message[object].exists
    /\ message' = [message EXCEPT ![object] = Holding([type |-> "none", parts |-> <<>>])]
    /\ UNCHANGED delivery

\* clone, and a received message.
Clone(object, source) ==
    /\ ~message[object].exists /\ message[source].exists
    /\ message' = [message EXCEPT ![object] = Holding(message[source].native)]
    /\ UNCHANGED delivery

Receive(object) ==
    /\ ~message[object].exists
    /\ message' = [message EXCEPT ![object] = Holding(delivery)]
    /\ UNCHANGED delivery

Destroy(object) ==
    /\ message[object].exists
    /\ message' = [message EXCEPT ![object] = NoMessage]
    /\ UNCHANGED delivery

\* message_add_body_amqp_data, which refuses a body of another type.
AddData(native, text) ==
    IF native.type \in {"none", "data"}
    THEN [type |-> "data", parts |-> Append(native.parts, text)] ELSE native

\* __construct: setBody, which ignores a refusal.
SetBody(object, text) ==
    LET old == message[object]
    IN /\ old.exists
       /\ Len(old.native.parts) < MaxParts
       /\ message' = [message EXCEPT ![object] =
                          [old EXCEPT !.body = text, !.bodyDecoded = TRUE,
                                      !.native = AddData(old.native, text),
                                      !.rebuilt = old.rebuilt \/ old.native.parts # <<>>]]
       /\ UNCHANGED delivery

\* The text getBody begins with; wrong: what an earlier call that failed has left.
LeftOver(object) == message[object].body
Cleared(object) == <<>>

\* The text after the first "count" sections.
Read(object, count) ==
    LET native == message[object].native
        text[index \in 0 .. count] ==
            IF index = 0 THEN Cleared(object)
            ELSE text[index - 1] \o (IF native.type = "sequence" /\ index > 1 THEN <<"nl">> ELSE <<>>)
                                 \o native.parts[index]
    IN text[count]

\* getBody: the cached text, or all sections; reading one of them may fail, and then
\* getBody throws.
GetBody(object) ==
    /\ message[object].exists
    /\ ~message[object].bodyDecoded
    /\ LET all == Len(message[object].native.parts)
       IN \E count \in 0 .. all, failed \in BOOLEAN :
              /\ ~failed => count = all
              /\ message' = [message EXCEPT ![object].body = Read(object, count),
                                            ![object].bodyDecoded = ~failed]
    /\ UNCHANGED delivery

Next == \E object \in Objects :
            \/ New(object)
            \/ \E source \in Objects : Clone(object, source)
            \/ Receive(object)
            \/ Destroy(object)
            \/ \E text \in Texts : SetBody(object, text)
            \/ GetBody(object)

Spec == Init /\ [][Next]_vars

-----------------------------------------------------------------------------
(* Properties. *)

\* docs/INSTALL.md, "Message body types": data sections concatenated, sequences
\* separated by newlines.
Documented(native) ==
    LET Separator(i) == IF native.type = "sequence" /\ i # Len(native.parts) THEN <<"nl">> ELSE <<>>
    IN FlattenSeq([i \in DOMAIN native.parts |-> native.parts[i] \o Separator(i)])

\* What getBody returns, from its cache or not, after failures, on clones and on
\* received messages, is the text of what is sent, as the documentation describes
\* it.  An object that __construct is called on again, or on a received message, is
\* the exception.
BodyIsWhatIsSent ==
    \A object \in Objects :
        message[object].exists =>
            (message[object].bodyDecoded /\ ~message[object].rebuilt
             => message[object].body = Documented(message[object].native))
=============================================================================
