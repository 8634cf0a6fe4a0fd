----------------------------- MODULE Publisher ------------------------------
(***************************************************************************)
(* Producer::publish over a sequence of calls (Producer.cpp): the counters *)
(* the whole process shares, the callbacks of the message sender and of    *)
(* the link, which run inside Connection::doWork, and the cleanup.  What   *)
(* becomes of the native objects is the subject of ConnectionLifecycle.    *)
(***************************************************************************)
EXTENDS Naturals

VARIABLES
    phase,      \* "idle", "loop", "dispatch", "destroy", "close" or "unwound"
    statics,    \* the file's variables, the message text by whether it is empty
    outbox,     \* the sender's message: "none", "sending" or its MESSAGE_SEND_RESULT
    attached,   \* the peer has not sent DETACH
    consumer,   \* of an earlier run on the connection: "none", "finished" or "pending",
                \* when it keeps an exception
    seen,       \* history: what was reported to this call
    result      \* of the last call: "none", "returned" or "threw"

vars == <<phase, statics, outbox, attached, consumer, seen, result>>

Results == {"ok", "error", "timeout", "cancelled"}

TypeOK ==
    /\ phase \in {"idle", "loop", "dispatch", "destroy", "close", "unwound"}
    /\ statics \in [sent_messages : 0 .. 1, producerStopRunning : BOOLEAN, text : BOOLEAN]
    /\ outbox \in {"none", "sending"} \cup Results
    /\ attached \in BOOLEAN
    /\ consumer \in {"none", "finished", "pending"}
    /\ seen \subseteq {"completed", "detached", "ioFailed"}
    /\ result \in {"none", "returned", "threw"}

\* The statics when publish begins; wrong: the text of the last DETACH is kept.
KeepsText == [statics EXCEPT !.sent_messages = 0, !.producerStopRunning = FALSE]
Cleared == [sent_messages |-> 0, producerStopRunning |-> FALSE, text |-> FALSE]

Init ==
    /\ phase = "idle"
    /\ statics = [sent_messages |-> 0, producerStopRunning |-> FALSE, text |-> FALSE]
    /\ outbox = "none" /\ attached = TRUE /\ consumer = "none"
    /\ seen = {} /\ result = "none"

-----------------------------------------------------------------------------
\* publish up to its loop; what messagesender_send_async returns is ignored.  The
\* connection may have been left open by a run, with its consumer.
Publish ==
    /\ phase = "idle"
    /\ statics' = Cleared
    /\ seen' = {}
    /\ attached' = TRUE
    /\ consumer' \in IF consumer = "none" THEN {"none", "finished"} ELSE {consumer}
    /\ \/ phase' = "loop" /\ outbox' \in {"sending", "none"} /\ result' = "none"
       \/ phase' = "idle" /\ outbox' = "none" /\ result' = "threw" \* messagesender_open fails

DoWork ==
    /\ phase = "loop"
    /\ phase' = "dispatch"
    /\ UNCHANGED <<statics, outbox, attached, consumer, seen, result>>

\* on_message_send_complete: whatever the result, the message counts.
OnMessageSendComplete(send_result) ==
    /\ phase = "dispatch"
    /\ outbox = "sending"
    /\ outbox' = send_result
    /\ statics' = [statics EXCEPT !.sent_messages = @ + 1]
    /\ seen' = seen \cup {"completed"}
    /\ UNCHANGED <<phase, attached, consumer, result>>

\* on_link_detach_received_producer with an error that has all its fields.
OnLinkDetachReceived ==
    /\ phase = "dispatch"
    /\ attached
    /\ attached' = FALSE
    /\ statics' = [statics EXCEPT !.producerStopRunning = TRUE, !.text = TRUE]
    /\ seen' = seen \cup {"detached"}
    /\ UNCHANGED <<phase, outbox, consumer, result>>

\* The same without an error, or without one of its fields: std::string is made
\* from NULL, which libstdc++ answers by an exception, inside connection_dowork.
OnIncompleteDetachReceived ==
    /\ phase = "dispatch"
    /\ attached
    /\ attached' = FALSE
    /\ phase' = "unwound"
    /\ UNCHANGED <<statics, outbox, consumer, seen, result>>

\* onIoError: a consumer that finished still keeps the exception; nothing else tells
\* publish of it.
OnIoError ==
    /\ phase = "dispatch"
    /\ seen' = seen \cup {"ioFailed"}
    /\ consumer' = IF consumer = "none" THEN "none" ELSE "pending"
    /\ UNCHANGED <<phase, statics, outbox, attached, result>>

\* Whether the loop ends after a dispatch; wrong: it waits for one message too many.
WaitsForTwo == statics.sent_messages > 1 \/ statics.producerStopRunning
LoopDone == statics.sent_messages = 1 \/ statics.producerStopRunning

DispatchEnds ==
    /\ phase = "dispatch"
    /\ phase' = IF LoopDone THEN "destroy" ELSE "loop"
    /\ UNCHANGED <<statics, outbox, attached, consumer, seen, result>>

\* messagesender_destroy cancels a message it still has, and reports it so.
DestroySender ==
    /\ phase = "destroy"
    /\ IF outbox = "sending"
       THEN outbox' = "cancelled" /\ statics' = [statics EXCEPT !.sent_messages = @ + 1]
       ELSE UNCHANGED <<outbox, statics>>
    /\ phase' = "close"
    /\ UNCHANGED <<attached, consumer, seen, result>>

\* link_destroy, Connection::close, which deletes the consumer and throws what it
\* keeps, and the text, if there is one.
CloseConnection ==
    /\ phase = "close"
    /\ result' = IF consumer = "pending" \/ statics.text THEN "threw" ELSE "returned"
    /\ consumer' = "none"
    /\ phase' = "idle"
    /\ UNCHANGED <<statics, outbox, attached, seen>>

Unwound == phase = "unwound" /\ UNCHANGED vars

Next == \/ Publish
        \/ DoWork
        \/ \E send_result \in Results : OnMessageSendComplete(send_result)
        \/ OnLinkDetachReceived
        \/ OnIncompleteDetachReceived
        \/ OnIoError
        \/ DispatchEnds
        \/ DestroySender
        \/ CloseConnection
        \/ Unwound

\* The thread of publish runs on; what the network reports, and when, is not assumed.
Fairness == WF_vars(DoWork \/ DispatchEnds \/ DestroySender \/ CloseConnection)

Spec == Init /\ [][Next]_vars /\ Fairness

-----------------------------------------------------------------------------
(* Properties. *)

Contract == INSTANCE SendContract
            WITH stage <- IF phase \in {"idle", "unwound"} THEN phase ELSE "waiting"

\* publish is judged by what was reported to that call alone: the counters and the
\* text, which outlive a call, carry nothing over to the next.
KeepsContract == Contract!Spec

\* Once the completion or a DETACH has been reported publish comes to its end, in
\* whatever order the two arrive and in whatever dispatch; an I/O error alone does
\* not end it.
AnsweredSendEnds == seen \cap {"completed", "detached"} # {} ~> phase \in {"idle", "unwound"}

\* "All unique IDs completed" (tests/receiver-broker-test.php): a message whose
\* publish has returned was taken by the broker.
PublishedMeansAccepted == result = "returned" => outbox = "ok"

\* "Never unwind a PHP/C++ exception through the C library's callback stack."
\* (Consumer.cpp)
NeverUnwindsThroughLibrary == phase # "unwound"
=============================================================================
