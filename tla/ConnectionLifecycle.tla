------------------------- MODULE ConnectionLifecycle -------------------------
(***************************************************************************)
(* The life of one Connection object over any number of calls: connect     *)
(* and its partial failures, publish, receiving runs, close called from    *)
(* anywhere, and the destructor (Connection.cpp, Session.cpp, and the      *)
(* handles of Producer.cpp and Consumer.cpp).                              *)
(*                                                                         *)
(* "held" is the set of native objects a variable of the program points    *)
(* to, by kind; a kind is "lost" when such a variable is overwritten or    *)
(* goes out of scope while the object exists; so is a reference to the     *)
(* platform that close does not give back.  What is lost is never          *)
(* destroyed.  A receiving run, the subject of module Receiver, appears    *)
(* here by what it does to the connection.                                 *)
(***************************************************************************)
EXTENDS Naturals, Sequences

VARIABLES
    tls, auth,      \* useTls, and whether keyName and key are given
    phase,          \* whose code runs next
    call,           \* the PHP call under way
    conn,           \* Connection's flags
    consumer,       \* "none", "running" or "finished"
    pending,        \* the consumer keeps an exception
    raised,         \* consume has thrown into the loop function
    held, lost,
    step,           \* next step of the teardown
    logger,         \* loggerConfigured, which the whole process shares
    failures,       \* history: what has failed, "connect" or "publish", so far
    leftover,       \* history: the last connect failed, and no close since
    swallowed       \* history: since connect, a loop function caught an exception
                    \* of consume and returned

history == <<failures, leftover, swallowed>>
vars == <<tls, auth, phase, call, conn, consumer, pending, raised, held, lost, step, logger,
          history>>

ReceiverKinds == {"receiver_link", "message_receiver"}
SenderKinds == {"sender_link", "message_sender"}
Kinds == {"tls_io", "socket_io", "sasl_mechanism", "sasl_io", "connection", "session"}
             \cup ReceiverKinds \cup SenderKinds

\* What connect builds, and what each object is built on.
socket == IF tls THEN "tls_io" ELSE "socket_io"
transport == IF auth THEN "sasl_io" ELSE socket
Io == {socket} \cup IF auth THEN {"sasl_mechanism", "sasl_io"} ELSE {}
Base(kind) == CASE kind = "sasl_io" -> {socket, "sasl_mechanism"}
                [] kind = "connection" -> {transport}
                [] kind = "session" -> {"connection"}
                [] kind \in {"receiver_link", "sender_link"} -> {"session"}
                [] kind = "message_receiver" -> {"receiver_link"}
                [] kind = "message_sender" -> {"sender_link"}
                [] OTHER -> {}

TypeOK ==
    /\ tls \in BOOLEAN /\ auth \in BOOLEAN
    /\ phase \in {"script", "connect", "register", "run", "sender", "send", "teardown", "gone"}
    /\ call \in {"none", "publish", "setCallback", "close", "destruct"}
    /\ conn \in [isConnected : BOOLEAN, closeRequested : BOOLEAN, platformInitialized : BOOLEAN,
                 doingWork : BOOLEAN, receiverRunActive : BOOLEAN, ioError : BOOLEAN]
    /\ consumer \in {"none", "running", "finished"}
    /\ pending \in BOOLEAN /\ raised \in BOOLEAN /\ logger \in BOOLEAN
    /\ held \subseteq Kinds
    /\ lost \subseteq {"platform"} \cup (Kinds \ ({"session"} \cup ReceiverKinds))
    /\ step \in 1 .. 9
    /\ failures \subseteq {"connect", "publish"}
    /\ leftover \in BOOLEAN /\ swallowed \in BOOLEAN

Init ==
    /\ tls \in BOOLEAN /\ auth \in BOOLEAN
    /\ phase = "script" /\ call = "none"
    /\ conn = [isConnected |-> FALSE, closeRequested |-> FALSE, platformInitialized |-> FALSE,
               doingWork |-> FALSE, receiverRunActive |-> FALSE, ioError |-> FALSE]
    /\ consumer = "none" /\ pending = FALSE /\ raised = FALSE
    /\ held = {} /\ lost = {} /\ step = 1
    /\ logger \in BOOLEAN
    /\ failures = {} /\ leftover = FALSE /\ swallowed = FALSE

-----------------------------------------------------------------------------
(* connect *)

\* When connect refuses, and when close is deferred.
RefusesConnect == conn.doingWork \/ conn.receiverRunActive

\* publish and setCallback, called by the script or by a callback of a run.
Call(method) ==
    /\ phase \in {"script", "run"}
    /\ ~RefusesConnect
    /\ call' = method
    /\ phase' = "connect"
    /\ UNCHANGED <<tls, auth, conn, consumer, pending, raised, held, lost, step, logger, history>>

Connected == phase' = IF call = "publish" THEN "sender" ELSE "register"

UseOpenConnection ==
    /\ phase = "connect"
    /\ conn.isConnected
    /\ Connected
    /\ UNCHANGED <<tls, auth, call, conn, consumer, pending, raised, held, lost, step, logger,
                   history>>

\* The flags of a new connection; the second form forgets the error of the old one.
KeepsIoError == [conn EXCEPT !.closeRequested = FALSE]
Fresh == [conn EXCEPT !.closeRequested = FALSE, !.ioError = FALSE]

\* ensureLoggerConfigured fails, with the console sink too: nothing is created.
LoggerFails ==
    /\ phase = "connect"
    /\ ~conn.isConnected /\ ~logger
    /\ conn' = Fresh
    /\ phase' = "script"
    /\ UNCHANGED <<tls, auth, call, consumer, pending, raised, held, lost, step, logger, history>>

\* Whether connect marks the connection as open; wrong: left to a later callback.
LeavesUnmarked(made) == FALSE
Established(made) == "session" \in made

\* What connect assigns, whatever it held before.
Assigned == Io \cup {"connection", "session"}

\* The native constructors succeed as far as "made"; each needs what it builds on.
\* Without a connection, or without a session on it, connect throws, and what it
\* made stays in its variables until the next attempt or close.
Connect(made) ==
    /\ phase = "connect"
    /\ ~conn.isConnected
    /\ \A kind \in made : Base(kind) \subseteq made
    /\ \E platform \in BOOLEAN :
           /\ conn' = [Fresh EXCEPT !.isConnected = Established(made),
                                    !.platformInitialized = @ \/ platform]
           /\ lost' = lost \cup (held \cap Assigned)
                           \cup IF platform /\ conn.platformInitialized THEN {"platform"} ELSE {}
    /\ logger' = TRUE
    /\ held' = (held \ Assigned) \cup made
    /\ IF "session" \in made THEN Connected /\ UNCHANGED failures
                             ELSE phase' = "script" /\ failures' = failures \cup {"connect"}
    /\ leftover' = ("session" \notin made)
    /\ swallowed' = FALSE
    /\ UNCHANGED <<tls, auth, call, consumer, pending, raised, step>>

-----------------------------------------------------------------------------
(* The teardown, Connection::close when nothing defers it: one step per    *)
(* object, in the order of the code.                                       *)

\* Wrong: the transport before the connection that uses it.
TransportFirst == <<"consumer", "session", "sasl_io", "connection", "tls_io", "socket_io",
                    "sasl_mechanism", "platform">>
TeardownOrder == <<"consumer", "session", "connection", "sasl_io", "tls_io", "socket_io",
                   "sasl_mechanism", "platform">>

\* Connection::close up to its first step, with the flags already changed to "flags".
StartTeardown(flags) ==
    /\ phase' = "teardown"
    /\ step' = 1
    /\ conn' = [flags EXCEPT !.closeRequested = TRUE]

\* close called by PHP code, or by the destructor.
CallClose ==
    /\ phase \in {"script", "run"}
    /\ IF RefusesConnect
       THEN /\ conn' = [conn EXCEPT !.closeRequested = TRUE]
            /\ UNCHANGED <<phase, call, step>>
       ELSE StartTeardown(conn) /\ call' \in {"close", "destruct"}
    /\ UNCHANGED <<tls, auth, consumer, pending, raised, held, lost, logger, history>>

\* Where the teardown goes on after closing the consumer; wrong: an exception of
\* Consumer::close ends it.
StopsOnException(threw) == IF threw THEN Len(TeardownOrder) ELSE step + 1
GoesOn(threw) == step + 1

\* Consumer::close, which may throw, and delete; a running one pumps the connection
\* first, which may fail then.
TeardownConsumer ==
    /\ phase = "teardown"
    /\ TeardownOrder[step] = "consumer"
    /\ \E threw, io \in BOOLEAN : /\ threw => pending \/ consumer = "running"
                                  /\ pending \/ io => threw
                                  /\ io => consumer = "running"
                                  /\ step' = GoesOn(threw)
                                  /\ conn' = [conn EXCEPT !.ioError = @ \/ io]
    /\ held' = held \ ReceiverKinds
    /\ consumer' = "none"
    /\ pending' = FALSE
    /\ UNCHANGED <<tls, auth, phase, call, raised, lost, logger, history>>

TeardownHandle ==
    /\ phase = "teardown"
    /\ step < Len(TeardownOrder)
    /\ TeardownOrder[step] \in Kinds
    /\ held' = held \ {TeardownOrder[step]}
    /\ step' = step + 1
    /\ UNCHANGED <<tls, auth, phase, call, conn, consumer, pending, raised, lost, logger, history>>

\* platform_deinit, the flags, and back to the caller of the PHP method.
TeardownEnds ==
    /\ phase = "teardown"
    /\ step >= Len(TeardownOrder)
    /\ conn' = [conn EXCEPT !.isConnected = FALSE, !.platformInitialized = FALSE]
    /\ phase' = IF call = "destruct" THEN "gone" ELSE "script"
    /\ step' = 1
    /\ leftover' = FALSE
    /\ UNCHANGED <<tls, auth, call, consumer, pending, raised, held, lost, logger, failures,
                   swallowed>>

-----------------------------------------------------------------------------
(* publish *)

\* The Producer's constructor, messagesender_open and messagesender_send_async.
CreateSender ==
    /\ phase = "sender"
    /\ held' = held \cup SenderKinds
    /\ phase' = "send"
    /\ UNCHANGED <<tls, auth, call, conn, consumer, pending, raised, lost, step, logger, history>>

\* The constructor or messagesender_open throws: ~Producer destroys nothing, and
\* the connection stays open.
CreateSenderFails ==
    /\ phase = "sender"
    /\ \E made \in {{}, {"sender_link"}, SenderKinds} : lost' = lost \cup made
    /\ failures' = failures \cup {"publish"}
    /\ phase' = "script"
    /\ UNCHANGED <<tls, auth, call, conn, consumer, pending, raised, held, step, logger, leftover,
                   swallowed>>

\* onIoError while publish dispatches: a finished consumer still records it.
SendIoError ==
    /\ phase = "send"
    /\ conn' = [conn EXCEPT !.ioError = TRUE]
    /\ pending' = (pending \/ consumer # "none")
    /\ UNCHANGED <<tls, auth, phase, call, consumer, raised, held, lost, step, logger, history>>

\* The loop ends: sender and link are destroyed, then the connection is closed;
\* wrong: the connection is kept.
KeepsConnection == phase' = "script" /\ UNCHANGED <<conn, step>>
ClosesConnection == StartTeardown(conn)

\* Wrong: the link, which the sender does not own, goes out of scope.
DestroysSenderOnly == held' = held \ SenderKinds /\ lost' = lost \cup {"sender_link"}
DestroysSenderAndLink == held' = held \ SenderKinds /\ UNCHANGED lost

SendEnds ==
    /\ phase = "send"
    /\ DestroysSenderAndLink
    /\ ClosesConnection
    /\ UNCHANGED <<tls, auth, call, consumer, pending, raised, logger, history>>

\* The detach callback throws inside connection_dowork, as it does for a DETACH that
\* carries no error: the exception leaves publish without destroying anything, and the
\* connection stays open.  A transport that has failed delivers no DETACH.
SendThrows ==
    /\ phase = "send"
    /\ ~conn.ioError
    /\ held' = held \ SenderKinds
    /\ lost' = lost \cup SenderKinds
    /\ failures' = failures \cup {"publish"}
    /\ phase' = "script"
    /\ UNCHANGED <<tls, auth, call, conn, consumer, pending, raised, step, logger, leftover,
                   swallowed>>

-----------------------------------------------------------------------------
(* setCallback and the run *)

\* The finished consumer is replaced; the new one may fail to be made, or to open,
\* which closes the connection.
RegisterConsumer ==
    /\ phase = "register"
    /\ ~pending
    /\ \/ /\ consumer' = "running"
          /\ held' = held \cup ReceiverKinds
          /\ conn' = [conn EXCEPT !.receiverRunActive = TRUE]
          /\ phase' = "run"
          /\ UNCHANGED step
       \/ /\ consumer' = "none"
          /\ held' = held \ ReceiverKinds
          /\ phase' = "script"
          /\ UNCHANGED <<conn, step>>
       \/ /\ consumer' = "running"
          /\ held' = held \cup ReceiverKinds
          /\ StartTeardown(conn)
    /\ UNCHANGED <<tls, auth, call, pending, raised, lost, logger, history>>

\* consume: dispatch, unless the run was stopped.
Consume ==
    /\ phase = "run"
    /\ ~conn.doingWork
    /\ consumer = "running"
    /\ conn' = [conn EXCEPT !.doingWork = TRUE]
    /\ UNCHANGED <<tls, auth, phase, call, consumer, pending, raised, held, lost, step, logger,
                   history>>

IoError ==
    /\ phase = "run"
    /\ conn.doingWork
    /\ conn' = [conn EXCEPT !.ioError = TRUE]
    /\ pending' = TRUE
    /\ UNCHANGED <<tls, auth, phase, call, consumer, raised, held, lost, step, logger, history>>

\* Consumer::close, wherever it is called in a run: it may fail, also by an I/O
\* error while it pumps, and throws what is pending.
CloseConsumer(fails) ==
    /\ consumer' = "finished"
    /\ held' = held \ ReceiverKinds
    /\ pending' = FALSE
    /\ fails => consumer = "running"
    /\ conn.ioError \/ pending => fails \/ consumer = "finished"

\* The dispatch is over: consume returns, or, after a stop, closes the consumer
\* and throws into the loop function.
ConsumeEnds ==
    /\ phase = "run"
    /\ conn.doingWork
    /\ \/ /\ ~conn.ioError
          /\ conn' = [conn EXCEPT !.doingWork = FALSE]
          /\ UNCHANGED <<consumer, pending, raised, held>>
       \/ \E fails, io \in BOOLEAN :
              /\ io => fails
              /\ CloseConsumer(fails)
              /\ conn' = [conn EXCEPT !.doingWork = FALSE, !.ioError = @ \/ io]
              /\ raised' = (raised \/ fails)
    /\ UNCHANGED <<tls, auth, phase, call, lost, step, logger, history>>

\* The loop function returns: Consumer::close; then the connection is closed if
\* that throws, or if close was called during the run.
LoopReturns ==
    /\ phase = "run"
    /\ ~conn.doingWork
    /\ \E fails, io \in BOOLEAN :
           LET flags == [conn EXCEPT !.receiverRunActive = FALSE, !.ioError = @ \/ io]
           IN /\ io => fails
              /\ CloseConsumer(fails)
              /\ IF fails \/ conn.closeRequested THEN StartTeardown(flags)
                 ELSE phase' = "script" /\ conn' = flags /\ UNCHANGED step
    /\ swallowed' = (swallowed \/ raised)
    /\ raised' = FALSE
    /\ UNCHANGED <<tls, auth, call, lost, logger, failures, leftover>>

LoopThrows ==
    /\ phase = "run"
    /\ ~conn.doingWork
    /\ StartTeardown([conn EXCEPT !.receiverRunActive = FALSE])
    /\ raised' = FALSE
    /\ UNCHANGED <<tls, auth, call, consumer, pending, held, lost, logger, history>>

Gone == phase = "gone" /\ UNCHANGED vars

-----------------------------------------------------------------------------
Next == \/ \E method \in {"publish", "setCallback"} : Call(method)
        \/ UseOpenConnection
        \/ LoggerFails
        \/ \E made \in SUBSET Assigned : Connect(made)
        \/ CallClose
        \/ TeardownConsumer
        \/ TeardownHandle
        \/ TeardownEnds
        \/ CreateSender
        \/ CreateSenderFails
        \/ SendIoError
        \/ SendEnds
        \/ SendThrows
        \/ RegisterConsumer
        \/ Consume
        \/ IoError
        \/ ConsumeEnds
        \/ LoopReturns
        \/ LoopThrows
        \/ Gone

Spec == Init /\ [][Next]_vars

-----------------------------------------------------------------------------
(* Properties. *)

\* At every step of connect, publish, a run and a teardown, what an object in use is
\* built on exists: links go before their session, the session before the connection,
\* the connection before its transport.  An object that was lost, and so exists for
\* ever, was lost together with all it is built on, whichever call lost it and whatever
\* was closed since; all but the sender link of a failed publish, whose session the
\* next close destroys.
NothingOutlivesItsBase ==
    /\ \A kind \in held : Base(kind) \subseteq held
    /\ \A kind \in lost \ {"sender_link"} : Base(kind) \subseteq lost

\* Between calls a connection that is not connected owns nothing, unless the last
\* connect failed part-way; after its destructor it owns nothing in any case.
ClosedOwnsNothing ==
    \/ phase = "script" /\ ~conn.isConnected /\ ~leftover
    \/ phase = "gone"
    => held = {} /\ consumer = "none" /\ ~conn.platformInitialized

\* Sender and link are lost only where a publish failed, to make or open its sender or
\* by an exception out of the dispatch; anything else, and a reference to the platform,
\* only by the connect after a connect that failed part-way.
LostOnlyByFailure ==
    /\ lost \cap SenderKinds # {} => "publish" \in failures
    /\ lost \ SenderKinds # {} => "connect" \in failures

\* publish and setCallback start on a transport known to have failed only when a
\* loop function caught that failure and returned as if nothing had happened.
StaleErrorOnlyAfterSwallow ==
    phase \in {"sender", "register"} /\ conn.ioError => swallowed

\* An exception a consumer keeps is thrown by the call in which it was recorded,
\* never by a later and unrelated one; that holds although the finished consumer
\* of an earlier run still records the transport errors of a publish.
NoStaleException == phase \in {"script", "register"} => ~pending
=============================================================================
