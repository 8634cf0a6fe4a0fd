------------------------------- MODULE Receiver ------------------------------
(***************************************************************************)
(* One receiving run: Connection::setCallback, the PHP loop it calls, the  *)
(* native dispatch and its callbacks, and the bounded shutdown             *)
(* (Consumer.cpp, and the parts of Connection.cpp that drive it).          *)
(*                                                                         *)
(* There is one thread; what interleaves is the control it hands around.   *)
(* "phase" says which function's code runs next:                           *)
(*   idle      before setCallback                                          *)
(*   loop      the PHP loop function                                       *)
(*   consume   Consumer::consume                                           *)
(*   opening, drain, receiverClose, detach, finish                         *)
(*             the successive parts of Consumer::close                     *)
(*   done      after setCallback                                           *)
(* While doingWork holds, control is inside connection_dowork, called from *)
(* that phase, and native events are handled one by one; while inCallback  *)
(* holds too, it is inside the PHP message callback called from there.     *)
(*                                                                         *)
(* The link below is used through its account: CreditAccount, which        *)
(* LinkCredit is proved to implement for callers that never replace credit *)
(* by less.  That Receiver is such a caller is the property UsesAccount.   *)
(***************************************************************************)
EXTENDS Integers, Sequences

CONSTANTS
    Batches,        \* maxLinkCredit arguments, 0 for the continuous mode
    MaxDeliveries   \* bound: messages the broker has

ASSUME BatchesAssumption == Batches \subseteq Nat
ASSUME MaxDeliveriesAssumption == MaxDeliveries \in Nat

VARIABLES
    phase, doingWork, inCallback,
    caller,             \* who called Consumer::close and gets its exception
    \* Connection
    connected,          \* isConnected; the connection and the consumer exist
    receiverRunActive,
    connCloseRequested, \* Connection's closeRequested
    ioError,
    \* Consumer
    batch,              \* maxLinkCredit; finiteBatch is batch # 0
    creditRemaining,
    closeRequested, closing, closed,
    detachReceived,
    receiverState,
    callbackException,  \* a PHP Throwable is kept
    exceptionMessage,   \* a message is kept
    stopReason,
    handles,            \* link and message_receiver exist
    late, detachLate,   \* deadline and detachDeadline have passed
    \* the link's account
    used, limit, manual, draining, drained,
    \* history
    outcomes,           \* dispositions sent, in order
    failed,             \* handleCallbackException was called
    threw,              \* a message callback threw a Throwable
    firstThrown         \* the first exception PHP code outside callbacks got

control == <<phase, doingWork, inCallback, caller>>
connection == <<connected, receiverRunActive, connCloseRequested, ioError>>
pending == <<callbackException, exceptionMessage, failed>>
stop == <<closeRequested, stopReason>>
shutdown == <<closing, closed, handles, late, detachLate>>
account == <<used, limit, manual, draining, drained>>
vars == <<control, connection, batch, creditRemaining, stop, shutdown, detachReceived,
          receiverState, pending, account, outcomes, threw, firstThrown>>

Account == INSTANCE CreditAccount
Delivery == INSTANCE DeliveryContract
            WITH stopped <- closeRequested, handling <- inCallback

Phases == {"idle", "loop", "consume", "opening", "drain", "receiverClose", "detach",
           "finish", "done"}
Thrown == {"none", "callback", "failure", "script"}

-----------------------------------------------------------------------------
TypeOK == /\ phase \in Phases
          /\ doingWork \in BOOLEAN
          /\ inCallback \in BOOLEAN
          /\ caller \in {"none", "consume", "script", "setCallback", "cleanup"}
          /\ connected \in BOOLEAN
          /\ receiverRunActive \in BOOLEAN
          /\ connCloseRequested \in BOOLEAN
          /\ ioError \in BOOLEAN
          /\ batch \in Nat
          /\ creditRemaining \in Nat
          /\ closeRequested \in BOOLEAN
          /\ closing \in BOOLEAN
          /\ closed \in BOOLEAN
          /\ detachReceived \in BOOLEAN
          /\ receiverState \in {"IDLE", "OPENING", "OPEN", "CLOSING", "ERROR"}
          /\ callbackException \in BOOLEAN
          /\ exceptionMessage \in BOOLEAN
          /\ stopReason \in {"none", "callback-stop", "batch-complete", "peer-detach", "error",
                             "connection-close", "receive-finished"}
          /\ handles \in BOOLEAN
          /\ late \in BOOLEAN
          /\ detachLate \in BOOLEAN
          /\ Account!TypeOK
          /\ outcomes \in Seq({"accepted", "modified", "released"})
          /\ failed \in BOOLEAN
          /\ threw \in BOOLEAN
          /\ firstThrown \in Thrown

Init == /\ phase = "idle" /\ caller = "none"
        /\ doingWork = FALSE /\ inCallback = FALSE
        /\ connected = FALSE /\ receiverRunActive = FALSE
        /\ connCloseRequested = FALSE /\ ioError = FALSE
        /\ batch = 0 /\ creditRemaining = 0
        /\ closeRequested = FALSE /\ stopReason = "none"
        /\ closing = FALSE /\ closed = FALSE /\ handles = FALSE
        /\ late = FALSE /\ detachLate = FALSE
        /\ detachReceived = FALSE /\ receiverState = "IDLE"
        /\ callbackException = FALSE /\ exceptionMessage = FALSE /\ failed = FALSE
        /\ used = 0 /\ limit = 0
        /\ manual = FALSE /\ draining = FALSE /\ drained = FALSE
        /\ outcomes = <<>> /\ threw = FALSE /\ firstThrown = "none"

finiteBatch == batch # 0

-----------------------------------------------------------------------------
(* Shared pieces: the effects of requestStop, of handleCallbackException     *)
(* without its requestStop("error"), and of entering Consumer::close.        *)

\* Consumer::requestStop: the first reason is kept.
RequestStop(reason) ==
    /\ closeRequested' = TRUE
    /\ stopReason' = IF closeRequested THEN stopReason ELSE reason

\* The first Throwable is kept even when a message was recorded before it.
RecordException(throwable) ==
    /\ exceptionMessage' = TRUE
    /\ callbackException' = (callbackException \/ throwable)
    /\ failed' = TRUE

HandleCallbackException == RecordException(FALSE) /\ RequestStop("error")

\* Consumer::close up to its first loop; a closed consumer only throws what is
\* pending.
EnterClose(who) ==
    /\ caller' = who
    /\ phase' = IF closed THEN "finish" ELSE "opening"
    /\ closing' = ~closed
    /\ late' = FALSE
    /\ UNCHANGED <<closed, handles, detachLate>>

-----------------------------------------------------------------------------
(* Connection::setCallback and the PHP loop. *)

\* connect, new Consumer and messagereceiver_open succeed.
SetCallback(n) ==
    /\ phase = "idle"
    /\ phase' = "loop"
    /\ connected' = TRUE
    /\ receiverRunActive' = TRUE
    /\ batch' = n
    /\ creditRemaining' = IF n = 0 THEN 1 ELSE n
    /\ limit' = creditRemaining'
    /\ manual' = TRUE
    /\ handles' = TRUE
    /\ receiverState' = "OPENING"
    /\ UNCHANGED <<doingWork, inCallback, caller, connCloseRequested, ioError, stop, closing,
                   closed, late, detachLate, detachReceived, pending, used, draining, drained,
                   outcomes, threw, firstThrown>>

\* messagereceiver_open fails: Consumer::setCallback throws before the loop, and
\* Connection::setCallback closes the connection.
SetCallbackFails(n) ==
    /\ phase = "idle"
    /\ connected' = TRUE
    /\ connCloseRequested' = TRUE
    /\ batch' = n
    /\ creditRemaining' = IF n = 0 THEN 1 ELSE n
    /\ limit' = creditRemaining'
    /\ manual' = TRUE
    /\ RequestStop("connection-close")
    /\ caller' = "cleanup"
    /\ phase' = "opening"
    /\ closing' = TRUE
    /\ handles' = TRUE
    /\ firstThrown' = "failure"
    /\ UNCHANGED <<doingWork, inCallback, receiverRunActive, ioError, closed, late, detachLate,
                   detachReceived, receiverState, pending, used, draining, drained, outcomes,
                   threw>>

\* Connection::consume, from the loop or after the run: dispatch unless a stop
\* was requested.
CallConsume ==
    /\ phase \in {"loop", "done"}
    /\ connected
    /\ phase' = "consume"
    /\ doingWork' = ~closeRequested
    /\ UNCHANGED <<inCallback, caller, connection, batch, creditRemaining, stop, shutdown,
                   detachReceived, receiverState, pending, account, outcomes, threw, firstThrown>>

\* The condition under which Connection::close leaves the work to its callers;
\* a dispatch alone is too little.
DefersForDispatchOnly == doingWork
DefersClose == doingWork \/ receiverRunActive \/ closing

\* Connection::close called by PHP code: the loop, the message callback, or the
\* script after the run (whose consumer is closed, so that only the teardown is
\* left).
CallClose ==
    /\ phase \in {"loop", "done"} \/ inCallback
    /\ connected
    /\ connCloseRequested' = TRUE
    /\ RequestStop("connection-close")
    /\ IF DefersClose THEN UNCHANGED <<connected, handles>>
                      ELSE connected' = FALSE /\ handles' = FALSE
    /\ UNCHANGED <<control, receiverRunActive, ioError, batch, creditRemaining, closing, closed,
                   late, detachLate, detachReceived, receiverState, pending, account, outcomes,
                   threw, firstThrown>>

\* The loop function returns: Consumer::setCallback closes the consumer.
LoopReturns ==
    /\ phase = "loop"
    /\ RequestStop("receive-finished")
    /\ EnterClose("setCallback")
    /\ UNCHANGED <<doingWork, inCallback, connection, batch, creditRemaining, detachReceived,
                   receiverState, pending, account, outcomes, threw, firstThrown>>

\* The loop function throws, an exception of its own or one that consume threw:
\* Connection::setCallback closes the connection and throws it again.
LoopThrows ==
    /\ phase = "loop"
    /\ receiverRunActive' = FALSE
    /\ connCloseRequested' = TRUE
    /\ RequestStop("connection-close")
    /\ EnterClose("cleanup")
    /\ firstThrown' = IF firstThrown = "none" THEN "script" ELSE firstThrown
    /\ UNCHANGED <<doingWork, inCallback, connected, ioError, batch, creditRemaining,
                   detachReceived, receiverState, pending, account, outcomes, threw>>

-----------------------------------------------------------------------------
(* Events inside connection_dowork. *)

Dispatching == doingWork /\ ~inCallback

\* The peer's ATTACH: onReceiverState(OPEN).
ReceiverOpens ==
    /\ Dispatching
    /\ receiverState = "OPENING"
    /\ receiverState' = "OPEN"
    /\ UNCHANGED <<control, connection, batch, creditRemaining, stop, shutdown, detachReceived,
                   pending, account, outcomes, threw, firstThrown>>

\* onReceiverState(ERROR); closed is still false whenever the link can report it.
ReceiverFails ==
    /\ Dispatching
    /\ receiverState \in {"OPENING", "OPEN", "CLOSING"}
    /\ receiverState' = "ERROR"
    /\ IF closed THEN UNCHANGED <<pending, stop>> ELSE HandleCallbackException
    /\ UNCHANGED <<control, connection, batch, creditRemaining, shutdown, detachReceived,
                   account, outcomes, threw, firstThrown>>

\* The condition under which handleMessage releases a delivery unseen.
NeverSurplus == FALSE
IsSurplus == closeRequested

\* What the broker is told about a surplus delivery; nothing, which would leave it
\* locked and unsettled.
NoDisposition == "none"
SurplusDisposition == "released"

\* A transfer: Consumer::handleMessage up to the callback, or, for a surplus
\* delivery, to its end.
ReceiveMessage ==
    /\ Dispatching
    /\ receiverState \in {"OPEN", "CLOSING"}
    /\ ~detachReceived
    /\ used < limit
    /\ used < MaxDeliveries
    /\ used' = used + 1
    /\ creditRemaining' = IF creditRemaining > 0 THEN creditRemaining - 1 ELSE 0
    /\ IF IsSurplus
       THEN /\ outcomes' = Append(outcomes, SurplusDisposition)
            /\ UNCHANGED inCallback
       ELSE /\ inCallback' = TRUE
            /\ UNCHANGED outcomes
    /\ UNCHANGED <<phase, doingWork, caller, connection, batch, stop, shutdown, detachReceived,
                   receiverState, pending, limit, manual, draining, drained, threw, firstThrown>>

\* The peer's FLOW that answers link_drain.
ReceiveDrainAnswer ==
    /\ Dispatching
    /\ receiverState \in {"OPEN", "CLOSING"}
    /\ ~detachReceived
    /\ \E r \in 0 .. (limit - used) : Account!Return(r)
    /\ UNCHANGED <<control, connection, batch, creditRemaining, stop, shutdown, detachReceived,
                   receiverState, pending, outcomes, threw, firstThrown>>

\* The peer's DETACH, with an error condition or without: handleLinkDetach.
ReceiveDetach(condition) ==
    /\ Dispatching
    /\ receiverState # "IDLE"
    /\ ~detachReceived
    /\ detachReceived' = TRUE
    /\ IF ~closing \/ condition
       THEN HandleCallbackException
       ELSE RequestStop("peer-detach") /\ UNCHANGED pending
    /\ UNCHANGED <<control, connection, batch, creditRemaining, shutdown, receiverState, account,
                   outcomes, threw, firstThrown>>

\* onIoError: Connection::handleIoError.
IoFails ==
    /\ Dispatching
    /\ ~ioError
    /\ ioError' = TRUE
    /\ HandleCallbackException
    /\ UNCHANGED <<control, connected, receiverRunActive, connCloseRequested, batch,
                   creditRemaining, shutdown, detachReceived, receiverState, account, outcomes,
                   threw, firstThrown>>

\* connection_dowork returns.
EndDispatch ==
    /\ Dispatching
    /\ doingWork' = FALSE
    /\ UNCHANGED <<phase, inCallback, caller, connection, batch, creditRemaining, stop, shutdown,
                   detachReceived, receiverState, pending, account, outcomes, threw, firstThrown>>

-----------------------------------------------------------------------------
(* The message callback. *)

\* When a successful callback completes a batch; one message too early.
CompletesEarly == finiteBatch /\ creditRemaining <= 1
CompletesBatch == finiteBatch /\ creditRemaining = 0

\* The callback returns: handleMessage decides about stopping and accepts.
CallbackReturns(result) ==
    /\ inCallback
    /\ inCallback' = FALSE
    /\ IF ~result THEN RequestStop("callback-stop")
       ELSE IF CompletesBatch THEN RequestStop("batch-complete")
       ELSE UNCHANGED stop
    /\ outcomes' = Append(outcomes, "accepted")
    /\ UNCHANGED <<phase, doingWork, caller, connection, batch, creditRemaining, shutdown,
                   detachReceived, receiverState, pending, account, threw, firstThrown>>

\* The callback (or the conversion of the message) throws, a PHP Throwable or a
\* C++ exception: onMessage records it and abandons the delivery.
CallbackThrows(throwable) ==
    /\ inCallback
    /\ inCallback' = FALSE
    /\ RecordException(throwable)
    /\ RequestStop("error")
    /\ outcomes' = Append(outcomes, "modified")
    /\ threw' = (threw \/ throwable)
    /\ UNCHANGED <<phase, doingWork, caller, connection, batch, creditRemaining, shutdown,
                   detachReceived, receiverState, account, firstThrown>>

-----------------------------------------------------------------------------
(* Consumer::consume after its dispatch. *)

\* Continuous mode asks for the next message once the credit is used up; not
\* after each dispatch, and not for a batch.
RefillsAlways == TRUE
RefillDue == ~finiteBatch /\ creditRemaining = 0

\* A dead transport or a stop request ends the run.
ConsumeCloses ==
    /\ phase = "consume"
    /\ ~doingWork
    /\ ioError \/ closeRequested
    /\ IF ioError THEN HandleCallbackException
                  ELSE UNCHANGED <<pending, stop>>
    /\ EnterClose(IF receiverRunActive THEN "consume" ELSE "script")
    /\ UNCHANGED <<doingWork, inCallback, connection, batch, creditRemaining, detachReceived,
                   receiverState, account, outcomes, threw, firstThrown>>

\* link_set_receiver_credit(link, 1) after the previous disposition; 2 would
\* prefetch.  The link has its new credit before the FLOW that announces it is sent.
Prefetched == 2
NextCredit == 1
SetReceiverCredit ==
    /\ ~(draining /\ ~drained)
    /\ limit' = used + NextCredit
    /\ manual' = TRUE
    /\ draining' = FALSE
    /\ drained' = FALSE
    /\ UNCHANGED used

ConsumeRefills ==
    /\ phase = "consume"
    /\ ~doingWork
    /\ ~ioError /\ ~closeRequested
    /\ RefillDue
    /\ SetReceiverCredit
    /\ phase' = "loop"
    /\ creditRemaining' = 1
    /\ UNCHANGED <<doingWork, inCallback, caller, connection, batch, stop, shutdown,
                   detachReceived, receiverState, pending, outcomes, threw, firstThrown>>

\* The link refuses, or has the credit but cannot send the FLOW; the close that
\* follows throws before the consumer counts it.
RefillFails ==
    /\ phase = "consume"
    /\ ~doingWork
    /\ ~ioError /\ ~closeRequested
    /\ RefillDue
    /\ UNCHANGED account \/ SetReceiverCredit
    /\ HandleCallbackException
    /\ EnterClose("consume")
    /\ UNCHANGED <<doingWork, inCallback, connection, batch, creditRemaining, detachReceived,
                   receiverState, outcomes, threw, firstThrown>>

ConsumeReturns ==
    /\ phase = "consume"
    /\ ~doingWork
    /\ ~ioError /\ ~closeRequested
    /\ ~RefillDue
    /\ phase' = "loop"
    /\ UNCHANGED <<doingWork, inCallback, caller, connection, batch, creditRemaining, stop,
                   shutdown, detachReceived, receiverState, pending, account, outcomes, threw,
                   firstThrown>>

-----------------------------------------------------------------------------
(* Consumer::close.  Its loops pump the connection until something happens or *)
(* the deadline passes.                                                       *)

Pumping == /\ phase \in {"opening", "drain", "detach"}
           /\ ~doingWork

\* The loop conditions; the drain loop also ends when it sees the drain complete.
\* KeepsDrainingLate forgets the deadline.
KeepsOpening == receiverState = "OPENING" /\ ~ioError /\ ~late
KeepsDrainingLate == ~detachReceived /\ ~ioError
KeepsDraining == ~detachReceived /\ ~ioError /\ ~late
KeepsDetaching == ~detachReceived /\ ~ioError /\ ~detachLate

Pump ==
    /\ Pumping
    /\ \/ phase = "opening" /\ KeepsOpening
       \/ phase = "drain" /\ KeepsDraining /\ ~drained
       \/ phase = "detach" /\ KeepsDetaching
    /\ doingWork' = TRUE
    /\ UNCHANGED <<phase, inCallback, caller, connection, batch, creditRemaining, stop, shutdown,
                   detachReceived, receiverState, pending, account, outcomes, threw, firstThrown>>

\* The two seconds for opening and draining, and the second for the detach, are
\* over; both can end inside connection_dowork as well as between two calls.
DeadlinePasses ==
    /\ closing
    /\ phase \in {"opening", "drain"}
    /\ ~late
    /\ late' = TRUE
    /\ UNCHANGED <<control, connection, batch, creditRemaining, stop, closing, closed, handles,
                   detachLate, detachReceived, receiverState, pending, account, outcomes, threw,
                   firstThrown>>

DetachDeadlinePasses ==
    /\ phase = "detach"
    /\ ~detachLate
    /\ detachLate' = TRUE
    /\ UNCHANGED <<control, connection, batch, creditRemaining, stop, closing, closed, handles,
                   late, detachReceived, receiverState, pending, account, outcomes, threw,
                   firstThrown>>

\* The receiver is open: link_drain, which may refuse, or fail to send its FLOW
\* when the link is draining already.
BeginDrain ==
    /\ phase = "opening" /\ ~doingWork
    /\ ~KeepsOpening
    /\ receiverState = "OPEN" /\ ~detachReceived /\ ~ioError
    /\ \/ /\ phase' = "drain"
          /\ Account!Drain
          /\ UNCHANGED <<pending, stop>>
       \/ /\ phase' = "receiverClose"
          /\ HandleCallbackException
          /\ UNCHANGED account \/ Account!Drain
    /\ UNCHANGED <<doingWork, inCallback, caller, connection, batch, creditRemaining, shutdown,
                   detachReceived, receiverState, outcomes, threw, firstThrown>>

\* It is not: nothing to drain.
SkipDrain ==
    /\ phase = "opening" /\ ~doingWork
    /\ ~KeepsOpening
    /\ ~(receiverState = "OPEN" /\ ~detachReceived /\ ~ioError)
    /\ phase' = "receiverClose"
    /\ UNCHANGED <<doingWork, inCallback, caller, connection, batch, creditRemaining, stop,
                   shutdown, detachReceived, receiverState, pending, account, outcomes, threw,
                   firstThrown>>

\* Whether the drain loop ends with its local "drained" set: completion counts
\* only when it is read before the deadline.
IgnoresDrain == TRUE
SeesDrained == KeepsDraining /\ drained

EndDrain ==
    /\ phase = "drain" /\ ~doingWork
    /\ SeesDrained \/ ~KeepsDraining
    /\ phase' = "receiverClose"
    /\ IF SeesDrained \/ detachReceived THEN UNCHANGED <<pending, stop>>
                                        ELSE HandleCallbackException
    /\ UNCHANGED <<doingWork, inCallback, caller, connection, batch, creditRemaining, shutdown,
                   detachReceived, receiverState, account, outcomes, threw, firstThrown>>

\* messagereceiver_close, which may fail, unless the peer or the transport is gone.
CloseReceiver ==
    /\ phase = "receiverClose"
    /\ IF ~detachReceived /\ ~ioError
       THEN /\ phase' = "detach"
            /\ detachLate' = FALSE
            /\ receiverState' = IF receiverState \in {"OPENING", "OPEN"} THEN "CLOSING"
                                                                         ELSE receiverState
            /\ HandleCallbackException \/ UNCHANGED <<pending, stop>>
       ELSE /\ phase' = "finish"
            /\ UNCHANGED <<detachLate, receiverState, pending, stop>>
    /\ UNCHANGED <<doingWork, inCallback, caller, connection, batch, creditRemaining, closing,
                   closed, handles, late, detachReceived, account, outcomes, threw, firstThrown>>

\* Whether a shutdown without the peer's DETACH is an error; only when time ran out.
NeverTimesOut == FALSE
ShutdownTimedOut == ~detachReceived

EndDetach ==
    /\ phase = "detach" /\ ~doingWork
    /\ ~KeepsDetaching
    /\ phase' = "finish"
    /\ IF ShutdownTimedOut THEN HandleCallbackException ELSE UNCHANGED <<pending, stop>>
    /\ UNCHANGED <<doingWork, inCallback, caller, connection, batch, creditRemaining, shutdown,
                   detachReceived, receiverState, account, outcomes, threw, firstThrown>>

\* What throwPendingException throws: the callback's own Throwable before any
\* message.  Wrong: a message before it; nothing but a Throwable.
MessageFirst == IF exceptionMessage THEN "failure"
                ELSE IF callbackException THEN "callback" ELSE "none"
ThrowableOnly == IF callbackException THEN "callback" ELSE "none"
PendingException == IF callbackException THEN "callback"
                    ELSE IF exceptionMessage THEN "failure" ELSE "none"

\* Whether setCallback closes the connection when the run is over.
ClosesOnErrorOnly == PendingException # "none"
ClosesAfterRun == PendingException # "none" \/ connCloseRequested

\* destroyHandles and throwPendingException; the exception goes to the caller:
\* the loop's consume, the script's consume, Connection::setCallback, or the
\* cleanup after an exception, which drops it in favour of that exception.
FinishClose ==
    /\ phase = "finish"
    /\ handles' = FALSE
    /\ closed' = TRUE
    /\ closing' = FALSE
    /\ callbackException' = FALSE
    /\ exceptionMessage' = FALSE
    /\ phase' = IF caller = "consume" THEN "loop" ELSE "done"
    /\ receiverRunActive' = (receiverRunActive /\ caller # "setCallback")
    /\ firstThrown' = IF firstThrown = "none" /\ caller # "cleanup" THEN PendingException
                                                                    ELSE firstThrown
    /\ IF caller = "cleanup" \/ (caller = "setCallback" /\ ClosesAfterRun)
       THEN connected' = FALSE /\ connCloseRequested' = TRUE
       ELSE UNCHANGED <<connected, connCloseRequested>>
    /\ UNCHANGED <<doingWork, inCallback, caller, ioError, batch, creditRemaining, stop, late,
                   detachLate, detachReceived, receiverState, failed, account, outcomes, threw>>

\* The connection is closed: the end of the model.
Ended == phase = "done" /\ ~connected /\ UNCHANGED vars

-----------------------------------------------------------------------------
Next == \/ \E n \in Batches : SetCallback(n) \/ SetCallbackFails(n)
        \/ CallConsume
        \/ CallClose
        \/ LoopReturns
        \/ LoopThrows
        \/ ReceiverOpens
        \/ ReceiverFails
        \/ ReceiveMessage
        \/ ReceiveDrainAnswer
        \/ \E condition \in BOOLEAN : ReceiveDetach(condition)
        \/ IoFails
        \/ EndDispatch
        \/ \E result \in BOOLEAN : CallbackReturns(result)
        \/ \E throwable \in BOOLEAN : CallbackThrows(throwable)
        \/ ConsumeCloses
        \/ ConsumeRefills
        \/ RefillFails
        \/ ConsumeReturns
        \/ Pump
        \/ DeadlinePasses
        \/ DetachDeadlinePasses
        \/ BeginDrain
        \/ SkipDrain
        \/ EndDrain
        \/ CloseReceiver
        \/ EndDetach
        \/ FinishClose
        \/ Ended

\* Connection::wasCloseRequested, which PHP loops poll.
wasCloseRequested == connCloseRequested \/ (connected /\ closeRequested)

\* The native code runs on, connection_dowork returns, the clock advances, and
\* callbacks return; the loop is one that polls wasCloseRequested and returns
\* sooner or later when it holds.  Nothing is assumed of the peer.
Native == \/ EndDispatch \/ ConsumeCloses \/ ConsumeRefills \/ RefillFails \/ ConsumeReturns
          \/ Pump \/ BeginDrain \/ SkipDrain \/ EndDrain \/ CloseReceiver \/ EndDetach
          \/ FinishClose
Callback == \/ \E result \in BOOLEAN : CallbackReturns(result)
            \/ \E throwable \in BOOLEAN : CallbackThrows(throwable)

Fairness == /\ WF_vars(Native)
            /\ WF_vars(Callback)
            /\ WF_vars(DeadlinePasses)
            /\ WF_vars(DetachDeadlinePasses)
            /\ SF_vars(wasCloseRequested /\ (LoopReturns \/ LoopThrows))

Spec == Init /\ [][Next]_vars /\ Fairness

-----------------------------------------------------------------------------
(* Properties. *)

\* "The native objects remain alive until callbacks finish" (README.md): as long
\* as dispatch is on the stack the link and the receiver exist, and as long as
\* Connection::setCallback is, the connection and the consumer do, wherever PHP
\* code calls close.
HandlesOutliveUse ==
    /\ receiverRunActive \/ doingWork => connected
    /\ doingWork => handles

\* The pumps of the shutdown never call PHP code again, which a Throwable may be
\* pending in, whatever the broker still delivers.
ShutdownNeverReentersPhp == inCallback => phase = "consume" /\ ~closing

\* Prefetch is bounded: a batch never authorises more than its size in all, the
\* continuous mode one message beyond those already settled.  The consumer's own
\* count, by which it refills and completes a batch, is the link's credit as long as
\* no shutdown has begun, whatever has failed by then; a refill that fails leaves the
\* link credit the consumer does not count, and until a drain it is never the other
\* way round.
CreditFollowsSettlement ==
    /\ limit <= IF finiteBatch THEN batch ELSE Len(outcomes) + 1
    /\ ~closing /\ ~closed => creditRemaining = limit - used
    /\ ~draining => creditRemaining <= limit - used

\* A run that ended because its batch was complete has accepted exactly as many
\* messages as were asked for.
BatchComplete ==
    stopReason = "batch-complete" =>
        outcomes = [i \in 1 .. batch |-> "accepted"]

\* "A failed drain or detach raises an error instead of reporting a successful
\* close" (README.md): without any recorded failure a closed consumer has seen
\* the peer's DETACH, and a drain it had begun before that was complete.
CloseIsClean ==
    closed /\ ~failed =>
        /\ detachReceived
        /\ draining /\ receiverState = "CLOSING" => drained

\* A failure recorded inside native callbacks reaches PHP code: when setCallback
\* is over some exception has been thrown to the loop or to its caller.
FailureSurfaces == phase = "done" /\ failed => firstThrown # "none" /\ ~exceptionMessage

\* A Throwable of the message callback is what PHP code gets first, whatever
\* else goes wrong while the link shuts down: drain and detach timeouts,
\* transport errors, errors of the peer.
CallbackErrorWins == threw /\ firstThrown # "none" => firstThrown = "callback"

\* A close that was put off because it came from the callback or the loop has
\* taken effect when setCallback is over, even when the run failed and closing the
\* consumer failed as well; and no later one is put off for a run that is over.
CloseTakesEffect ==
    phase = "done" => ~receiverRunActive /\ (connCloseRequested => ~connected)

\* Consumer uses the link as its account demands: it never replaces credit by
\* less and never grants while a drain is pending.
UsesAccount == Account!Spec

\* The callback gets one message at a time and none after a stop, from wherever it
\* came; every message gets one disposition, in order, which fits what the callback
\* did; a failure, or the last message of a batch, stops the run.
KeepsDeliveryContract == Delivery!Spec

\* The shutdown ends, whether or not the peer answers.
ShutdownEnds == closing ~> closed

\* Any stop that reaches the connection, in the callback or in the loop, closes
\* the connection once the loop polls wasCloseRequested.
CloseLeadsToClosed == connCloseRequested ~> ~connected
=============================================================================
