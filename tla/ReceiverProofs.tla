--------------------------- MODULE ReceiverProofs ----------------------------
(***************************************************************************)
(* Proofs about Receiver, for any batch sizes and any number of            *)
(* deliveries.  Inv is inductive.  Its parts follow the code: where        *)
(* control can be and who called close, how credit and dispositions are    *)
(* counted, and what is recorded of failures and of closes put off.  Each  *)
(* part has a lemma that a step keeps it, with one case per action that    *)
(* changes a variable of the part and one for all the others.  Every       *)
(* safety property of Receiver follows, and so do the refinements of       *)
(* CreditAccount and DeliveryContract.                                     *)
(***************************************************************************)
EXTENDS Receiver, SequenceTheorems, TLAPS

\* The phases of Consumer::close.
ClosePhases == {"opening", "drain", "receiverClose", "detach", "finish"}

\* The type invariant in parts, for the provers.
RunFlags ==
    /\ doingWork \in BOOLEAN /\ inCallback \in BOOLEAN
    /\ connected \in BOOLEAN /\ receiverRunActive \in BOOLEAN
    /\ connCloseRequested \in BOOLEAN

ConsumerFlags ==
    /\ closeRequested \in BOOLEAN /\ closing \in BOOLEAN /\ closed \in BOOLEAN
    /\ detachReceived \in BOOLEAN /\ handles \in BOOLEAN
    /\ late \in BOOLEAN /\ detachLate \in BOOLEAN

FailureFlags ==
    /\ callbackException \in BOOLEAN /\ exceptionMessage \in BOOLEAN
    /\ ioError \in BOOLEAN /\ failed \in BOOLEAN /\ threw \in BOOLEAN

DrainFlags == manual \in BOOLEAN /\ draining \in BOOLEAN /\ drained \in BOOLEAN

FlagTypes == RunFlags /\ ConsumerFlags /\ FailureFlags /\ DrainFlags

Callers == {"none", "consume", "script", "setCallback", "cleanup"}
ReceiverStates == {"IDLE", "OPENING", "OPEN", "CLOSING", "ERROR"}
StopReasons == {"none", "callback-stop", "batch-complete", "peer-detach", "error",
                "connection-close", "receive-finished"}
Dispositions == {"accepted", "modified", "released"}

NameTypes ==
    /\ phase \in Phases
    /\ caller \in Callers
    /\ receiverState \in ReceiverStates
    /\ stopReason \in StopReasons
    /\ firstThrown \in Thrown

CountTypes ==
    /\ batch \in Nat
    /\ creditRemaining \in Nat
    /\ used \in Nat
    /\ limit \in Nat
    /\ outcomes \in Seq(Dispositions)

Types == FlagTypes /\ NameTypes /\ CountTypes

\* Which phases go with which flags.
ControlShape ==
    /\ doingWork => phase \in {"consume", "opening", "drain", "detach"}
    /\ inCallback => doingWork /\ phase = "consume"
    /\ phase = "loop" => receiverRunActive
    /\ receiverRunActive => phase \notin {"idle", "done"}
    /\ phase \notin {"idle", "done"} => connected
    /\ phase # "idle" /\ ~closed => handles
    /\ phase = "done" => closed
    /\ closing <=> phase \in ClosePhases /\ ~closed
    /\ phase \in ClosePhases \ {"finish"} => ~closed
    /\ closed \/ closing => closeRequested
    /\ phase = "consume" /\ ~receiverRunActive => closed
    /\ phase = "consume" /\ doingWork => ~closed

\* Who called Consumer::close: within the run the loop's consume or setCallback,
\* after it the script's consume, which finds the consumer closed, or the
\* cleanup of an exception.
CallerFits ==
    phase \in ClosePhases =>
        /\ caller # "none"
        /\ caller \in {"consume", "setCallback"} => receiverRunActive
        /\ caller \in {"script", "cleanup"} => ~receiverRunActive
        /\ caller = "script" => closed

\* Before setCallback nothing has happened.
Untouched ==
    phase = "idle" =>
        /\ ~connected /\ ~connCloseRequested /\ ~closeRequested
        /\ ~closed /\ ~handles
        /\ batch = 0 /\ used = 0 /\ limit = 0 /\ outcomes = <<>>

\* A drain is begun by a close only, and complete when all credit is gone.
DrainShape ==
    /\ draining => /\ closeRequested
                   /\ ~inCallback
                   /\ phase \in {"drain", "receiverClose", "detach", "finish"} \/ closed
    /\ drained => draining /\ used = limit

\* Until a drain, what has used credit is what has been settled or is being
\* handled; until a shutdown, the consumer counts the credit the link has.
Counting ==
    /\ used <= limit
    /\ ~draining => /\ used = Len(outcomes) + (IF inCallback THEN 1 ELSE 0)
                    /\ creditRemaining <= limit - used
    /\ ~closing /\ ~closed => creditRemaining = limit - used
    /\ phase # "idle" => manual /\ (batch # 0 => limit = batch)
    /\ batch = 0 => limit <= Len(outcomes) + 1

\* While nobody asked for a stop everything was accepted; a complete batch has
\* used all of its credit.
AllAccepted == \A i \in 1 .. Len(outcomes) : outcomes[i] = "accepted"

BatchShape ==
    /\ ~closeRequested => stopReason = "none" /\ AllAccepted
    /\ stopReason = "batch-complete" =>
        /\ batch # 0 /\ Len(outcomes) = batch /\ AllAccepted
        /\ used = limit
        /\ ~inCallback

\* The receiver is past messagereceiver_close.
Over == phase \in {"detach", "finish"} \/ closed

\* What went wrong so far in a shutdown has been recorded.
FailureRecorded ==
    /\ ioError \/ receiverState = "ERROR" => failed
    /\ receiverState = "CLOSING" => Over
    /\ phase = "receiverClose" /\ draining /\ ~failed => drained \/ detachReceived
    /\ Over /\ ~failed /\ draining /\ receiverState = "CLOSING" => drained
    /\ (phase = "finish" \/ closed) /\ ~failed => detachReceived

\* A recorded failure is pending until a close throws it.
FailurePending ==
    /\ failed => closeRequested /\ (exceptionMessage \/ firstThrown # "none")
    /\ exceptionMessage => failed /\ phase # "done"
    /\ phase \in ClosePhases /\ caller = "cleanup" => firstThrown # "none"
    /\ firstThrown # "none" => closed \/ (phase \in ClosePhases /\ caller = "cleanup")

\* A Throwable of the callback is pending until it is the first exception thrown:
\* only the loop's consume throws it.
ThrowablePending ==
    /\ threw => callbackException \/ firstThrown = "callback"
    /\ callbackException =>
        /\ exceptionMessage
        /\ firstThrown = "none" /\ ~closed
        /\ phase = "consume" \/ (phase \in ClosePhases /\ caller = "consume")

\* A close that is put off is carried out by the end of the run.
CloseShape ==
    /\ connCloseRequested => closeRequested
    /\ phase = "done" /\ connCloseRequested => ~connected
    /\ phase = "consume" /\ ~receiverRunActive => ~connCloseRequested
    /\ phase \in ClosePhases /\ caller = "script" => ~connCloseRequested

Inv == /\ Types
       /\ ControlShape
       /\ CallerFits
       /\ Untouched
       /\ DrainShape
       /\ Counting
       /\ BatchShape
       /\ FailureRecorded
       /\ FailurePending
       /\ ThrowablePending
       /\ CloseShape

-----------------------------------------------------------------------------
(* Each part is kept by every step. *)

\* Control's and Connection's flags stay Boolean.
LEMMA RunFlagsKept ==
    ASSUME Inv, [Next]_vars
    PROVE  RunFlags'
<1> USE DEF Inv, Types, FlagTypes, RunFlags, ConsumerFlags, FailureFlags, DrainFlags,
           vars, control, connection, pending, stop, shutdown, account
<1>1. CASE \E n \in Batches : SetCallback(n)
  BY <1>1 DEF SetCallback
<1>2. CASE \E n \in Batches : SetCallbackFails(n)
  BY <1>2 DEF SetCallbackFails, RequestStop
<1>3. CASE CallConsume
  BY <1>3 DEF CallConsume
<1>4. CASE CallClose
  BY <1>4 DEF CallClose, RequestStop, DefersClose
<1>5. CASE LoopThrows
  BY <1>5 DEF LoopThrows, RequestStop, EnterClose
<1>6. CASE ReceiveMessage
  BY <1>6 DEF ReceiveMessage, Dispatching, IsSurplus, SurplusDisposition
<1>7. CASE EndDispatch
  BY <1>7 DEF EndDispatch, Dispatching
<1>8. CASE \E result \in BOOLEAN : CallbackReturns(result)
  BY <1>8 DEF CallbackReturns, CompletesBatch, finiteBatch, RequestStop
<1>9. CASE \E throwable \in BOOLEAN : CallbackThrows(throwable)
  BY <1>9 DEF CallbackThrows, RecordException, RequestStop
<1>10. CASE Pump
  BY <1>10 DEF Pump, Pumping, KeepsOpening, KeepsDraining, KeepsDetaching
<1>11. CASE FinishClose
  BY <1>11 DEF FinishClose, PendingException, ClosesAfterRun
<1>12. CASE LoopReturns \/ ReceiverOpens \/ ReceiverFails \/ ReceiveDrainAnswer
         \/ (\E condition \in BOOLEAN : ReceiveDetach(condition)) \/ IoFails
         \/ ConsumeCloses \/ ConsumeRefills \/ RefillFails \/ ConsumeReturns
         \/ DeadlinePasses \/ DetachDeadlinePasses \/ BeginDrain \/ SkipDrain
         \/ EndDrain \/ CloseReceiver \/ EndDetach \/ Ended \/ UNCHANGED vars
  <2> UNCHANGED <<doingWork, inCallback, connected, receiverRunActive,
                  connCloseRequested>>
    BY <1>12 DEF LoopReturns, ReceiverOpens, ReceiverFails, ReceiveDrainAnswer,
        ReceiveDetach, IoFails, ConsumeCloses, ConsumeRefills, RefillFails,
        ConsumeReturns, DeadlinePasses, DetachDeadlinePasses, BeginDrain, SkipDrain,
        EndDrain, CloseReceiver, EndDetach, Ended
  <2> QED
    OBVIOUS
<1> QED
  BY <1>1, <1>2, <1>3, <1>4, <1>5, <1>6, <1>7, <1>8, <1>9, <1>10, <1>11, <1>12
     DEF Next

\* Consumer's own flags stay Boolean.
LEMMA ConsumerFlagsKept ==
    ASSUME Inv, [Next]_vars
    PROVE  ConsumerFlags'
<1> USE DEF Inv, Types, FlagTypes, RunFlags, ConsumerFlags, FailureFlags, DrainFlags,
           vars, control, connection, pending, stop, shutdown, account
<1>1. CASE \E n \in Batches : SetCallback(n)
  BY <1>1 DEF SetCallback
<1>2. CASE \E n \in Batches : SetCallbackFails(n)
  BY <1>2 DEF SetCallbackFails, RequestStop
<1>3. CASE CallClose
  BY <1>3 DEF CallClose, RequestStop, DefersClose
<1>4. CASE LoopReturns
  BY <1>4 DEF LoopReturns, RequestStop, EnterClose
<1>5. CASE LoopThrows
  BY <1>5 DEF LoopThrows, RequestStop, EnterClose
<1>6. CASE ReceiverFails
  BY <1>6 DEF ReceiverFails, Dispatching, HandleCallbackException, RecordException,
      RequestStop
<1>7. CASE \E condition \in BOOLEAN : ReceiveDetach(condition)
  BY <1>7 DEF ReceiveDetach, Dispatching, HandleCallbackException, RecordException,
      RequestStop
<1>8. CASE IoFails
  BY <1>8 DEF IoFails, Dispatching, HandleCallbackException, RecordException,
      RequestStop
<1>9. CASE \E result \in BOOLEAN : CallbackReturns(result)
  BY <1>9 DEF CallbackReturns, CompletesBatch, finiteBatch, RequestStop
<1>10. CASE \E throwable \in BOOLEAN : CallbackThrows(throwable)
  BY <1>10 DEF CallbackThrows, RecordException, RequestStop
<1>11. CASE ConsumeCloses
  BY <1>11 DEF ConsumeCloses, HandleCallbackException, RecordException, RequestStop,
      EnterClose
<1>12. CASE RefillFails
  BY <1>12 DEF RefillFails, SetReceiverCredit, RefillDue, finiteBatch, NextCredit,
      HandleCallbackException, RecordException, RequestStop, EnterClose
<1>13. CASE DeadlinePasses
  BY <1>13 DEF DeadlinePasses
<1>14. CASE DetachDeadlinePasses
  BY <1>14 DEF DetachDeadlinePasses
<1>15. CASE BeginDrain
  BY <1>15 DEF BeginDrain, KeepsOpening, Account!Drain, HandleCallbackException,
      RecordException, RequestStop
<1>16. CASE EndDrain
  BY <1>16 DEF EndDrain, SeesDrained, KeepsDraining, HandleCallbackException,
      RecordException, RequestStop
<1>17. CASE CloseReceiver
  BY <1>17 DEF CloseReceiver, HandleCallbackException, RecordException, RequestStop
<1>18. CASE EndDetach
  BY <1>18 DEF EndDetach, KeepsDetaching, ShutdownTimedOut, HandleCallbackException,
      RecordException, RequestStop
<1>19. CASE FinishClose
  BY <1>19 DEF FinishClose, PendingException, ClosesAfterRun
<1>20. CASE CallConsume \/ ReceiverOpens \/ ReceiveMessage \/ ReceiveDrainAnswer
         \/ EndDispatch \/ ConsumeRefills \/ ConsumeReturns \/ Pump \/ SkipDrain
         \/ Ended \/ UNCHANGED vars
  <2> UNCHANGED <<closeRequested, closing, closed, detachReceived, handles, late,
                  detachLate>>
    BY <1>20 DEF CallConsume, ReceiverOpens, ReceiveMessage, ReceiveDrainAnswer,
        EndDispatch, ConsumeRefills, ConsumeReturns, Pump, SkipDrain, Ended
  <2> QED
    OBVIOUS
<1> QED
  BY <1>1, <1>2, <1>3, <1>4, <1>5, <1>6, <1>7, <1>8, <1>9, <1>10, <1>11, <1>12, <1>13,
     <1>14, <1>15, <1>16, <1>17, <1>18, <1>19, <1>20 DEF Next

\* The records of failures stay Boolean.
LEMMA FailureFlagsKept ==
    ASSUME Inv, [Next]_vars
    PROVE  FailureFlags'
<1> USE DEF Inv, Types, FlagTypes, RunFlags, ConsumerFlags, FailureFlags, DrainFlags,
           vars, control, connection, pending, stop, shutdown, account
<1>1. CASE ReceiverFails
  BY <1>1 DEF ReceiverFails, Dispatching, HandleCallbackException, RecordException,
      RequestStop
<1>2. CASE \E condition \in BOOLEAN : ReceiveDetach(condition)
  BY <1>2 DEF ReceiveDetach, Dispatching, HandleCallbackException, RecordException,
      RequestStop
<1>3. CASE IoFails
  BY <1>3 DEF IoFails, Dispatching, HandleCallbackException, RecordException,
      RequestStop
<1>4. CASE \E throwable \in BOOLEAN : CallbackThrows(throwable)
  BY <1>4 DEF CallbackThrows, RecordException, RequestStop
<1>5. CASE ConsumeCloses
  BY <1>5 DEF ConsumeCloses, HandleCallbackException, RecordException, RequestStop,
      EnterClose
<1>6. CASE RefillFails
  BY <1>6 DEF RefillFails, SetReceiverCredit, RefillDue, finiteBatch, NextCredit,
      HandleCallbackException, RecordException, RequestStop, EnterClose
<1>7. CASE BeginDrain
  BY <1>7 DEF BeginDrain, KeepsOpening, Account!Drain, HandleCallbackException,
      RecordException, RequestStop
<1>8. CASE EndDrain
  BY <1>8 DEF EndDrain, SeesDrained, KeepsDraining, HandleCallbackException,
      RecordException, RequestStop
<1>9. CASE CloseReceiver
  BY <1>9 DEF CloseReceiver, HandleCallbackException, RecordException, RequestStop
<1>10. CASE EndDetach
  BY <1>10 DEF EndDetach, KeepsDetaching, ShutdownTimedOut, HandleCallbackException,
      RecordException, RequestStop
<1>11. CASE FinishClose
  BY <1>11 DEF FinishClose, PendingException, ClosesAfterRun
<1>12. CASE (\E n \in Batches : SetCallback(n))
         \/ (\E n \in Batches : SetCallbackFails(n)) \/ CallConsume \/ CallClose
         \/ LoopReturns \/ LoopThrows \/ ReceiverOpens \/ ReceiveMessage
         \/ ReceiveDrainAnswer \/ EndDispatch
         \/ (\E result \in BOOLEAN : CallbackReturns(result)) \/ ConsumeRefills
         \/ ConsumeReturns \/ Pump \/ DeadlinePasses \/ DetachDeadlinePasses
         \/ SkipDrain \/ Ended \/ UNCHANGED vars
  <2> UNCHANGED <<callbackException, exceptionMessage, ioError, failed, threw>>
    BY <1>12 DEF SetCallback, SetCallbackFails, CallConsume, CallClose, LoopReturns,
        LoopThrows, ReceiverOpens, ReceiveMessage, ReceiveDrainAnswer, EndDispatch,
        CallbackReturns, ConsumeRefills, ConsumeReturns, Pump, DeadlinePasses,
        DetachDeadlinePasses, SkipDrain, Ended
  <2> QED
    OBVIOUS
<1> QED
  BY <1>1, <1>2, <1>3, <1>4, <1>5, <1>6, <1>7, <1>8, <1>9, <1>10, <1>11, <1>12
     DEF Next

\* The link's flags stay Boolean.
LEMMA DrainFlagsKept ==
    ASSUME Inv, [Next]_vars
    PROVE  DrainFlags'
<1> USE DEF Inv, Types, FlagTypes, RunFlags, ConsumerFlags, FailureFlags, DrainFlags,
           vars, control, connection, pending, stop, shutdown, account
<1>1. CASE \E n \in Batches : SetCallback(n)
  BY <1>1 DEF SetCallback
<1>2. CASE \E n \in Batches : SetCallbackFails(n)
  BY <1>2 DEF SetCallbackFails, RequestStop
<1>3. CASE ReceiveDrainAnswer
  BY <1>3 DEF ReceiveDrainAnswer, Dispatching, Account!Return
<1>4. CASE ConsumeRefills
  BY <1>4 DEF ConsumeRefills, SetReceiverCredit, RefillDue, finiteBatch, NextCredit
<1>5. CASE BeginDrain
  BY <1>5 DEF BeginDrain, KeepsOpening, Account!Drain, HandleCallbackException,
      RecordException, RequestStop
<1>6. CASE RefillFails
  BY <1>6 DEF RefillFails, SetReceiverCredit
<1>7. CASE CallConsume \/ CallClose \/ LoopReturns \/ LoopThrows \/ ReceiverOpens
         \/ ReceiverFails \/ ReceiveMessage
         \/ (\E condition \in BOOLEAN : ReceiveDetach(condition)) \/ IoFails
         \/ EndDispatch \/ (\E result \in BOOLEAN : CallbackReturns(result))
         \/ (\E throwable \in BOOLEAN : CallbackThrows(throwable)) \/ ConsumeCloses
         \/ ConsumeReturns \/ Pump \/ DeadlinePasses
         \/ DetachDeadlinePasses \/ SkipDrain \/ EndDrain \/ CloseReceiver \/ EndDetach
         \/ FinishClose \/ Ended \/ UNCHANGED vars
  <2> UNCHANGED <<manual, draining, drained>>
    BY <1>7 DEF CallConsume, CallClose, LoopReturns, LoopThrows, ReceiverOpens,
        ReceiverFails, ReceiveMessage, ReceiveDetach, IoFails, EndDispatch,
        CallbackReturns, CallbackThrows, ConsumeCloses, ConsumeReturns,
        Pump, DeadlinePasses, DetachDeadlinePasses, SkipDrain, EndDrain, CloseReceiver,
        EndDetach, FinishClose, Ended
  <2> QED
    OBVIOUS
<1> QED
  BY <1>1, <1>2, <1>3, <1>4, <1>5, <1>6, <1>7 DEF Next

\* Phases, callers, states, reasons and exceptions keep their types.
LEMMA NameTypesKept ==
    ASSUME Inv, [Next]_vars
    PROVE  NameTypes'
<1> USE DEF Inv, Types, NameTypes, Phases, Callers, ReceiverStates, StopReasons, Thrown,
           vars, control, connection, pending, stop, shutdown, account
<1>1. CASE \E n \in Batches : SetCallback(n)
  BY <1>1 DEF SetCallback
<1>2. CASE \E n \in Batches : SetCallbackFails(n)
  BY <1>2 DEF SetCallbackFails, RequestStop
<1>3. CASE CallConsume
  BY <1>3 DEF CallConsume
<1>4. CASE CallClose
  BY <1>4 DEF CallClose, RequestStop, DefersClose
<1>5. CASE LoopReturns
  BY <1>5 DEF LoopReturns, RequestStop, EnterClose
<1>6. CASE LoopThrows
  BY <1>6 DEF LoopThrows, RequestStop, EnterClose
<1>7. CASE ReceiverOpens
  BY <1>7 DEF ReceiverOpens, Dispatching
<1>8. CASE ReceiverFails
  BY <1>8 DEF ReceiverFails, Dispatching, HandleCallbackException, RecordException,
      RequestStop
<1>9. CASE \E condition \in BOOLEAN : ReceiveDetach(condition)
  BY <1>9 DEF ReceiveDetach, Dispatching, HandleCallbackException, RecordException,
      RequestStop
<1>10. CASE IoFails
  BY <1>10 DEF IoFails, Dispatching, HandleCallbackException, RecordException,
      RequestStop
<1>11. CASE \E result \in BOOLEAN : CallbackReturns(result)
  BY <1>11 DEF CallbackReturns, CompletesBatch, finiteBatch, RequestStop
<1>12. CASE \E throwable \in BOOLEAN : CallbackThrows(throwable)
  BY <1>12 DEF CallbackThrows, RecordException, RequestStop
<1>13. CASE ConsumeCloses
  BY <1>13 DEF ConsumeCloses, HandleCallbackException, RecordException, RequestStop,
      EnterClose
<1>14. CASE ConsumeRefills
  BY <1>14 DEF ConsumeRefills, SetReceiverCredit, RefillDue, finiteBatch, NextCredit
<1>15. CASE RefillFails
  BY <1>15 DEF RefillFails, SetReceiverCredit, RefillDue, finiteBatch, NextCredit,
      HandleCallbackException, RecordException, RequestStop, EnterClose
<1>16. CASE ConsumeReturns
  BY <1>16 DEF ConsumeReturns, RefillDue, finiteBatch
<1>17. CASE BeginDrain
  BY <1>17 DEF BeginDrain, KeepsOpening, Account!Drain, HandleCallbackException,
      RecordException, RequestStop
<1>18. CASE SkipDrain
  BY <1>18 DEF SkipDrain, KeepsOpening
<1>19. CASE EndDrain
  BY <1>19 DEF EndDrain, SeesDrained, KeepsDraining, HandleCallbackException,
      RecordException, RequestStop
<1>20. CASE CloseReceiver
  BY <1>20 DEF CloseReceiver, HandleCallbackException, RecordException, RequestStop
<1>21. CASE EndDetach
  BY <1>21 DEF EndDetach, KeepsDetaching, ShutdownTimedOut, HandleCallbackException,
      RecordException, RequestStop
<1>22. CASE FinishClose
  BY <1>22 DEF FinishClose, PendingException, ClosesAfterRun
<1>23. CASE ReceiveMessage \/ ReceiveDrainAnswer \/ EndDispatch \/ Pump
         \/ DeadlinePasses \/ DetachDeadlinePasses \/ Ended \/ UNCHANGED vars
  <2> UNCHANGED <<phase, caller, receiverState, stopReason, firstThrown>>
    BY <1>23 DEF ReceiveMessage, ReceiveDrainAnswer, EndDispatch, Pump, DeadlinePasses,
        DetachDeadlinePasses, Ended
  <2> QED
    OBVIOUS
<1> QED
  BY <1>1, <1>2, <1>3, <1>4, <1>5, <1>6, <1>7, <1>8, <1>9, <1>10, <1>11, <1>12, <1>13,
     <1>14, <1>15, <1>16, <1>17, <1>18, <1>19, <1>20, <1>21, <1>22, <1>23 DEF Next

\* Counts stay natural numbers, outcomes dispositions.
LEMMA CountTypesKept ==
    ASSUME Inv, [Next]_vars
    PROVE  CountTypes'
<1> USE DEF Inv, Types, CountTypes, Dispositions, vars, control, connection, pending,
           stop, shutdown, account
<1>1. CASE \E n \in Batches : SetCallback(n)
  BY <1>1, BatchesAssumption DEF SetCallback, BatchesAssumption
<1>2. CASE \E n \in Batches : SetCallbackFails(n)
  BY <1>2, BatchesAssumption DEF SetCallbackFails, RequestStop, BatchesAssumption
<1>3. CASE ReceiveMessage
  BY <1>3 DEF ReceiveMessage, Dispatching, IsSurplus, SurplusDisposition
<1>4. CASE ReceiveDrainAnswer
  BY <1>4 DEF ReceiveDrainAnswer, Dispatching, Account!Return
<1>5. CASE \E result \in BOOLEAN : CallbackReturns(result)
  BY <1>5 DEF CallbackReturns, CompletesBatch, finiteBatch, RequestStop
<1>6. CASE \E throwable \in BOOLEAN : CallbackThrows(throwable)
  BY <1>6 DEF CallbackThrows, RecordException, RequestStop
<1>7. CASE ConsumeRefills
  BY <1>7 DEF ConsumeRefills, SetReceiverCredit, RefillDue, finiteBatch, NextCredit
<1>8. CASE BeginDrain
  BY <1>8 DEF BeginDrain, KeepsOpening, Account!Drain, HandleCallbackException,
      RecordException, RequestStop
<1>9. CASE RefillFails
  BY <1>9 DEF RefillFails, SetReceiverCredit, RefillDue, finiteBatch, NextCredit
<1>10. CASE CallConsume \/ CallClose \/ LoopReturns \/ LoopThrows \/ ReceiverOpens
         \/ ReceiverFails \/ (\E condition \in BOOLEAN : ReceiveDetach(condition))
         \/ IoFails \/ EndDispatch \/ ConsumeCloses \/ ConsumeReturns
         \/ Pump \/ DeadlinePasses \/ DetachDeadlinePasses \/ SkipDrain \/ EndDrain
         \/ CloseReceiver \/ EndDetach \/ FinishClose \/ Ended \/ UNCHANGED vars
  <2> UNCHANGED <<batch, creditRemaining, used, limit, outcomes>>
    BY <1>10 DEF CallConsume, CallClose, LoopReturns, LoopThrows, ReceiverOpens,
        ReceiverFails, ReceiveDetach, IoFails, EndDispatch, ConsumeCloses,
        ConsumeReturns, Pump, DeadlinePasses, DetachDeadlinePasses, SkipDrain, EndDrain,
        CloseReceiver, EndDetach, FinishClose, Ended
  <2> QED
    OBVIOUS
<1> QED
  BY <1>1, <1>2, <1>3, <1>4, <1>5, <1>6, <1>7, <1>8, <1>9, <1>10
     DEF Next

\* Control moves between the functions as ControlShape says.
LEMMA ControlShapeKept ==
    ASSUME Inv, [Next]_vars
    PROVE  ControlShape'
<1> USE DEF Inv, Types, FlagTypes, RunFlags, ConsumerFlags, FailureFlags, DrainFlags,
           NameTypes, Phases, ControlShape, CallerFits, Untouched, ClosePhases, Callers,
           vars, control, connection, pending, stop, shutdown, account
<1>1. CASE \E n \in Batches : SetCallback(n)
  BY <1>1 DEF SetCallback
<1>2. CASE \E n \in Batches : SetCallbackFails(n)
  BY <1>2 DEF SetCallbackFails, RequestStop
<1>3. CASE CallConsume
  BY <1>3 DEF CallConsume
<1>4. CASE CallClose
  BY <1>4 DEF CallClose, RequestStop, DefersClose
<1>5. CASE LoopReturns
  BY <1>5 DEF LoopReturns, RequestStop, EnterClose
<1>6. CASE LoopThrows
  BY <1>6 DEF LoopThrows, RequestStop, EnterClose
<1>7. CASE ReceiverFails
  BY <1>7 DEF ReceiverFails, Dispatching, HandleCallbackException, RecordException,
      RequestStop
<1>8. CASE ReceiveMessage
  BY <1>8 DEF ReceiveMessage, Dispatching, IsSurplus, SurplusDisposition
<1>9. CASE \E condition \in BOOLEAN : ReceiveDetach(condition)
  BY <1>9 DEF ReceiveDetach, Dispatching, HandleCallbackException, RecordException,
      RequestStop
<1>10. CASE IoFails
  BY <1>10 DEF IoFails, Dispatching, HandleCallbackException, RecordException,
      RequestStop
<1>11. CASE EndDispatch
  BY <1>11 DEF EndDispatch, Dispatching
<1>12. CASE \E result \in BOOLEAN : CallbackReturns(result)
  BY <1>12 DEF CallbackReturns, CompletesBatch, finiteBatch, RequestStop
<1>13. CASE \E throwable \in BOOLEAN : CallbackThrows(throwable)
  BY <1>13 DEF CallbackThrows, RecordException, RequestStop
<1>14. CASE ConsumeCloses
  BY <1>14 DEF ConsumeCloses, HandleCallbackException, RecordException, RequestStop,
      EnterClose
<1>15. CASE ConsumeRefills
  BY <1>15 DEF ConsumeRefills, SetReceiverCredit, RefillDue, finiteBatch, NextCredit
<1>16. CASE RefillFails
  BY <1>16 DEF RefillFails, SetReceiverCredit, RefillDue, finiteBatch, NextCredit,
      HandleCallbackException, RecordException, RequestStop, EnterClose
<1>17. CASE ConsumeReturns
  BY <1>17 DEF ConsumeReturns, RefillDue, finiteBatch
<1>18. CASE Pump
  BY <1>18 DEF Pump, Pumping, KeepsOpening, KeepsDraining, KeepsDetaching
<1>19. CASE BeginDrain
  BY <1>19 DEF BeginDrain, KeepsOpening, Account!Drain, HandleCallbackException,
      RecordException, RequestStop
<1>20. CASE SkipDrain
  BY <1>20 DEF SkipDrain, KeepsOpening
<1>21. CASE EndDrain
  BY <1>21 DEF EndDrain, SeesDrained, KeepsDraining, HandleCallbackException,
      RecordException, RequestStop
<1>22. CASE CloseReceiver
  BY <1>22 DEF CloseReceiver, HandleCallbackException, RecordException, RequestStop
<1>23. CASE EndDetach
  BY <1>23 DEF EndDetach, KeepsDetaching, ShutdownTimedOut, HandleCallbackException,
      RecordException, RequestStop
<1>24. CASE FinishClose
  BY <1>24 DEF FinishClose, PendingException, ClosesAfterRun
<1>25. CASE ReceiverOpens \/ ReceiveDrainAnswer \/ DeadlinePasses
         \/ DetachDeadlinePasses \/ Ended \/ UNCHANGED vars
  <2> UNCHANGED <<doingWork, inCallback, phase, receiverRunActive, connected, closed,
                  closing, handles, closeRequested>>
    BY <1>25 DEF ReceiverOpens, ReceiveDrainAnswer, DeadlinePasses,
        DetachDeadlinePasses, Ended
  <2> QED
    OBVIOUS
<1> QED
  BY <1>1, <1>2, <1>3, <1>4, <1>5, <1>6, <1>7, <1>8, <1>9, <1>10, <1>11, <1>12, <1>13,
     <1>14, <1>15, <1>16, <1>17, <1>18, <1>19, <1>20, <1>21, <1>22, <1>23, <1>24, <1>25
     DEF Next

\* A close has a caller that fits.
LEMMA CallerFitsKept ==
    ASSUME Inv, [Next]_vars
    PROVE  CallerFits'
<1> USE DEF Inv, Types, FlagTypes, RunFlags, ConsumerFlags, FailureFlags, DrainFlags,
           ControlShape, CallerFits, ClosePhases, vars, control, connection, pending,
           stop, shutdown, account
<1>1. CASE \E n \in Batches : SetCallback(n)
  BY <1>1 DEF SetCallback
<1>2. CASE \E n \in Batches : SetCallbackFails(n)
  BY <1>2 DEF SetCallbackFails, RequestStop
<1>3. CASE CallConsume
  BY <1>3 DEF CallConsume
<1>4. CASE LoopReturns
  BY <1>4 DEF LoopReturns, RequestStop, EnterClose
<1>5. CASE LoopThrows
  BY <1>5 DEF LoopThrows, RequestStop, EnterClose
<1>6. CASE ConsumeCloses
  BY <1>6 DEF ConsumeCloses, HandleCallbackException, RecordException, RequestStop,
      EnterClose
<1>7. CASE ConsumeRefills
  BY <1>7 DEF ConsumeRefills, SetReceiverCredit, RefillDue, finiteBatch, NextCredit
<1>8. CASE RefillFails
  BY <1>8 DEF RefillFails, SetReceiverCredit, RefillDue, finiteBatch, NextCredit,
      HandleCallbackException, RecordException, RequestStop, EnterClose
<1>9. CASE ConsumeReturns
  BY <1>9 DEF ConsumeReturns, RefillDue, finiteBatch
<1>10. CASE BeginDrain
  BY <1>10 DEF BeginDrain, KeepsOpening, Account!Drain, HandleCallbackException,
      RecordException, RequestStop
<1>11. CASE SkipDrain
  BY <1>11 DEF SkipDrain, KeepsOpening
<1>12. CASE EndDrain
  BY <1>12 DEF EndDrain, SeesDrained, KeepsDraining, HandleCallbackException,
      RecordException, RequestStop
<1>13. CASE CloseReceiver
  BY <1>13 DEF CloseReceiver, HandleCallbackException, RecordException, RequestStop
<1>14. CASE EndDetach
  BY <1>14 DEF EndDetach, KeepsDetaching, ShutdownTimedOut, HandleCallbackException,
      RecordException, RequestStop
<1>15. CASE FinishClose
  BY <1>15 DEF FinishClose, PendingException, ClosesAfterRun
<1>16. CASE CallClose \/ ReceiverOpens \/ ReceiverFails \/ ReceiveMessage
         \/ ReceiveDrainAnswer \/ (\E condition \in BOOLEAN : ReceiveDetach(condition))
         \/ IoFails \/ EndDispatch \/ (\E result \in BOOLEAN : CallbackReturns(result))
         \/ (\E throwable \in BOOLEAN : CallbackThrows(throwable)) \/ Pump
         \/ DeadlinePasses \/ DetachDeadlinePasses \/ Ended \/ UNCHANGED vars
  <2> UNCHANGED <<phase, caller, receiverRunActive, closed>>
    BY <1>16 DEF CallClose, ReceiverOpens, ReceiverFails, ReceiveMessage,
        ReceiveDrainAnswer, ReceiveDetach, IoFails, EndDispatch, CallbackReturns,
        CallbackThrows, Pump, DeadlinePasses, DetachDeadlinePasses, Ended
  <2> QED
    OBVIOUS
<1> QED
  BY <1>1, <1>2, <1>3, <1>4, <1>5, <1>6, <1>7, <1>8, <1>9, <1>10, <1>11, <1>12, <1>13,
     <1>14, <1>15, <1>16 DEF Next

\* Nothing returns to the state before setCallback, and nothing happens in it.
LEMMA UntouchedKept ==
    ASSUME Inv, [Next]_vars
    PROVE  Untouched'
<1> USE DEF Inv, ControlShape, Untouched, vars, control, connection, pending, stop,
           shutdown, account
<1>1. CASE \E n \in Batches : SetCallback(n)
  BY <1>1 DEF SetCallback
<1>2. CASE \E n \in Batches : SetCallbackFails(n)
  BY <1>2 DEF SetCallbackFails, RequestStop
<1>3. CASE CallConsume
  BY <1>3 DEF CallConsume
<1>4. CASE CallClose
  BY <1>4 DEF CallClose, RequestStop, DefersClose
<1>5. CASE LoopReturns
  BY <1>5 DEF LoopReturns, RequestStop, EnterClose
<1>6. CASE LoopThrows
  BY <1>6 DEF LoopThrows, RequestStop, EnterClose
<1>7. CASE ReceiverFails
  BY <1>7 DEF ReceiverFails, Dispatching, HandleCallbackException, RecordException,
      RequestStop
<1>8. CASE ReceiveMessage
  BY <1>8 DEF ReceiveMessage, Dispatching, IsSurplus, SurplusDisposition
<1>9. CASE ReceiveDrainAnswer
  BY <1>9 DEF ReceiveDrainAnswer, Dispatching, Account!Return
<1>10. CASE \E condition \in BOOLEAN : ReceiveDetach(condition)
  BY <1>10 DEF ReceiveDetach, Dispatching, HandleCallbackException, RecordException,
      RequestStop
<1>11. CASE IoFails
  BY <1>11 DEF IoFails, Dispatching, HandleCallbackException, RecordException,
      RequestStop
<1>12. CASE \E result \in BOOLEAN : CallbackReturns(result)
  BY <1>12 DEF CallbackReturns, CompletesBatch, finiteBatch, RequestStop
<1>13. CASE \E throwable \in BOOLEAN : CallbackThrows(throwable)
  BY <1>13 DEF CallbackThrows, RecordException, RequestStop
<1>14. CASE ConsumeCloses
  BY <1>14 DEF ConsumeCloses, HandleCallbackException, RecordException, RequestStop,
      EnterClose
<1>15. CASE ConsumeRefills
  BY <1>15 DEF ConsumeRefills, SetReceiverCredit, RefillDue, finiteBatch, NextCredit
<1>16. CASE RefillFails
  BY <1>16 DEF RefillFails, SetReceiverCredit, RefillDue, finiteBatch, NextCredit,
      HandleCallbackException, RecordException, RequestStop, EnterClose
<1>17. CASE ConsumeReturns
  BY <1>17 DEF ConsumeReturns, RefillDue, finiteBatch
<1>18. CASE BeginDrain
  BY <1>18 DEF BeginDrain, KeepsOpening, Account!Drain, HandleCallbackException,
      RecordException, RequestStop
<1>19. CASE SkipDrain
  BY <1>19 DEF SkipDrain, KeepsOpening
<1>20. CASE EndDrain
  BY <1>20 DEF EndDrain, SeesDrained, KeepsDraining, HandleCallbackException,
      RecordException, RequestStop
<1>21. CASE CloseReceiver
  BY <1>21 DEF CloseReceiver, HandleCallbackException, RecordException, RequestStop
<1>22. CASE EndDetach
  BY <1>22 DEF EndDetach, KeepsDetaching, ShutdownTimedOut, HandleCallbackException,
      RecordException, RequestStop
<1>23. CASE FinishClose
  BY <1>23 DEF FinishClose, PendingException, ClosesAfterRun
<1>24. CASE ReceiverOpens \/ EndDispatch \/ Pump \/ DeadlinePasses
         \/ DetachDeadlinePasses \/ Ended \/ UNCHANGED vars
  <2> UNCHANGED <<phase, connected, connCloseRequested, closeRequested, closed, handles,
                  batch, used, limit, outcomes>>
    BY <1>24 DEF ReceiverOpens, EndDispatch, Pump, DeadlinePasses, DetachDeadlinePasses,
        Ended
  <2> QED
    OBVIOUS
<1> QED
  BY <1>1, <1>2, <1>3, <1>4, <1>5, <1>6, <1>7, <1>8, <1>9, <1>10, <1>11, <1>12, <1>13,
     <1>14, <1>15, <1>16, <1>17, <1>18, <1>19, <1>20, <1>21, <1>22, <1>23, <1>24
     DEF Next

\* Only a close drains.
LEMMA DrainShapeKept ==
    ASSUME Inv, [Next]_vars
    PROVE  DrainShape'
<1> USE DEF Inv, Types, FlagTypes, RunFlags, ConsumerFlags, FailureFlags, DrainFlags,
           NameTypes, Phases, CountTypes, ControlShape, ClosePhases, Untouched,
           DrainShape, Counting, vars, control, connection, pending, stop, shutdown,
           account
<1>1. CASE \E n \in Batches : SetCallback(n)
  BY <1>1 DEF SetCallback
<1>2. CASE \E n \in Batches : SetCallbackFails(n)
  BY <1>2 DEF SetCallbackFails, RequestStop
<1>3. CASE CallConsume
  BY <1>3 DEF CallConsume
<1>4. CASE CallClose
  BY <1>4 DEF CallClose, RequestStop, DefersClose
<1>5. CASE LoopReturns
  BY <1>5 DEF LoopReturns, RequestStop, EnterClose
<1>6. CASE LoopThrows
  BY <1>6 DEF LoopThrows, RequestStop, EnterClose
<1>7. CASE ReceiverFails
  BY <1>7 DEF ReceiverFails, Dispatching, HandleCallbackException, RecordException,
      RequestStop
<1>8. CASE ReceiveMessage
  BY <1>8 DEF ReceiveMessage, Dispatching, IsSurplus, SurplusDisposition
<1>9. CASE ReceiveDrainAnswer
  BY <1>9 DEF ReceiveDrainAnswer, Dispatching, Account!Return
<1>10. CASE \E condition \in BOOLEAN : ReceiveDetach(condition)
  BY <1>10 DEF ReceiveDetach, Dispatching, HandleCallbackException, RecordException,
      RequestStop
<1>11. CASE IoFails
  BY <1>11 DEF IoFails, Dispatching, HandleCallbackException, RecordException,
      RequestStop
<1>12. CASE \E result \in BOOLEAN : CallbackReturns(result)
  BY <1>12 DEF CallbackReturns, CompletesBatch, finiteBatch, RequestStop
<1>13. CASE \E throwable \in BOOLEAN : CallbackThrows(throwable)
  BY <1>13 DEF CallbackThrows, RecordException, RequestStop
<1>14. CASE ConsumeCloses
  BY <1>14 DEF ConsumeCloses, HandleCallbackException, RecordException, RequestStop,
      EnterClose
<1>15. CASE ConsumeRefills
  BY <1>15 DEF ConsumeRefills, SetReceiverCredit, RefillDue, finiteBatch, NextCredit
<1>16. CASE RefillFails
  <2>1. ~draining /\ ~drained
    BY <1>16 DEF RefillFails
  <2>2. CASE UNCHANGED account
    BY <2>1, <2>2
  <2>3. CASE SetReceiverCredit
    BY <2>3 DEF SetReceiverCredit
  <2> QED
    BY <1>16, <2>2, <2>3 DEF RefillFails
<1>17. CASE ConsumeReturns
  BY <1>17 DEF ConsumeReturns, RefillDue, finiteBatch
<1>18. CASE BeginDrain
  <2>1. CASE phase' = "drain" /\ Account!Drain /\ UNCHANGED <<pending, stop>>
    BY <1>18, <2>1 DEF BeginDrain, Account!Drain
  <2>2. CASE phase' = "receiverClose" /\ HandleCallbackException /\ UNCHANGED account
    BY <1>18, <2>2 DEF BeginDrain, HandleCallbackException, RecordException, RequestStop
  <2>3. CASE phase' = "receiverClose" /\ HandleCallbackException /\ Account!Drain
    BY <1>18, <2>3 DEF BeginDrain, Account!Drain, HandleCallbackException,
        RecordException, RequestStop
  <2> QED
    BY <1>18, <2>1, <2>2, <2>3 DEF BeginDrain
<1>19. CASE SkipDrain
  BY <1>19 DEF SkipDrain, KeepsOpening
<1>20. CASE EndDrain
  BY <1>20 DEF EndDrain, SeesDrained, KeepsDraining, HandleCallbackException,
      RecordException, RequestStop
<1>21. CASE CloseReceiver
  BY <1>21 DEF CloseReceiver, HandleCallbackException, RecordException, RequestStop
<1>22. CASE EndDetach
  BY <1>22 DEF EndDetach, KeepsDetaching, ShutdownTimedOut, HandleCallbackException,
      RecordException, RequestStop
<1>23. CASE FinishClose
  BY <1>23 DEF FinishClose, PendingException, ClosesAfterRun
<1>24. CASE ReceiverOpens \/ EndDispatch \/ Pump \/ DeadlinePasses
         \/ DetachDeadlinePasses \/ Ended \/ UNCHANGED vars
  <2> UNCHANGED <<draining, closeRequested, phase, closed, drained, used, limit,
                  inCallback>>
    BY <1>24 DEF ReceiverOpens, EndDispatch, Pump, DeadlinePasses, DetachDeadlinePasses,
        Ended
  <2> QED
    OBVIOUS
<1> QED
  BY <1>1, <1>2, <1>3, <1>4, <1>5, <1>6, <1>7, <1>8, <1>9, <1>10, <1>11, <1>12, <1>13,
     <1>14, <1>15, <1>16, <1>17, <1>18, <1>19, <1>20, <1>21, <1>22, <1>23, <1>24
     DEF Next

\* Arithmetic of a grant of one that the consumer does not count.
LEMMA OneMore ==
    ASSUME NEW m \in Nat, NEW n, n = m + 1
    PROVE  m <= n /\ 0 <= n - m /\ n <= m + 1
  OBVIOUS

\* Credit follows settlement.
LEMMA CountingKept ==
    ASSUME Inv, [Next]_vars
    PROVE  Counting'
<1> USE DEF Inv, Types, FlagTypes, RunFlags, ConsumerFlags, FailureFlags, DrainFlags,
           CountTypes, Dispositions, ControlShape, Untouched, ClosePhases, DrainShape,
           Counting, vars, control, connection, pending, stop, shutdown, account
<1>1. CASE \E n \in Batches : SetCallback(n)
  BY <1>1, BatchesAssumption DEF SetCallback, BatchesAssumption
<1>2. CASE \E n \in Batches : SetCallbackFails(n)
  BY <1>2, BatchesAssumption DEF SetCallbackFails, RequestStop, BatchesAssumption
<1>3. CASE CallConsume
  BY <1>3 DEF CallConsume
<1>4. CASE LoopReturns
  BY <1>4 DEF LoopReturns, RequestStop, EnterClose
<1>5. CASE LoopThrows
  BY <1>5 DEF LoopThrows, RequestStop, EnterClose
<1>6. CASE ReceiveMessage
  BY <1>6 DEF ReceiveMessage, Dispatching, IsSurplus, SurplusDisposition
<1>7. CASE ReceiveDrainAnswer
  BY <1>7 DEF ReceiveDrainAnswer, Dispatching, Account!Return
<1>8. CASE \E result \in BOOLEAN : CallbackReturns(result)
  BY <1>8 DEF CallbackReturns, CompletesBatch, finiteBatch, RequestStop
<1>9. CASE \E throwable \in BOOLEAN : CallbackThrows(throwable)
  BY <1>9 DEF CallbackThrows, RecordException, RequestStop
<1>10. CASE ConsumeCloses
  BY <1>10 DEF ConsumeCloses, HandleCallbackException, RecordException, RequestStop,
      EnterClose
<1>11. CASE ConsumeRefills
  BY <1>11 DEF ConsumeRefills, SetReceiverCredit, RefillDue, finiteBatch, NextCredit
<1>12. CASE RefillFails
  <2>1. /\ phase = "consume" /\ phase' # "idle" /\ closing' /\ ~inCallback /\ ~draining
        /\ batch = 0 /\ creditRemaining = 0 /\ used = limit /\ used = Len(outcomes)
    BY <1>12 DEF RefillFails, RefillDue, finiteBatch, EnterClose
  <2>2. UNCHANGED <<used, batch, creditRemaining, outcomes, inCallback>>
    BY <1>12 DEF RefillFails, SetReceiverCredit
  <2>3. CASE UNCHANGED account
    BY <2>1, <2>2, <2>3
  <2>4. CASE SetReceiverCredit
    <3>1. limit' = used + 1 /\ manual' /\ used \in Nat
      BY <2>4 DEF SetReceiverCredit, NextCredit
    <3>2. used <= limit' /\ 0 <= limit' - used /\ limit' <= used + 1
      BY <3>1, OneMore
    <3>3. used' = used /\ creditRemaining' = 0 /\ Len(outcomes') = used /\ ~inCallback'
      BY <2>1, <2>2
    <3> QED
      BY <2>1, <2>2, <3>1, <3>2, <3>3
  <2> QED
    BY <1>12, <2>3, <2>4 DEF RefillFails
<1>13. CASE ConsumeReturns
  BY <1>13 DEF ConsumeReturns, RefillDue, finiteBatch
<1>14. CASE BeginDrain
  <2>1. CASE phase' = "drain" /\ Account!Drain /\ UNCHANGED <<pending, stop>>
    BY <1>14, <2>1 DEF BeginDrain, Account!Drain
  <2>2. CASE phase' = "receiverClose" /\ HandleCallbackException /\ UNCHANGED account
    BY <1>14, <2>2 DEF BeginDrain, HandleCallbackException, RecordException, RequestStop
  <2>3. CASE phase' = "receiverClose" /\ HandleCallbackException /\ Account!Drain
    BY <1>14, <2>3 DEF BeginDrain, Account!Drain, HandleCallbackException,
        RecordException, RequestStop
  <2> QED
    BY <1>14, <2>1, <2>2, <2>3 DEF BeginDrain
<1>15. CASE SkipDrain
  BY <1>15 DEF SkipDrain, KeepsOpening
<1>16. CASE EndDrain
  BY <1>16 DEF EndDrain, SeesDrained, KeepsDraining, HandleCallbackException,
      RecordException, RequestStop
<1>17. CASE CloseReceiver
  BY <1>17 DEF CloseReceiver, HandleCallbackException, RecordException, RequestStop
<1>18. CASE EndDetach
  BY <1>18 DEF EndDetach, KeepsDetaching, ShutdownTimedOut, HandleCallbackException,
      RecordException, RequestStop
<1>19. CASE FinishClose
  BY <1>19 DEF FinishClose, PendingException, ClosesAfterRun
<1>20. CASE CallClose \/ ReceiverOpens \/ ReceiverFails
         \/ (\E condition \in BOOLEAN : ReceiveDetach(condition)) \/ IoFails
         \/ EndDispatch \/ Pump \/ DeadlinePasses \/ DetachDeadlinePasses \/ Ended
         \/ UNCHANGED vars
  <2> UNCHANGED <<used, limit, draining, outcomes, inCallback, creditRemaining, phase,
                  manual, batch, closing, closed>>
    BY <1>20 DEF CallClose, ReceiverOpens, ReceiverFails, ReceiveDetach, IoFails,
        EndDispatch, Pump, DeadlinePasses, DetachDeadlinePasses, Ended
  <2> QED
    OBVIOUS
<1> QED
  BY <1>1, <1>2, <1>3, <1>4, <1>5, <1>6, <1>7, <1>8, <1>9, <1>10, <1>11, <1>12, <1>13,
     <1>14, <1>15, <1>16, <1>17, <1>18, <1>19, <1>20 DEF Next

\* A complete batch stays complete.
LEMMA BatchShapeKept ==
    ASSUME Inv, [Next]_vars
    PROVE  BatchShape'
<1> USE DEF Inv, Types, FlagTypes, RunFlags, ConsumerFlags, FailureFlags, DrainFlags,
           CountTypes, Dispositions, ControlShape, Untouched, DrainShape, Counting,
           ClosePhases, BatchShape, AllAccepted, vars, control, connection, pending,
           stop, shutdown, account
<1>1. CASE \E n \in Batches : SetCallback(n)
  BY <1>1 DEF SetCallback
<1>2. CASE \E n \in Batches : SetCallbackFails(n)
  BY <1>2 DEF SetCallbackFails, RequestStop
<1>3. CASE CallClose
  BY <1>3 DEF CallClose, RequestStop, DefersClose
<1>4. CASE LoopReturns
  BY <1>4 DEF LoopReturns, RequestStop, EnterClose
<1>5. CASE LoopThrows
  BY <1>5 DEF LoopThrows, RequestStop, EnterClose
<1>6. CASE ReceiverFails
  BY <1>6 DEF ReceiverFails, Dispatching, HandleCallbackException, RecordException,
      RequestStop
<1>7. CASE ReceiveMessage
  BY <1>7 DEF ReceiveMessage, Dispatching, IsSurplus, SurplusDisposition
<1>8. CASE ReceiveDrainAnswer
  BY <1>8 DEF ReceiveDrainAnswer, Dispatching, Account!Return
<1>9. CASE \E condition \in BOOLEAN : ReceiveDetach(condition)
  BY <1>9 DEF ReceiveDetach, Dispatching, HandleCallbackException, RecordException,
      RequestStop
<1>10. CASE IoFails
  BY <1>10 DEF IoFails, Dispatching, HandleCallbackException, RecordException,
      RequestStop
<1>11. CASE \E result \in BOOLEAN : CallbackReturns(result)
  BY <1>11 DEF CallbackReturns, CompletesBatch, finiteBatch, RequestStop
<1>12. CASE \E throwable \in BOOLEAN : CallbackThrows(throwable)
  BY <1>12 DEF CallbackThrows, RecordException, RequestStop
<1>13. CASE ConsumeCloses
  BY <1>13 DEF ConsumeCloses, HandleCallbackException, RecordException, RequestStop,
      EnterClose
<1>14. CASE ConsumeRefills
  BY <1>14 DEF ConsumeRefills, SetReceiverCredit, RefillDue, finiteBatch, NextCredit
<1>15. CASE RefillFails
  BY <1>15 DEF RefillFails, SetReceiverCredit, RefillDue, finiteBatch, NextCredit,
      HandleCallbackException, RecordException, RequestStop, EnterClose
<1>16. CASE BeginDrain
  <2>1. CASE phase' = "drain" /\ Account!Drain /\ UNCHANGED <<pending, stop>>
    BY <1>16, <2>1 DEF BeginDrain, Account!Drain
  <2>2. CASE phase' = "receiverClose" /\ HandleCallbackException /\ UNCHANGED account
    BY <1>16, <2>2 DEF BeginDrain, HandleCallbackException, RecordException, RequestStop
  <2>3. CASE phase' = "receiverClose" /\ HandleCallbackException /\ Account!Drain
    BY <1>16, <2>3 DEF BeginDrain, Account!Drain, HandleCallbackException,
        RecordException, RequestStop
  <2> QED
    BY <1>16, <2>1, <2>2, <2>3 DEF BeginDrain
<1>17. CASE EndDrain
  BY <1>17 DEF EndDrain, SeesDrained, KeepsDraining, HandleCallbackException,
      RecordException, RequestStop
<1>18. CASE CloseReceiver
  BY <1>18 DEF CloseReceiver, HandleCallbackException, RecordException, RequestStop
<1>19. CASE EndDetach
  BY <1>19 DEF EndDetach, KeepsDetaching, ShutdownTimedOut, HandleCallbackException,
      RecordException, RequestStop
<1>20. CASE CallConsume \/ ReceiverOpens \/ EndDispatch \/ ConsumeReturns \/ Pump
         \/ DeadlinePasses \/ DetachDeadlinePasses \/ SkipDrain \/ FinishClose \/ Ended
         \/ UNCHANGED vars
  <2> UNCHANGED <<closeRequested, stopReason, outcomes, batch, used, limit, inCallback>>
    BY <1>20 DEF CallConsume, ReceiverOpens, EndDispatch, ConsumeReturns, Pump,
        DeadlinePasses, DetachDeadlinePasses, SkipDrain, FinishClose, Ended
  <2> QED
    OBVIOUS
<1> QED
  BY <1>1, <1>2, <1>3, <1>4, <1>5, <1>6, <1>7, <1>8, <1>9, <1>10, <1>11, <1>12, <1>13,
     <1>14, <1>15, <1>16, <1>17, <1>18, <1>19, <1>20 DEF Next

\* Every failure is recorded when it happens.
LEMMA FailureRecordedKept ==
    ASSUME Inv, [Next]_vars
    PROVE  FailureRecorded'
<1> USE DEF Inv, Types, FlagTypes, RunFlags, ConsumerFlags, FailureFlags, DrainFlags,
           NameTypes, Phases, ControlShape, ClosePhases, CountTypes, Counting,
           Untouched, DrainShape, FailureRecorded, Over, vars, control, connection,
           pending, stop, shutdown, account
<1>1. CASE \E n \in Batches : SetCallback(n)
  BY <1>1 DEF SetCallback
<1>2. CASE \E n \in Batches : SetCallbackFails(n)
  BY <1>2 DEF SetCallbackFails, RequestStop
<1>3. CASE CallConsume
  BY <1>3 DEF CallConsume
<1>4. CASE LoopReturns
  BY <1>4 DEF LoopReturns, RequestStop, EnterClose
<1>5. CASE LoopThrows
  BY <1>5 DEF LoopThrows, RequestStop, EnterClose
<1>6. CASE ReceiverOpens
  BY <1>6 DEF ReceiverOpens, Dispatching
<1>7. CASE ReceiverFails
  BY <1>7 DEF ReceiverFails, Dispatching, HandleCallbackException, RecordException,
      RequestStop
<1>8. CASE ReceiveDrainAnswer
  BY <1>8 DEF ReceiveDrainAnswer, Dispatching, Account!Return
<1>9. CASE \E condition \in BOOLEAN : ReceiveDetach(condition)
  BY <1>9 DEF ReceiveDetach, Dispatching, HandleCallbackException, RecordException,
      RequestStop
<1>10. CASE IoFails
  BY <1>10 DEF IoFails, Dispatching, HandleCallbackException, RecordException,
      RequestStop
<1>11. CASE \E throwable \in BOOLEAN : CallbackThrows(throwable)
  BY <1>11 DEF CallbackThrows, RecordException, RequestStop
<1>12. CASE ConsumeCloses
  BY <1>12 DEF ConsumeCloses, HandleCallbackException, RecordException, RequestStop,
      EnterClose
<1>13. CASE ConsumeRefills
  BY <1>13 DEF ConsumeRefills, SetReceiverCredit, RefillDue, finiteBatch, NextCredit
<1>14. CASE RefillFails
  BY <1>14 DEF RefillFails, SetReceiverCredit, RefillDue, finiteBatch, NextCredit,
      HandleCallbackException, RecordException, RequestStop, EnterClose
<1>15. CASE ConsumeReturns
  BY <1>15 DEF ConsumeReturns, RefillDue, finiteBatch
<1>16. CASE BeginDrain
  BY <1>16 DEF BeginDrain, KeepsOpening, Account!Drain, HandleCallbackException,
      RecordException, RequestStop
<1>17. CASE SkipDrain
  BY <1>17 DEF SkipDrain, KeepsOpening
<1>18. CASE EndDrain
  BY <1>18 DEF EndDrain, SeesDrained, KeepsDraining, HandleCallbackException,
      RecordException, RequestStop
<1>19. CASE CloseReceiver
  BY <1>19 DEF CloseReceiver, HandleCallbackException, RecordException, RequestStop
<1>20. CASE EndDetach
  BY <1>20 DEF EndDetach, KeepsDetaching, ShutdownTimedOut, HandleCallbackException,
      RecordException, RequestStop
<1>21. CASE FinishClose
  BY <1>21 DEF FinishClose, PendingException, ClosesAfterRun
<1>22. CASE CallClose \/ ReceiveMessage \/ EndDispatch
         \/ (\E result \in BOOLEAN : CallbackReturns(result)) \/ Pump \/ DeadlinePasses
         \/ DetachDeadlinePasses \/ Ended \/ UNCHANGED vars
  <2> UNCHANGED <<ioError, receiverState, failed, phase, closed, draining, drained,
                  detachReceived>>
    BY <1>22 DEF CallClose, ReceiveMessage, EndDispatch, CallbackReturns, Pump,
        DeadlinePasses, DetachDeadlinePasses, Ended
  <2> QED
    OBVIOUS
<1> QED
  BY <1>1, <1>2, <1>3, <1>4, <1>5, <1>6, <1>7, <1>8, <1>9, <1>10, <1>11, <1>12, <1>13,
     <1>14, <1>15, <1>16, <1>17, <1>18, <1>19, <1>20, <1>21, <1>22 DEF Next

\* A failure stays pending until it is thrown.
LEMMA FailurePendingKept ==
    ASSUME Inv, [Next]_vars
    PROVE  FailurePending'
<1> USE DEF Inv, Types, FlagTypes, RunFlags, ConsumerFlags, FailureFlags, DrainFlags,
           NameTypes, Phases, ControlShape, CallerFits, Untouched, FailurePending,
           ThrowablePending, ClosePhases, Thrown, Callers, vars, control, connection,
           pending, stop, shutdown, account
<1>1. CASE \E n \in Batches : SetCallback(n)
  BY <1>1 DEF SetCallback
<1>2. CASE \E n \in Batches : SetCallbackFails(n)
  BY <1>2 DEF SetCallbackFails, RequestStop
<1>3. CASE CallConsume
  BY <1>3 DEF CallConsume
<1>4. CASE CallClose
  BY <1>4 DEF CallClose, RequestStop, DefersClose
<1>5. CASE LoopReturns
  BY <1>5 DEF LoopReturns, RequestStop, EnterClose
<1>6. CASE LoopThrows
  BY <1>6 DEF LoopThrows, RequestStop, EnterClose
<1>7. CASE ReceiverFails
  BY <1>7 DEF ReceiverFails, Dispatching, HandleCallbackException, RecordException,
      RequestStop
<1>8. CASE \E condition \in BOOLEAN : ReceiveDetach(condition)
  BY <1>8 DEF ReceiveDetach, Dispatching, HandleCallbackException, RecordException,
      RequestStop
<1>9. CASE IoFails
  BY <1>9 DEF IoFails, Dispatching, HandleCallbackException, RecordException,
      RequestStop
<1>10. CASE \E result \in BOOLEAN : CallbackReturns(result)
  BY <1>10 DEF CallbackReturns, CompletesBatch, finiteBatch, RequestStop
<1>11. CASE \E throwable \in BOOLEAN : CallbackThrows(throwable)
  BY <1>11 DEF CallbackThrows, RecordException, RequestStop
<1>12. CASE ConsumeCloses
  BY <1>12 DEF ConsumeCloses, HandleCallbackException, RecordException, RequestStop,
      EnterClose
<1>13. CASE ConsumeRefills
  BY <1>13 DEF ConsumeRefills, SetReceiverCredit, RefillDue, finiteBatch, NextCredit
<1>14. CASE RefillFails
  BY <1>14 DEF RefillFails, SetReceiverCredit, RefillDue, finiteBatch, NextCredit,
      HandleCallbackException, RecordException, RequestStop, EnterClose
<1>15. CASE ConsumeReturns
  BY <1>15 DEF ConsumeReturns, RefillDue, finiteBatch
<1>16. CASE BeginDrain
  BY <1>16 DEF BeginDrain, KeepsOpening, Account!Drain, HandleCallbackException,
      RecordException, RequestStop
<1>17. CASE SkipDrain
  BY <1>17 DEF SkipDrain, KeepsOpening
<1>18. CASE EndDrain
  BY <1>18 DEF EndDrain, SeesDrained, KeepsDraining, HandleCallbackException,
      RecordException, RequestStop
<1>19. CASE CloseReceiver
  BY <1>19 DEF CloseReceiver, HandleCallbackException, RecordException, RequestStop
<1>20. CASE EndDetach
  BY <1>20 DEF EndDetach, KeepsDetaching, ShutdownTimedOut, HandleCallbackException,
      RecordException, RequestStop
<1>21. CASE FinishClose
  BY <1>21 DEF FinishClose, PendingException, ClosesAfterRun
<1>22. CASE ReceiverOpens \/ ReceiveMessage \/ ReceiveDrainAnswer \/ EndDispatch \/ Pump
         \/ DeadlinePasses \/ DetachDeadlinePasses \/ Ended \/ UNCHANGED vars
  <2> UNCHANGED <<failed, closeRequested, exceptionMessage, firstThrown, phase, caller,
                  closed>>
    BY <1>22 DEF ReceiverOpens, ReceiveMessage, ReceiveDrainAnswer, EndDispatch, Pump,
        DeadlinePasses, DetachDeadlinePasses, Ended
  <2> QED
    OBVIOUS
<1> QED
  BY <1>1, <1>2, <1>3, <1>4, <1>5, <1>6, <1>7, <1>8, <1>9, <1>10, <1>11, <1>12, <1>13,
     <1>14, <1>15, <1>16, <1>17, <1>18, <1>19, <1>20, <1>21, <1>22 DEF Next

\* A Throwable stays pending until it is thrown first.
LEMMA ThrowablePendingKept ==
    ASSUME Inv, [Next]_vars
    PROVE  ThrowablePending'
<1> USE DEF Inv, Types, FlagTypes, RunFlags, ConsumerFlags, FailureFlags, DrainFlags,
           NameTypes, Phases, ControlShape, CallerFits, Untouched, FailurePending,
           ThrowablePending, ClosePhases, Thrown, Callers, vars, control, connection,
           pending, stop, shutdown, account
<1>1. CASE \E n \in Batches : SetCallback(n)
  BY <1>1 DEF SetCallback
<1>2. CASE \E n \in Batches : SetCallbackFails(n)
  BY <1>2 DEF SetCallbackFails, RequestStop
<1>3. CASE CallConsume
  BY <1>3 DEF CallConsume
<1>4. CASE LoopReturns
  BY <1>4 DEF LoopReturns, RequestStop, EnterClose
<1>5. CASE LoopThrows
  BY <1>5 DEF LoopThrows, RequestStop, EnterClose
<1>6. CASE ReceiverFails
  BY <1>6 DEF ReceiverFails, Dispatching, HandleCallbackException, RecordException,
      RequestStop
<1>7. CASE \E condition \in BOOLEAN : ReceiveDetach(condition)
  BY <1>7 DEF ReceiveDetach, Dispatching, HandleCallbackException, RecordException,
      RequestStop
<1>8. CASE IoFails
  BY <1>8 DEF IoFails, Dispatching, HandleCallbackException, RecordException,
      RequestStop
<1>9. CASE \E throwable \in BOOLEAN : CallbackThrows(throwable)
  BY <1>9 DEF CallbackThrows, RecordException, RequestStop
<1>10. CASE ConsumeCloses
  BY <1>10 DEF ConsumeCloses, HandleCallbackException, RecordException, RequestStop,
      EnterClose
<1>11. CASE ConsumeRefills
  BY <1>11 DEF ConsumeRefills, SetReceiverCredit, RefillDue, finiteBatch, NextCredit
<1>12. CASE RefillFails
  BY <1>12 DEF RefillFails, SetReceiverCredit, RefillDue, finiteBatch, NextCredit,
      HandleCallbackException, RecordException, RequestStop, EnterClose
<1>13. CASE ConsumeReturns
  BY <1>13 DEF ConsumeReturns, RefillDue, finiteBatch
<1>14. CASE BeginDrain
  BY <1>14 DEF BeginDrain, KeepsOpening, Account!Drain, HandleCallbackException,
      RecordException, RequestStop
<1>15. CASE SkipDrain
  BY <1>15 DEF SkipDrain, KeepsOpening
<1>16. CASE EndDrain
  BY <1>16 DEF EndDrain, SeesDrained, KeepsDraining, HandleCallbackException,
      RecordException, RequestStop
<1>17. CASE CloseReceiver
  BY <1>17 DEF CloseReceiver, HandleCallbackException, RecordException, RequestStop
<1>18. CASE EndDetach
  BY <1>18 DEF EndDetach, KeepsDetaching, ShutdownTimedOut, HandleCallbackException,
      RecordException, RequestStop
<1>19. CASE FinishClose
  BY <1>19 DEF FinishClose, PendingException, ClosesAfterRun
<1>20. CASE CallClose \/ ReceiverOpens \/ ReceiveMessage \/ ReceiveDrainAnswer
         \/ EndDispatch \/ (\E result \in BOOLEAN : CallbackReturns(result)) \/ Pump
         \/ DeadlinePasses \/ DetachDeadlinePasses \/ Ended \/ UNCHANGED vars
  <2> UNCHANGED <<threw, callbackException, firstThrown, exceptionMessage, phase,
                  caller, closed>>
    BY <1>20 DEF CallClose, ReceiverOpens, ReceiveMessage, ReceiveDrainAnswer,
        EndDispatch, CallbackReturns, Pump, DeadlinePasses, DetachDeadlinePasses, Ended
  <2> QED
    OBVIOUS
<1> QED
  BY <1>1, <1>2, <1>3, <1>4, <1>5, <1>6, <1>7, <1>8, <1>9, <1>10, <1>11, <1>12, <1>13,
     <1>14, <1>15, <1>16, <1>17, <1>18, <1>19, <1>20 DEF Next

\* A close that is put off is carried out.
LEMMA CloseShapeKept ==
    ASSUME Inv, [Next]_vars
    PROVE  CloseShape'
<1> USE DEF Inv, Types, FlagTypes, RunFlags, ConsumerFlags, FailureFlags, DrainFlags,
           NameTypes, Phases, ControlShape, CallerFits, CloseShape, ClosePhases,
           Callers, vars, control, connection, pending, stop, shutdown, account
<1>1. CASE \E n \in Batches : SetCallback(n)
  BY <1>1 DEF SetCallback
<1>2. CASE \E n \in Batches : SetCallbackFails(n)
  BY <1>2 DEF SetCallbackFails, RequestStop
<1>3. CASE CallConsume
  BY <1>3 DEF CallConsume
<1>4. CASE CallClose
  BY <1>4 DEF CallClose, RequestStop, DefersClose
<1>5. CASE LoopReturns
  BY <1>5 DEF LoopReturns, RequestStop, EnterClose
<1>6. CASE LoopThrows
  BY <1>6 DEF LoopThrows, RequestStop, EnterClose
<1>7. CASE ReceiverFails
  BY <1>7 DEF ReceiverFails, Dispatching, HandleCallbackException, RecordException,
      RequestStop
<1>8. CASE \E condition \in BOOLEAN : ReceiveDetach(condition)
  BY <1>8 DEF ReceiveDetach, Dispatching, HandleCallbackException, RecordException,
      RequestStop
<1>9. CASE IoFails
  BY <1>9 DEF IoFails, Dispatching, HandleCallbackException, RecordException,
      RequestStop
<1>10. CASE \E result \in BOOLEAN : CallbackReturns(result)
  BY <1>10 DEF CallbackReturns, CompletesBatch, finiteBatch, RequestStop
<1>11. CASE \E throwable \in BOOLEAN : CallbackThrows(throwable)
  BY <1>11 DEF CallbackThrows, RecordException, RequestStop
<1>12. CASE ConsumeCloses
  BY <1>12 DEF ConsumeCloses, HandleCallbackException, RecordException, RequestStop,
      EnterClose
<1>13. CASE ConsumeRefills
  BY <1>13 DEF ConsumeRefills, SetReceiverCredit, RefillDue, finiteBatch, NextCredit
<1>14. CASE RefillFails
  BY <1>14 DEF RefillFails, SetReceiverCredit, RefillDue, finiteBatch, NextCredit,
      HandleCallbackException, RecordException, RequestStop, EnterClose
<1>15. CASE ConsumeReturns
  BY <1>15 DEF ConsumeReturns, RefillDue, finiteBatch
<1>16. CASE BeginDrain
  BY <1>16 DEF BeginDrain, KeepsOpening, Account!Drain, HandleCallbackException,
      RecordException, RequestStop
<1>17. CASE SkipDrain
  BY <1>17 DEF SkipDrain, KeepsOpening
<1>18. CASE EndDrain
  BY <1>18 DEF EndDrain, SeesDrained, KeepsDraining, HandleCallbackException,
      RecordException, RequestStop
<1>19. CASE CloseReceiver
  BY <1>19 DEF CloseReceiver, HandleCallbackException, RecordException, RequestStop
<1>20. CASE EndDetach
  BY <1>20 DEF EndDetach, KeepsDetaching, ShutdownTimedOut, HandleCallbackException,
      RecordException, RequestStop
<1>21. CASE FinishClose
  BY <1>21 DEF FinishClose, PendingException, ClosesAfterRun
<1>22. CASE ReceiverOpens \/ ReceiveMessage \/ ReceiveDrainAnswer \/ EndDispatch \/ Pump
         \/ DeadlinePasses \/ DetachDeadlinePasses \/ Ended \/ UNCHANGED vars
  <2> UNCHANGED <<connCloseRequested, closeRequested, phase, connected,
                  receiverRunActive, caller>>
    BY <1>22 DEF ReceiverOpens, ReceiveMessage, ReceiveDrainAnswer, EndDispatch, Pump,
        DeadlinePasses, DetachDeadlinePasses, Ended
  <2> QED
    OBVIOUS
<1> QED
  BY <1>1, <1>2, <1>3, <1>4, <1>5, <1>6, <1>7, <1>8, <1>9, <1>10, <1>11, <1>12, <1>13,
     <1>14, <1>15, <1>16, <1>17, <1>18, <1>19, <1>20, <1>21, <1>22 DEF Next

-----------------------------------------------------------------------------
(* The invariant. *)

\* It holds before setCallback.
LEMMA InitiallyInv == Init => Inv
<1> SUFFICES ASSUME Init
             PROVE  Inv
  OBVIOUS
<1> USE DEF Init
<1>1. Types
  <2>1. RunFlags /\ ConsumerFlags
    BY DEF RunFlags, ConsumerFlags
  <2>2. FailureFlags /\ DrainFlags
    BY DEF FailureFlags, DrainFlags
  <2>3. NameTypes
    BY DEF NameTypes, Phases, Callers, ReceiverStates, StopReasons, Thrown
  <2>4. CountTypes
    BY DEF CountTypes
  <2> QED
    BY <2>1, <2>2, <2>3, <2>4 DEF Types, FlagTypes
<1>2. ControlShape /\ CallerFits /\ Untouched
  BY DEF ControlShape, CallerFits, Untouched, ClosePhases
<1>3. DrainShape /\ Counting /\ BatchShape
  BY DEF DrainShape, Counting, BatchShape, AllAccepted
<1>4. FailureRecorded /\ FailurePending /\ ThrowablePending /\ CloseShape
  BY DEF FailureRecorded, FailurePending, ThrowablePending, CloseShape, Over, ClosePhases
<1> QED
  BY <1>1, <1>2, <1>3, <1>4 DEF Inv

\* Every step keeps it.
LEMMA InvKept == Inv /\ [Next]_vars => Inv'
<1> SUFFICES ASSUME Inv, [Next]_vars
             PROVE  Inv'
  OBVIOUS
<1>1. Types'
  BY RunFlagsKept, ConsumerFlagsKept, FailureFlagsKept, DrainFlagsKept, NameTypesKept,
     CountTypesKept
     DEF Types, FlagTypes
<1>2. ControlShape' /\ CallerFits' /\ Untouched'
  BY ControlShapeKept, CallerFitsKept, UntouchedKept
<1>3. DrainShape' /\ Counting' /\ BatchShape'
  BY DrainShapeKept, CountingKept, BatchShapeKept
<1>4. FailureRecorded' /\ FailurePending' /\ ThrowablePending' /\ CloseShape'
  BY FailureRecordedKept, FailurePendingKept, ThrowablePendingKept, CloseShapeKept
<1> QED
  BY <1>1, <1>2, <1>3, <1>4 DEF Inv

\* It holds in every reachable state.
LEMMA InvHolds == Spec => []Inv
  BY InitiallyInv, InvKept, PTL DEF Spec

-----------------------------------------------------------------------------
(* What it implies. *)

\* Every variable keeps its type, for any batch sizes and any number of
\* deliveries: counts never become negative and every outcome is a disposition.
THEOREM TypeCorrect == Spec => []TypeOK
<1>1. Inv => TypeOK
  BY DEF Inv, Types, FlagTypes, RunFlags, ConsumerFlags, FailureFlags, DrainFlags,
         NameTypes, CountTypes, Callers, ReceiverStates, StopReasons, Dispositions,
         TypeOK, Account!TypeOK
<1> QED
  BY <1>1, InvHolds, PTL

\* The native objects outlive every use: link and receiver while a dispatch is on
\* the stack, the connection while setCallback is, wherever PHP calls close.
THEOREM ObjectsOutliveUse == Spec => []HandlesOutliveUse
<1>1. Inv => HandlesOutliveUse
  BY DEF Inv, ControlShape, ClosePhases, HandlesOutliveUse
<1> QED
  BY <1>1, InvHolds, PTL

\* Consumer::close never calls the PHP message callback, whatever arrives during
\* its pumps.
THEOREM ShutdownOnlyReleases == Spec => []ShutdownNeverReentersPhp
<1>1. Inv => ShutdownNeverReentersPhp
  BY DEF Inv, ControlShape, ClosePhases, ShutdownNeverReentersPhp
<1> QED
  BY <1>1, InvHolds, PTL

\* Prefetch is bounded by the batch, or by one message beyond the settled ones;
\* until a shutdown begins the consumer counts exactly the credit the link has, and
\* until a drain never more than that, also after a refill that failed half-way.
THEOREM PrefetchBounded == Spec => []CreditFollowsSettlement
<1>1. Inv => CreditFollowsSettlement
  BY DEF Inv, Types, CountTypes, Untouched, Counting, CreditFollowsSettlement, finiteBatch
<1> QED
  BY <1>1, InvHolds, PTL

\* A run that stopped as batch-complete accepted exactly the batch.
THEOREM BatchesComplete == Spec => []BatchComplete
<1>1. Inv => BatchComplete
  <2> SUFFICES ASSUME Inv, stopReason = "batch-complete"
               PROVE  outcomes = [i \in 1 .. batch |-> "accepted"]
    BY DEF BatchComplete
  <2>1. outcomes \in [1 .. batch -> Dispositions]
    BY DEF Inv, Types, CountTypes, BatchShape
  <2>2. \A i \in 1 .. batch : outcomes[i] = "accepted"
    BY DEF Inv, BatchShape, AllAccepted
  <2> QED
    BY <2>1, <2>2
<1> QED
  BY <1>1, InvHolds, PTL

\* A consumer closed without a recorded failure has seen the peer's DETACH, and
\* the drain it had begun complete.
THEOREM ClosesCleanly == Spec => []CloseIsClean
<1>1. Inv => CloseIsClean
  BY DEF Inv, FailureRecorded, Over, CloseIsClean
<1> QED
  BY <1>1, InvHolds, PTL

\* A failure recorded in a native callback has become an exception in PHP code by
\* the end of setCallback.
THEOREM FailuresSurface == Spec => []FailureSurfaces
<1>1. Inv => FailureSurfaces
  BY DEF Inv, FailurePending, FailureSurfaces
<1> QED
  BY <1>1, InvHolds, PTL

\* If the message callback threw a Throwable, that is the first exception PHP
\* code gets.
THEOREM ThrowableWins == Spec => []CallbackErrorWins
<1>1. Inv => CallbackErrorWins
  BY DEF Inv, ThrowablePending, CallbackErrorWins
<1> QED
  BY <1>1, InvHolds, PTL

\* A close put off during the run has closed the connection at its end, and the run
\* is over for those that follow.
THEOREM PutOffCloseHappens == Spec => []CloseTakesEffect
<1>1. Inv => CloseTakesEffect
  BY DEF Inv, ControlShape, CloseShape, CloseTakesEffect
<1> QED
  BY <1>1, InvHolds, PTL

-----------------------------------------------------------------------------
(* The consumer keeps to the link's account. *)

\* Arithmetic of a grant that is stated by its difference.
LEMMA Difference ==
    ASSUME NEW m \in Nat, NEW n \in Nat, NEW k \in Nat, m >= k
    PROVE  m = n + (m - n) /\ n + (m - n) >= k
  OBVIOUS

\* A run is a grant, then deliveries, refills by one, a drain and its answer.
LEMMA AccountStep == Inv /\ [Next]_vars => [Account!Next]_(Account!account)
<1> SUFFICES ASSUME Inv, [Next]_vars
             PROVE  Account!Next \/ UNCHANGED account
  BY DEF account, Account!account
<1> USE DEF Inv, Types, CountTypes, FlagTypes, DrainFlags, account
<1>1. ASSUME NEW n \in Batches, SetCallback(n) \/ SetCallbackFails(n)
      PROVE  Account!Grant(limit' - used)
  <2>1. used = 0 /\ limit = 0 /\ ~draining /\ ~drained
    BY <1>1 DEF SetCallback, SetCallbackFails, Untouched, DrainShape
  <2>2. limit' \in Nat
    BY CountTypesKept DEF CountTypes
  <2>3. manual' = TRUE /\ draining' = FALSE /\ drained' = FALSE /\ used' = used
    BY <1>1, <2>1 DEF SetCallback, SetCallbackFails
  <2>4. limit' >= limit
    BY <2>1, <2>2
  <2>5. limit' = used + (limit' - used) /\ used + (limit' - used) >= limit
    BY <2>2, <2>4, Difference
  <2> QED
    BY <2>1, <2>3, <2>5 DEF Account!Grant, Account!DrainPending
<1>2. ASSUME ConsumeRefills \/ RefillFails, SetReceiverCredit
      PROVE  Account!Next
  <2>1. ~draining /\ limit = used
    BY <1>2 DEF ConsumeRefills, RefillFails, RefillDue, ConsumerFlags, ControlShape,
        DrainShape, Counting
  <2>2. limit' - used = 1
    BY <1>2 DEF SetReceiverCredit, NextCredit
  <2>3. Account!Grant(1)
    BY <1>2, <2>1 DEF SetReceiverCredit, NextCredit, Account!Grant, Account!DrainPending
  <2> QED
    BY <2>2, <2>3 DEF Account!Next
<1>3. CASE ReceiveMessage
  <2>1. manual
    BY <1>3 DEF ReceiveMessage, Dispatching, ControlShape, Counting
  <2> QED
    BY <1>3, <2>1 DEF ReceiveMessage, Account!Deliver, Account!Next
<1>4. CASE ReceiveDrainAnswer
  <2>1. PICK r \in 0 .. (limit - used) : Account!Return(r)
    BY <1>4 DEF ReceiveDrainAnswer
  <2>2. used' - used = r
    BY <2>1 DEF Account!Return
  <2> QED
    BY <2>1, <2>2 DEF Account!Next
<1>5. CASE BeginDrain
  BY <1>5 DEF BeginDrain, Account!Next
<1>6. CASE CallConsume \/ CallClose \/ LoopReturns \/ LoopThrows \/ ReceiverOpens
         \/ ReceiverFails \/ (\E condition \in BOOLEAN : ReceiveDetach(condition))
         \/ IoFails \/ EndDispatch \/ (\E result \in BOOLEAN : CallbackReturns(result))
         \/ (\E throwable \in BOOLEAN : CallbackThrows(throwable)) \/ ConsumeCloses
         \/ ConsumeReturns \/ Pump \/ DeadlinePasses
         \/ DetachDeadlinePasses \/ SkipDrain \/ EndDrain \/ CloseReceiver \/ EndDetach
         \/ FinishClose \/ Ended \/ UNCHANGED vars
  <2> UNCHANGED <<used, limit, manual, draining, drained>>
    BY <1>6 DEF CallConsume, CallClose, LoopReturns, LoopThrows, ReceiverOpens,
        ReceiverFails, ReceiveDetach, IoFails, EndDispatch, CallbackReturns,
        CallbackThrows, ConsumeCloses, ConsumeReturns, Pump,
        DeadlinePasses, DetachDeadlinePasses, SkipDrain, EndDrain, CloseReceiver,
        EndDetach, FinishClose, Ended, vars, control, connection, pending, stop,
        shutdown, account
  <2> QED
    OBVIOUS
<1>7. CASE ConsumeRefills \/ RefillFails
  BY <1>2, <1>7 DEF ConsumeRefills, RefillFails
<1> QED
  BY <1>1, <1>3, <1>4, <1>5, <1>6, <1>7 DEF Next, Account!Next

\* The consumer is a caller the link's account is meant for: it never replaces
\* credit by less and never grants during a drain, so that what LinkCredit
\* guarantees to such callers holds for it.
THEOREM AccountRespected == Spec => UsesAccount
<1>1. Init => Account!Init
  BY DEF Init, Account!Init
<1> QED
  BY <1>1, InvHolds, AccountStep, PTL DEF Spec, UsesAccount, Account!Spec

-----------------------------------------------------------------------------
(* The run keeps the contract of delivery. *)

\* Start, Hand, Accept, Abandon and Release are a step each; every other step is a
\* stop or changes nothing the contract speaks of.
LEMMA DeliveryStep == Inv /\ [Next]_vars => [Delivery!Next]_(Delivery!vars)
<1> SUFFICES ASSUME Inv, [Next]_vars
             PROVE  Delivery!Next \/ UNCHANGED <<batch, closeRequested, inCallback, outcomes>>
  BY DEF Delivery!vars
<1> USE DEF Inv, Types, CountTypes, FlagTypes, ConsumerFlags, RunFlags
<1>1. ASSUME NEW n \in Batches, SetCallback(n) \/ SetCallbackFails(n)
      PROVE  Delivery!Start
  <2>1. outcomes = <<>> /\ ~closeRequested /\ ~inCallback
    BY <1>1 DEF SetCallback, SetCallbackFails, Untouched, ControlShape
  <2>2. batch' \in Nat /\ closeRequested' \in BOOLEAN
    BY CountTypesKept, ConsumerFlagsKept DEF CountTypes, ConsumerFlags
  <2>3. UNCHANGED <<inCallback, outcomes>>
    BY <1>1 DEF SetCallback, SetCallbackFails
  <2> QED
    BY <2>1, <2>2, <2>3 DEF Delivery!Start
<1>2. CASE ReceiveMessage
  <2>1. CASE closeRequested
    BY <1>2, <2>1 DEF ReceiveMessage, Dispatching, IsSurplus, SurplusDisposition, stop,
                      Delivery!Release, Delivery!Next
  <2>2. CASE ~closeRequested
    BY <1>2, <2>2 DEF ReceiveMessage, Dispatching, IsSurplus, stop, Delivery!Hand,
                      Delivery!Next
  <2> QED
    BY <2>1, <2>2
<1>3. ASSUME NEW result \in BOOLEAN, CallbackReturns(result)
      PROVE  Delivery!Accept
  <2>1. /\ inCallback /\ inCallback' = FALSE
        /\ outcomes' = Append(outcomes, "accepted")
        /\ batch' = batch
    BY <1>3 DEF CallbackReturns
  <2>2. closeRequested' \in {TRUE, closeRequested \/ Len(outcomes') = batch}
    <3>1. CASE ~result \/ CompletesBatch
      BY <1>3, <3>1 DEF CallbackReturns, RequestStop
    <3>2. CASE closeRequested /\ result /\ ~CompletesBatch
      BY <1>3, <3>2 DEF CallbackReturns, stop
    <3>3. CASE ~closeRequested /\ result /\ ~CompletesBatch
      <4>1. used = Len(outcomes) + 1 /\ creditRemaining = limit - used
        BY <2>1, <3>3 DEF ControlShape, DrainShape, Counting
      <4>2. phase # "idle"
        BY <2>1 DEF ControlShape
      <4>3. Len(outcomes') = Len(outcomes) + 1
        BY <2>1
      <4>4. Len(outcomes') # batch
        BY <3>3, <4>1, <4>2, <4>3 DEF CompletesBatch, finiteBatch, Counting
      <4>5. closeRequested' = closeRequested
        BY <1>3, <3>3 DEF CallbackReturns, stop
      <4> QED
        BY <3>3, <4>4, <4>5
    <3> QED
      BY <3>1, <3>2, <3>3
  <2> QED
    BY <2>1, <2>2 DEF Delivery!Accept
<1>4. ASSUME NEW throwable \in BOOLEAN, CallbackThrows(throwable)
      PROVE  Delivery!Abandon
  BY <1>4 DEF CallbackThrows, RequestStop, Delivery!Abandon
<1>5. CASE CallClose \/ LoopReturns \/ LoopThrows \/ ReceiverFails
         \/ (\E condition \in BOOLEAN : ReceiveDetach(condition)) \/ IoFails
         \/ ConsumeCloses \/ RefillFails \/ BeginDrain \/ EndDrain \/ CloseReceiver
         \/ EndDetach
  <2> closeRequested' = TRUE \/ closeRequested' = closeRequested
    BY <1>5 DEF CallClose, LoopReturns, LoopThrows, ReceiverFails, ReceiveDetach,
        IoFails, ConsumeCloses, RefillFails, BeginDrain, EndDrain, CloseReceiver,
        EndDetach, HandleCallbackException, RecordException, RequestStop, stop
  <2> UNCHANGED <<batch, inCallback, outcomes>>
    BY <1>5 DEF CallClose, LoopReturns, LoopThrows, ReceiverFails, ReceiveDetach,
        IoFails, ConsumeCloses, RefillFails, BeginDrain, EndDrain, CloseReceiver,
        EndDetach, control
  <2> QED
    BY DEF Delivery!Stop, Delivery!Next
<1>6. CASE CallConsume \/ ReceiverOpens \/ ReceiveDrainAnswer \/ EndDispatch
         \/ ConsumeRefills \/ ConsumeReturns \/ Pump \/ DeadlinePasses
         \/ DetachDeadlinePasses \/ SkipDrain \/ FinishClose \/ Ended \/ UNCHANGED vars
  <2> UNCHANGED <<batch, closeRequested, inCallback, outcomes>>
    BY <1>6 DEF CallConsume, ReceiverOpens, ReceiveDrainAnswer, EndDispatch,
        ConsumeRefills, SetReceiverCredit, ConsumeReturns, Pump, DeadlinePasses,
        DetachDeadlinePasses, SkipDrain, FinishClose, Ended, vars, control, connection, pending, stop,
        shutdown, account
  <2> QED
    OBVIOUS
<1> QED
  BY <1>1, <1>2, <1>3, <1>4, <1>5, <1>6 DEF Next, Delivery!Next

\* The callback gets one message at a time and none after a stop; every message
\* gets one disposition, in order, that fits what the callback did; a failure or
\* the end of the batch stops the run.
THEOREM DeliveryContractKept == Spec => KeepsDeliveryContract
<1>1. Init => Delivery!Init
  BY DEF Init, Delivery!Init
<1> QED
  BY <1>1, InvHolds, DeliveryStep, PTL DEF Spec, KeepsDeliveryContract, Delivery!Spec
=============================================================================
