--------------------------- MODULE PublisherProofs ---------------------------
(***************************************************************************)
(* Proofs about Publisher: the counters and the text that all calls of     *)
(* the process share say, during a call, exactly what was reported to that *)
(* call; hence Publisher implements SendContract.                          *)
(***************************************************************************)
EXTENDS Publisher, TLAPS

\* The call is between its send and its cleanup, or past the loop.
InLoop == phase \in {"loop", "dispatch"}
InCleanup == phase \in {"destroy", "close"}

\* The shared counter counts the completion of this call's message, while the
\* sender can still report it.
CounterTellsCall ==
    InLoop \/ phase = "destroy" =>
        /\ statics.sent_messages = 1 <=> "completed" \in seen
        /\ "completed" \in seen => outbox # "sending"

\* The shared flag and text tell of a DETACH of this call's link.
TextTellsCall ==
    InLoop \/ InCleanup =>
        /\ statics.text <=> "detached" \in seen
        /\ statics.producerStopRunning <=> "detached" \in seen

\* The loop has ended for a reason.
EndedByReport == InCleanup => "completed" \in seen \/ "detached" \in seen

\* What a finished consumer keeps was reported to this call.
KeptByCall == consumer = "pending" => /\ phase # "idle"
                                      /\ "ioFailed" \in seen

Inv == TypeOK /\ CounterTellsCall /\ TextTellsCall /\ EndedByReport /\ KeptByCall

-----------------------------------------------------------------------------
\* The invariant holds before the first call.
LEMMA InitiallyInv == Init => Inv
  BY DEF Init, Inv, TypeOK, Results, CounterTellsCall, TextTellsCall, EndedByReport,
         KeptByCall, InLoop, InCleanup

\* Every step keeps it.
LEMMA InvKept == Inv /\ [Next]_vars => Inv'
<1> SUFFICES ASSUME Inv, [Next]_vars
             PROVE  Inv'
  OBVIOUS
<1> USE DEF Inv, TypeOK, Results, CounterTellsCall, TextTellsCall, EndedByReport, KeptByCall,
            InLoop, InCleanup
<1>1. CASE Publish
  BY <1>1 DEF Publish, Cleared
<1>2. CASE DoWork
  BY <1>2 DEF DoWork
<1>3. ASSUME NEW send_result \in Results, OnMessageSendComplete(send_result)
      PROVE  Inv'
  <2>1. statics.sent_messages = 0
    BY <1>3 DEF OnMessageSendComplete
  <2>2. /\ statics' \in [sent_messages : 0 .. 1, producerStopRunning : BOOLEAN, text : BOOLEAN]
        /\ statics'.sent_messages = 1
        /\ statics'.text = statics.text
        /\ statics'.producerStopRunning = statics.producerStopRunning
    BY <1>3, <2>1 DEF OnMessageSendComplete
  <2> QED
    BY <1>3, <2>2 DEF OnMessageSendComplete
<1>4. CASE OnLinkDetachReceived
  BY <1>4 DEF OnLinkDetachReceived
<1>5. CASE OnIncompleteDetachReceived
  BY <1>5 DEF OnIncompleteDetachReceived
<1>6. CASE OnIoError
  BY <1>6 DEF OnIoError
<1>7. CASE DispatchEnds
  BY <1>7 DEF DispatchEnds, LoopDone
<1>8. CASE DestroySender
  <2>1. statics' \in [sent_messages : 0 .. 1, producerStopRunning : BOOLEAN, text : BOOLEAN]
    BY <1>8 DEF DestroySender
  <2>2. /\ statics'.text = statics.text
        /\ statics'.producerStopRunning = statics.producerStopRunning
    BY <1>8 DEF DestroySender
  <2> QED
    BY <1>8, <2>1, <2>2 DEF DestroySender
<1>9. CASE CloseConnection
  BY <1>9 DEF CloseConnection
<1>10. CASE Unwound \/ UNCHANGED vars
  <2> UNCHANGED vars
    BY <1>10 DEF Unwound
  <2>1. TypeOK'
    BY DEF vars
  <2>2. (CounterTellsCall /\ TextTellsCall)'
    BY DEF vars
  <2>3. (EndedByReport /\ KeptByCall)'
    BY DEF vars
  <2> QED
    BY <2>1, <2>2, <2>3
<1> QED
  BY <1>1, <1>2, <1>3, <1>4, <1>5, <1>6, <1>7, <1>8, <1>9, <1>10 DEF Next

\* It holds in every reachable state.
LEMMA InvHolds == Spec => []Inv
  BY InitiallyInv, InvKept, PTL DEF Spec

-----------------------------------------------------------------------------
\* Every variable keeps its type: the counter never passes one, whatever the sender
\* and its cleanup report.
THEOREM TypeCorrect == Spec => []TypeOK
<1>1. Inv => TypeOK
  BY DEF Inv
<1> QED
  BY <1>1, InvHolds, PTL

\* What the caller sees of the phase.
stage == IF phase \in {"idle", "unwound"} THEN phase ELSE "waiting"

\* Every step is one of the contract's, seen from the caller, or none.
LEMMA ContractStep == Inv /\ [Next]_vars => [Contract!Next]_<<stage, seen, result>>
<1> SUFFICES ASSUME Inv, [Next]_vars
             PROVE  Contract!Next \/ UNCHANGED <<stage, seen, result>>
  OBVIOUS
<1> USE DEF Inv, TypeOK, InLoop, InCleanup, stage
<1>1. CASE Publish
  BY <1>1 DEF Publish, Contract!Begin, Contract!Refuse, Contract!Next
<1>2. ASSUME NEW send_result \in Results, OnMessageSendComplete(send_result)
      PROVE  Contract!Report("completed")
  BY <1>2 DEF OnMessageSendComplete, Contract!Report
<1>3. CASE OnLinkDetachReceived
  BY <1>3 DEF OnLinkDetachReceived, Contract!Report, Contract!Reports, Contract!Next
<1>4. CASE OnIncompleteDetachReceived
  BY <1>4 DEF OnIncompleteDetachReceived, Contract!Unwind, Contract!Next
<1>5. CASE OnIoError
  BY <1>5 DEF OnIoError, Contract!Report, Contract!Reports, Contract!Next
<1>6. CASE CloseConnection
  <2>1. CASE consumer = "pending" \/ statics.text
    <3>1. seen \cap {"detached", "ioFailed"} # {}
      BY <1>6, <2>1 DEF CloseConnection, KeptByCall, TextTellsCall
    <3> QED
      BY <1>6, <2>1, <3>1 DEF CloseConnection, Contract!Throw, Contract!Next
  <2>2. CASE ~(consumer = "pending" \/ statics.text)
    <3>1. "completed" \in seen /\ "detached" \notin seen
      BY <1>6, <2>2 DEF CloseConnection, EndedByReport, TextTellsCall
    <3> QED
      BY <1>6, <2>2, <3>1 DEF CloseConnection, Contract!Return, Contract!Next
  <2> QED
    BY <2>1, <2>2
<1>7. CASE DoWork \/ DispatchEnds \/ DestroySender \/ Unwound \/ UNCHANGED vars
  BY <1>7 DEF DoWork, DispatchEnds, DestroySender, Unwound, vars
<1> QED
  BY <1>1, <1>2, <1>3, <1>4, <1>5, <1>6, <1>7 DEF Next, Contract!Next, Contract!Reports

\* A call of publish returns or throws by what was reported to that call alone,
\* although its counters, its flag and its text belong to the whole process.
THEOREM ContractKept == Spec => KeepsContract
<1>1. Init => Contract!Init
  BY DEF Init, Contract!Init
<1> QED
  BY <1>1, InvHolds, ContractStep, PTL DEF Spec, KeepsContract, Contract!Spec, stage
=============================================================================
