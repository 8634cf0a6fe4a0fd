------------------------- MODULE DebugReceiverProofs -------------------------
(***************************************************************************)
(* Proofs about DebugReceiver, for any counts wanted and any number of     *)
(* messages: the exit status tells the outcome.                            *)
(***************************************************************************)
EXTENDS DebugReceiver, TLAPS

\* The status is set once, from the count, when the loop is over; nothing changes
\* the count afterwards.
StatusSetByCount ==
    /\ phase \in {"setup", "loop", "dispatch"} => status = Unknown
    /\ StatusTellsOutcome

Inv == TypeOK /\ StatusSetByCount

-----------------------------------------------------------------------------
\* Nine objects are made, eight destroyed.
LEMMA Lengths == Len(Setup) = 9 /\ Len(Teardown) = 8
  BY DEF Setup, Teardown

\* What is made is one of the nine.
LEMMA SetupElements ==
    ASSUME NEW i \in 1 .. 9
    PROVE  Setup[i] \in Range(Setup)
<1>1. i \in DOMAIN Setup
  BY Lengths DEF Setup
<1> QED
  BY <1>1 DEF Range

\* The constants, by their assumptions.
LEMMA ConstantTypes == Counts \subseteq Nat \ {0} /\ MaxMessages \in Nat
  BY CountsAssumption, MaxMessagesAssumption DEF CountsAssumption, MaxMessagesAssumption

\* Nothing has been received at first, and at least one message is wanted.
LEMMA InitiallyInv == Init => Inv
<1> SUFFICES ASSUME Init
             PROVE  Inv
  OBVIOUS
<1>1. valid \in BOOLEAN /\ (valid <=> phase = "setup")
  BY DEF Init
<1>2. status = IF phase = "setup" THEN Unknown ELSE 2
  BY <1>1 DEF Init
<1>3. /\ state.received = 0 /\ state.stopped = FALSE
      /\ state \in [received : 0 .. MaxMessages, stopped : BOOLEAN, ioError : BOOLEAN,
                    linkError : BOOLEAN]
  BY ConstantTypes DEF Init
<1>4. TypeOK
  <2>1. count \in Counts /\ ~(state.received >= count)
    BY <1>3, ConstantTypes DEF Init
  <2>2. state.stopped <=> state.received >= count
    BY <1>3, <2>1
  <2>3. phase \in {"setup", "exited"} /\ late \in BOOLEAN /\ held \subseteq Range(Setup)
    BY DEF Init
  <2>4. step \in 1 .. Len(Setup) + 1
    BY Lengths DEF Init
  <2>5. status \in {Unknown, 0, 1, 2}
    BY <1>2
  <2> QED
    BY <1>1, <1>3, <2>1, <2>2, <2>3, <2>4, <2>5 DEF TypeOK
<1>5. StatusSetByCount
  BY <1>2 DEF Init, StatusSetByCount, StatusTellsOutcome, Unknown
<1> QED
  BY <1>4, <1>5 DEF Inv

\* Every variable keeps its type, and stopped means that the count is reached.
LEMMA TypeKept ==
    ASSUME Inv, [Next]_vars
    PROVE  TypeOK'
<1> USE Lengths, ConstantTypes DEF Inv, TypeOK, Unknown
<1>1. CASE Make
  <2>1. Setup[step] \in Range(Setup)
    BY <1>1, SetupElements DEF Make
  <2> QED
    BY <1>1, <2>1 DEF Make
<1>2. CASE OnMessage
  <2>1. state.received + 1 \in 0 .. MaxMessages
    BY <1>2 DEF OnMessage
  <2>2. state.received + 1 >= count <=> state.stopped \/ StopsAt(state.received + 1)
    BY DEF StopsAt
  <2>3. state' \in [received : 0 .. MaxMessages, stopped : BOOLEAN, ioError : BOOLEAN,
                    linkError : BOOLEAN]
    BY <1>2, <2>1, <2>2 DEF OnMessage, StopsAt
  <2>4. state'.stopped <=> state'.received >= count
    BY <1>2, <2>1, <2>2 DEF OnMessage
  <2> QED
    BY <1>2, <2>3, <2>4 DEF OnMessage
<1>3. ASSUME NEW flag \in {"ioError", "linkError"}, OnFailure(flag)
      PROVE  TypeOK'
  <2>1. /\ state' \in [received : 0 .. MaxMessages, stopped : BOOLEAN, ioError : BOOLEAN,
                       linkError : BOOLEAN]
        /\ state'.received = state.received
        /\ state'.stopped = state.stopped
    BY <1>3 DEF OnFailure
  <2> QED
    BY <1>3, <2>1 DEF OnFailure
<1>4. CASE LoopEnds
  BY <1>4 DEF LoopEnds, StatusOfCount
<1>5. CASE Destroy
  BY <1>5 DEF Destroy
<1>6. CASE MakeFails \/ Open \/ DoWork \/ DispatchEnds \/ DeadlinePasses \/ Exit \/ Exited
           \/ UNCHANGED vars
  BY <1>6 DEF MakeFails, Open, DoWork, DispatchEnds, DeadlinePasses, Exit, Exited, vars
<1> QED
  BY <1>1, <1>2, <1>3, <1>4, <1>5, <1>6 DEF Next

\* The status keeps telling the outcome.
LEMMA StatusKept ==
    ASSUME Inv, [Next]_vars
    PROVE  StatusSetByCount'
<1> USE ConstantTypes DEF Inv, TypeOK, StatusSetByCount, StatusTellsOutcome, Unknown
<1>1. CASE Make \/ Open \/ DoWork \/ DispatchEnds
  BY <1>1 DEF Make, Open, DoWork, DispatchEnds
<1>2. CASE MakeFails
  BY <1>2 DEF MakeFails
<1>3. CASE OnMessage
  BY <1>3 DEF OnMessage
<1>4. ASSUME NEW flag \in {"ioError", "linkError"}, OnFailure(flag)
      PROVE  StatusSetByCount'
  BY <1>4 DEF OnFailure
<1>5. CASE DeadlinePasses
  BY <1>5 DEF DeadlinePasses
<1>6. CASE LoopEnds
  BY <1>6 DEF LoopEnds, GoesOn, StatusOfCount
<1>7. CASE Destroy \/ Exit \/ Exited \/ UNCHANGED vars
  BY <1>7 DEF Destroy, Exit, Exited, vars
<1> QED
  BY <1>1, <1>2, <1>3, <1>4, <1>5, <1>6, <1>7 DEF Next

\* It holds in every reachable state.
LEMMA InvHolds == Spec => []Inv
<1>1. Inv /\ [Next]_vars => Inv'
  BY TypeKept, StatusKept DEF Inv
<1> QED
  BY InitiallyInv, <1>1, PTL DEF Spec

-----------------------------------------------------------------------------
\* Every variable keeps its type; the loop's stop flag says that enough messages
\* were received.
THEOREM TypeCorrect == Spec => []TypeOK
<1>1. Inv => TypeOK
  BY DEF Inv
<1> QED
  BY <1>1, InvHolds, PTL

\* Status 0 means that the messages wanted were received, status 1 that they were
\* not, and that a failure or the deadline is why.
THEOREM StatusIsTrue == Spec => []StatusTellsOutcome
<1>1. Inv => StatusTellsOutcome
  BY DEF Inv, StatusSetByCount
<1> QED
  BY <1>1, InvHolds, PTL
=============================================================================
