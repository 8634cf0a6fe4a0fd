---------------------- MODULE ConnectionLifecycleProofs ----------------------
(***************************************************************************)
(* Proofs about ConnectionLifecycle: its state is finite, and TLC covers   *)
(* it, but the proof says why it holds.  Inv is inductive and gives        *)
(* every invariant of that module.                                         *)
(***************************************************************************)
EXTENDS ConnectionLifecycle, TLAPS

\* The type invariant in parts, for the provers.
Phases == {"script", "connect", "register", "run", "sender", "send", "teardown", "gone"}

NameTypes ==
    /\ tls \in BOOLEAN /\ auth \in BOOLEAN
    /\ phase \in Phases
    /\ call \in {"none", "publish", "setCallback", "close", "destruct"}
    /\ consumer \in {"none", "running", "finished"}

FlagTypes == /\ pending \in BOOLEAN /\ raised \in BOOLEAN /\ logger \in BOOLEAN
             /\ failures \subseteq {"connect", "publish"}
             /\ leftover \in BOOLEAN /\ swallowed \in BOOLEAN

ConnRecords ==
    [isConnected : BOOLEAN, closeRequested : BOOLEAN, platformInitialized : BOOLEAN,
     doingWork : BOOLEAN, receiverRunActive : BOOLEAN, ioError : BOOLEAN]
ConnType == conn \in ConnRecords

\* What a connect, a publish or a failed sender can lose.
Losable == {"platform"} \cup (Kinds \ ({"session"} \cup ReceiverKinds))

ObjectTypes == /\ held \subseteq Kinds
               /\ lost \subseteq Losable
               /\ step \in 1 .. 8

Types == NameTypes /\ FlagTypes /\ ConnType /\ ObjectTypes

\* NothingOutlivesItsBase, kind by kind.
Stacked ==
    /\ "sasl_io" \in held => socket \in held /\ "sasl_mechanism" \in held
    /\ "connection" \in held => transport \in held
    /\ "session" \in held => "connection" \in held
    /\ "receiver_link" \in held \/ "sender_link" \in held => "session" \in held
    /\ "message_receiver" \in held => "receiver_link" \in held
    /\ "message_sender" \in held => "sender_link" \in held

\* The same of what is lost, where a sender link may have lost its session.
LostStacked ==
    /\ "sasl_io" \in lost => socket \in lost /\ "sasl_mechanism" \in lost
    /\ "connection" \in lost => transport \in lost
    /\ "message_sender" \in lost => "sender_link" \in lost

\* Which phases go with which flags: a run is active in its phase only, and
\* everything that uses the connection finds it open.
RunShape ==
    /\ conn.receiverRunActive <=> phase = "run"
    /\ conn.doingWork => phase = "run" /\ consumer = "running"
    /\ phase = "run" => consumer # "none"
    /\ phase \in {"sender", "send", "register", "run"} => conn.isConnected
    /\ consumer = "running" => phase \in {"run", "teardown"}

\* The objects a phase can hold.
HeldShape ==
    /\ held \subseteq Assigned \cup ReceiverKinds \cup SenderKinds
    /\ consumer # "running" => held \cap ReceiverKinds = {}
    /\ phase # "send" => held \cap SenderKinds = {}
    /\ phase # "teardown" => (conn.isConnected <=> "session" \in held)
    /\ phase # "teardown" /\ ~conn.isConnected => consumer = "none"
    /\ phase # "teardown" /\ ~conn.isConnected /\ ~leftover =>
          held = {} /\ ~conn.platformInitialized
    /\ phase = "gone" => ~conn.isConnected /\ ~leftover

\* A teardown has destroyed what precedes its next step.
TeardownShape ==
    phase = "teardown" =>
        /\ step > 1 => consumer = "none"
        /\ step > 2 => "session" \notin held
        /\ step > 3 => "connection" \notin held
        /\ step > 4 => "sasl_io" \notin held
        /\ step > 5 => "tls_io" \notin held
        /\ step > 6 => "socket_io" \notin held
        /\ step > 7 => "sasl_mechanism" \notin held

\* Failures are remembered.
FailureShape == leftover => "connect" \in failures

\* An I/O error that outlives a run has been thrown into its loop function.
ErrorShape ==
    /\ /\ phase \in {"script", "connect", "sender", "register"}
       /\ conn.isConnected /\ conn.ioError
       => swallowed
    /\ phase = "run" /\ consumer = "finished" /\ conn.ioError => raised

\* What is pending is thrown before the call ends.
PendingShape ==
    /\ pending => phase \in {"send", "run", "teardown"}
    /\ phase = "run" /\ pending => conn.doingWork /\ conn.ioError
    /\ phase = "send" /\ pending => conn.ioError
    /\ phase = "teardown" /\ pending => step = 1

Inv == /\ Types
       /\ Stacked
       /\ LostStacked
       /\ RunShape
       /\ HeldShape
       /\ TeardownShape
       /\ FailureShape
       /\ LostOnlyByFailure
       /\ ErrorShape
       /\ PendingShape

-----------------------------------------------------------------------------
(* The order of the teardown. *)

\* The eight steps.
LEMMA Order ==
    /\ Len(TeardownOrder) = 8
    /\ TeardownOrder[1] = "consumer" /\ TeardownOrder[2] = "session"
    /\ TeardownOrder[3] = "connection" /\ TeardownOrder[4] = "sasl_io"
    /\ TeardownOrder[5] = "tls_io" /\ TeardownOrder[6] = "socket_io"
    /\ TeardownOrder[7] = "sasl_mechanism" /\ TeardownOrder[8] = "platform"
  BY DEF TeardownOrder

\* The handle a step of the teardown destroys.
LEMMA HandleStep ==
    ASSUME step \in 1 .. 8, TeardownHandle
    PROVE  \/ step = 2 /\ held' = held \ {"session"} /\ step' = 3
           \/ step = 3 /\ held' = held \ {"connection"} /\ step' = 4
           \/ step = 4 /\ held' = held \ {"sasl_io"} /\ step' = 5
           \/ step = 5 /\ held' = held \ {"tls_io"} /\ step' = 6
           \/ step = 6 /\ held' = held \ {"socket_io"} /\ step' = 7
           \/ step = 7 /\ held' = held \ {"sasl_mechanism"} /\ step' = 8
<1>1. step # 1
  BY Order DEF TeardownHandle, Kinds, ReceiverKinds, SenderKinds
<1>2. step \in 2 .. 7
  BY <1>1, Order DEF TeardownHandle
<1> QED
  BY <1>2, Order DEF TeardownHandle

-----------------------------------------------------------------------------
(* What connect does. *)

\* What it builds on is fixed for the life of the object.
LEMMA StackFixed ==
    ASSUME [Next]_vars
    PROVE  /\ UNCHANGED <<tls, auth>>
           /\ Assigned' = Assigned /\ socket' = socket /\ transport' = transport
<1>1. UNCHANGED <<tls, auth>>
  BY DEF Next, vars, Call, UseOpenConnection, LoggerFails, Connect, CallClose,
         TeardownConsumer, TeardownHandle, TeardownEnds, CreateSender, CreateSenderFails,
         SendIoError, SendEnds, SendThrows, RegisterConsumer, Consume, IoError,
         ConsumeEnds, LoopReturns, LoopThrows, Gone
<1> QED
  BY <1>1 DEF Assigned, Io, socket, transport

\* It makes neither links, receivers nor senders.
LEMMA AssignedKinds ==
    /\ Assigned \subseteq Kinds
    /\ Assigned \cap ReceiverKinds = {} /\ Assigned \cap SenderKinds = {}
  BY DEF Assigned, Io, socket, Kinds, ReceiverKinds, SenderKinds

\* Every object it makes has its base, the flags are new, what it overwrites is
\* lost.
LEMMA ConnectMakes ==
    ASSUME ConnType, NEW made \in SUBSET Assigned, Connect(made)
    PROVE  /\ phase = "connect" /\ ~conn.isConnected
           /\ "sasl_io" \in made => socket \in made /\ "sasl_mechanism" \in made
           /\ "connection" \in made => transport \in made
           /\ "session" \in made => "connection" \in made
           /\ conn' \in ConnRecords
           /\ conn'.isConnected = ("session" \in made)
           /\ conn'.doingWork = conn.doingWork
           /\ conn'.receiverRunActive = conn.receiverRunActive
           /\ conn'.ioError = FALSE
           /\ held' = (held \ Assigned) \cup made
           /\ lost' \subseteq lost \cup (held \cap Assigned) \cup {"platform"}
           /\ ~conn.platformInitialized => lost' = lost \cup (held \cap Assigned)
           /\ IF "session" \in made
              THEN phase' \in {"sender", "register"} /\ failures' = failures
              ELSE phase' = "script" /\ failures' = failures \cup {"connect"}
           /\ leftover' = ("session" \notin made)
           /\ swallowed' = FALSE
           /\ logger' = TRUE
           /\ UNCHANGED <<tls, auth, call, consumer, pending, raised, step>>
<1>1. \A kind \in made : Base(kind) \subseteq made
  BY DEF Connect
<1>2. /\ Base("sasl_io") = {socket, "sasl_mechanism"}
      /\ Base("connection") = {transport}
      /\ Base("session") = {"connection"}
  BY DEF Base
<1>3. PICK platform \in BOOLEAN :
          /\ conn' = [Fresh EXCEPT !.isConnected = Established(made),
                                   !.platformInitialized = @ \/ platform]
          /\ lost' = lost \cup (held \cap Assigned)
                          \cup IF platform /\ conn.platformInitialized THEN {"platform"} ELSE {}
  BY DEF Connect
<1>4. Fresh \in ConnRecords /\ Fresh.ioError = FALSE
      /\ Fresh.doingWork = conn.doingWork /\ Fresh.receiverRunActive = conn.receiverRunActive
  BY DEF Fresh, ConnType, ConnRecords
<1>5. Established(made) \in BOOLEAN /\ Established(made) = ("session" \in made)
  BY DEF Established
<1>6. Fresh.platformInitialized \in BOOLEAN
  BY <1>4 DEF ConnRecords
<1>7. [Fresh EXCEPT !.isConnected = Established(made),
                    !.platformInitialized = @ \/ platform] \in ConnRecords
  BY <1>4, <1>5, <1>6 DEF ConnRecords
<1>8. /\ conn' \in ConnRecords
      /\ conn'.isConnected = ("session" \in made)
      /\ conn'.doingWork = conn.doingWork
      /\ conn'.receiverRunActive = conn.receiverRunActive
      /\ conn'.ioError = FALSE
  BY <1>3, <1>4, <1>5, <1>7 DEF ConnRecords
<1>9. /\ lost' \subseteq lost \cup (held \cap Assigned) \cup {"platform"}
      /\ ~conn.platformInitialized => lost' = lost \cup (held \cap Assigned)
  BY <1>3
<1>10. /\ phase = "connect" /\ ~conn.isConnected
       /\ held' = (held \ Assigned) \cup made
       /\ IF "session" \in made
          THEN phase' \in {"sender", "register"} /\ failures' = failures
          ELSE phase' = "script" /\ failures' = failures \cup {"connect"}
       /\ leftover' = ("session" \notin made)
       /\ swallowed' = FALSE
       /\ logger' = TRUE
       /\ UNCHANGED <<tls, auth, call, consumer, pending, raised, step>>
  BY DEF Connect, Connected
<1> QED
  BY <1>1, <1>2, <1>8, <1>9, <1>10

-----------------------------------------------------------------------------
(* Each part is kept by every step. *)

\* Names keep their types.
LEMMA NameTypesKept ==
    ASSUME Inv, [Next]_vars
    PROVE  NameTypes'
<1> USE DEF Inv, Types, NameTypes, Phases, vars, history
<1>1. CASE \E method \in {"publish", "setCallback"} : Call(method)
  BY <1>1 DEF Call, RefusesConnect
<1>2. CASE UseOpenConnection
  BY <1>2 DEF UseOpenConnection, Connected
<1>3. CASE LoggerFails
  BY <1>3 DEF LoggerFails, Fresh
<1>4. CASE \E made \in SUBSET Assigned : Connect(made)
  <2>1. PICK made \in SUBSET Assigned : Connect(made)
    BY <1>4
  <2> QED
    BY <2>1, ConnectMakes
<1>5. CASE CallClose
  BY <1>5 DEF CallClose, RefusesConnect, StartTeardown
<1>6. CASE TeardownConsumer
  BY <1>6, Order DEF TeardownConsumer, GoesOn
<1>7. CASE TeardownEnds
  BY <1>7, Order DEF TeardownEnds
<1>8. CASE CreateSender
  BY <1>8 DEF CreateSender
<1>9. CASE CreateSenderFails
  BY <1>9 DEF CreateSenderFails
<1>10. CASE SendEnds
  BY <1>10 DEF SendEnds, DestroysSenderAndLink, ClosesConnection, StartTeardown
<1>11. CASE RegisterConsumer
  BY <1>11 DEF RegisterConsumer, StartTeardown
<1>12. CASE ConsumeEnds
  BY <1>12 DEF ConsumeEnds, CloseConsumer
<1>13. CASE LoopReturns
  BY <1>13 DEF LoopReturns, CloseConsumer, StartTeardown
<1>14. CASE LoopThrows
  BY <1>14 DEF LoopThrows, StartTeardown
<1>15. CASE SendThrows
  BY <1>15 DEF SendThrows
<1>16. CASE TeardownHandle \/ SendIoError \/ Consume \/ IoError \/ Gone
         \/ UNCHANGED vars
  <2> UNCHANGED <<tls, auth, phase, call, consumer>>
    BY <1>16 DEF TeardownHandle, SendIoError, Consume, IoError, Gone
  <2> QED
    OBVIOUS
<1> QED
  BY <1>1, <1>2, <1>3, <1>4, <1>5, <1>6, <1>7, <1>8, <1>9, <1>10, <1>11, <1>12, <1>13,
     <1>14, <1>15, <1>16 DEF Next

\* Flags stay Boolean.
LEMMA FlagTypesKept ==
    ASSUME Inv, [Next]_vars
    PROVE  FlagTypes'
<1> USE DEF Inv, Types, FlagTypes, vars, history
<1>1. CASE \E made \in SUBSET Assigned : Connect(made)
  <2>1. PICK made \in SUBSET Assigned : Connect(made)
    BY <1>1
  <2>2. ConnType
    OBVIOUS
  <2>3. failures' = failures \/ failures' = failures \cup {"connect"}
    BY <2>1, <2>2, ConnectMakes
  <2>4. leftover' \in BOOLEAN /\ swallowed' \in BOOLEAN /\ logger' \in BOOLEAN
    BY <2>1, <2>2, ConnectMakes
  <2>5. UNCHANGED <<pending, raised>>
    BY <2>1, <2>2, ConnectMakes
  <2> QED
    BY <2>3, <2>4, <2>5
<1>2. CASE TeardownConsumer
  BY <1>2, Order DEF TeardownConsumer, GoesOn
<1>3. CASE TeardownEnds
  BY <1>3, Order DEF TeardownEnds
<1>4. CASE CreateSenderFails
  BY <1>4 DEF CreateSenderFails
<1>5. CASE SendIoError
  BY <1>5 DEF SendIoError
<1>6. CASE RegisterConsumer
  BY <1>6 DEF RegisterConsumer, StartTeardown
<1>7. CASE IoError
  BY <1>7 DEF IoError
<1>8. CASE ConsumeEnds
  BY <1>8 DEF ConsumeEnds, CloseConsumer
<1>9. CASE LoopReturns
  BY <1>9 DEF LoopReturns, CloseConsumer, StartTeardown
<1>10. CASE LoopThrows
  BY <1>10 DEF LoopThrows, StartTeardown
<1>11. CASE SendThrows
  BY <1>11 DEF SendThrows
<1>12. CASE (\E method \in {"publish", "setCallback"} : Call(method))
         \/ UseOpenConnection \/ LoggerFails \/ CallClose \/ TeardownHandle
         \/ CreateSender \/ SendEnds \/ Consume \/ Gone \/ UNCHANGED vars
  <2> UNCHANGED <<pending, raised, logger, failures, leftover, swallowed>>
    BY <1>12 DEF Call, UseOpenConnection, LoggerFails, CallClose, TeardownHandle,
        CreateSender, SendEnds, Consume, Gone
  <2> QED
    OBVIOUS
<1> QED
  BY <1>1, <1>2, <1>3, <1>4, <1>5, <1>6, <1>7, <1>8, <1>9, <1>10, <1>11, <1>12 DEF Next

\* Connection's flags stay a record of Booleans.
LEMMA ConnTypeKept ==
    ASSUME Inv, [Next]_vars
    PROVE  ConnType'
<1> USE DEF Inv, Types, ConnType, ConnRecords, vars, history
<1>1. CASE LoggerFails
  BY <1>1 DEF LoggerFails, Fresh
<1>2. CASE \E made \in SUBSET Assigned : Connect(made)
  <2>1. PICK made \in SUBSET Assigned : Connect(made)
    BY <1>2
  <2> QED
    BY <2>1, ConnectMakes
<1>3. CASE CallClose
  BY <1>3 DEF CallClose, RefusesConnect, StartTeardown
<1>4. CASE TeardownConsumer
  BY <1>4, Order DEF TeardownConsumer, GoesOn
<1>5. CASE TeardownEnds
  BY <1>5, Order DEF TeardownEnds
<1>6. CASE SendIoError
  BY <1>6 DEF SendIoError
<1>7. CASE SendEnds
  BY <1>7 DEF SendEnds, DestroysSenderAndLink, ClosesConnection, StartTeardown
<1>8. CASE RegisterConsumer
  BY <1>8 DEF RegisterConsumer, StartTeardown
<1>9. CASE Consume
  BY <1>9 DEF Consume
<1>10. CASE IoError
  BY <1>10 DEF IoError
<1>11. CASE ConsumeEnds
  BY <1>11 DEF ConsumeEnds, CloseConsumer
<1>12. CASE LoopReturns
  BY <1>12 DEF LoopReturns, CloseConsumer, StartTeardown
<1>13. CASE LoopThrows
  BY <1>13 DEF LoopThrows, StartTeardown
<1>14. CASE SendThrows
  BY <1>14 DEF SendThrows
<1>15. CASE (\E method \in {"publish", "setCallback"} : Call(method))
         \/ UseOpenConnection \/ TeardownHandle \/ CreateSender \/ CreateSenderFails
         \/ Gone \/ UNCHANGED vars
  <2> UNCHANGED <<conn>>
    BY <1>15 DEF Call, UseOpenConnection, TeardownHandle, CreateSender,
        CreateSenderFails, Gone
  <2> QED
    OBVIOUS
<1> QED
  BY <1>1, <1>2, <1>3, <1>4, <1>5, <1>6, <1>7, <1>8, <1>9, <1>10, <1>11, <1>12, <1>13,
     <1>14, <1>15 DEF Next

\* Only what can be lost is lost: never a session, a receiver or its link.
LEMMA ObjectTypesKept ==
    ASSUME Inv, [Next]_vars
    PROVE  ObjectTypes'
<1> USE DEF Inv, Types, NameTypes, ObjectTypes, FlagTypes, Losable, Kinds,
           ReceiverKinds, SenderKinds, HeldShape, vars, history
<1>1. CASE \E made \in SUBSET Assigned : Connect(made)
  <2>1. PICK made \in SUBSET Assigned : Connect(made)
    BY <1>1
  <2>2. "session" \notin held
    BY <2>1, ConnectMakes
  <2>3. held' = (held \ Assigned) \cup made
    BY <2>1, ConnectMakes
  <2>4. held' \subseteq Kinds
    BY <2>3, AssignedKinds
  <2>5. held \cap Assigned \subseteq Losable
    BY <2>2, AssignedKinds
  <2>6. lost' \subseteq Losable
    BY <2>1, <2>5, ConnectMakes
  <2>7. step' = step
    BY <2>1, ConnectMakes
  <2> QED
    BY <2>4, <2>6, <2>7
<1>2. CASE CallClose
  BY <1>2 DEF CallClose, RefusesConnect, StartTeardown
<1>3. CASE TeardownConsumer
  BY <1>3, Order DEF TeardownConsumer, GoesOn
<1>4. CASE TeardownHandle
  <2>1. held' \subseteq held /\ step' \in 1 .. 8
    BY <1>4, HandleStep
  <2>2. lost' = lost
    BY <1>4 DEF TeardownHandle
  <2> QED
    BY <2>1, <2>2
<1>5. CASE TeardownEnds
  BY <1>5, Order DEF TeardownEnds
<1>6. CASE CreateSender
  BY <1>6 DEF CreateSender
<1>7. CASE CreateSenderFails
  BY <1>7 DEF CreateSenderFails
<1>8. CASE SendEnds
  BY <1>8 DEF SendEnds, DestroysSenderAndLink, ClosesConnection, StartTeardown
<1>9. CASE RegisterConsumer
  BY <1>9 DEF RegisterConsumer, StartTeardown
<1>10. CASE ConsumeEnds
  BY <1>10 DEF ConsumeEnds, CloseConsumer
<1>11. CASE LoopReturns
  BY <1>11 DEF LoopReturns, CloseConsumer, StartTeardown
<1>12. CASE LoopThrows
  BY <1>12 DEF LoopThrows, StartTeardown
<1>13. CASE SendThrows
  BY <1>13 DEF SendThrows
<1>14. CASE (\E method \in {"publish", "setCallback"} : Call(method))
         \/ UseOpenConnection \/ LoggerFails \/ SendIoError \/ Consume \/ IoError
         \/ Gone \/ UNCHANGED vars
  <2> UNCHANGED <<held, lost, step>>
    BY <1>14 DEF Call, UseOpenConnection, LoggerFails, SendIoError, Consume, IoError,
        Gone
  <2> QED
    OBVIOUS
<1> QED
  BY <1>1, <1>2, <1>3, <1>4, <1>5, <1>6, <1>7, <1>8, <1>9, <1>10, <1>11, <1>12, <1>13,
     <1>14 DEF Next

\* No object outlives its base.
LEMMA StackedKept ==
    ASSUME Inv, [Next]_vars
    PROVE  Stacked'
<1> USE DEF Inv, Types, ObjectTypes, Stacked, Assigned, Io, socket, transport,
           ReceiverKinds, SenderKinds, HeldShape, TeardownShape, RunShape, ConnType,
           ConnRecords, NameTypes, Phases, vars, history
<1>1. CASE \E made \in SUBSET Assigned : Connect(made)
  <2> HIDE DEF Assigned, socket, transport
  <2>1. PICK made \in SUBSET Assigned : Connect(made)
    BY <1>1
  <2>2. held \subseteq Assigned
    BY <2>1, ConnectMakes DEF HeldShape, RunShape
  <2>3. held' = (held \ Assigned) \cup made
    BY <2>1, ConnectMakes
  <2>4. held' = made
    BY <2>2, <2>3
  <2>5. made \cap ReceiverKinds = {} /\ made \cap SenderKinds = {}
    BY AssignedKinds
  <2>6. /\ "sasl_io" \in made => socket \in made /\ "sasl_mechanism" \in made
        /\ "connection" \in made => transport \in made
        /\ "session" \in made => "connection" \in made
    BY <2>1, ConnectMakes
  <2>7. socket' = socket /\ transport' = transport
    BY StackFixed
  <2> QED
    BY <2>4, <2>5, <2>6, <2>7 DEF Stacked, ReceiverKinds, SenderKinds
<1>2. CASE TeardownConsumer
  BY <1>2, Order DEF TeardownConsumer, GoesOn
<1>3. CASE TeardownHandle
  BY <1>3, HandleStep DEF TeardownHandle
<1>4. CASE CreateSender
  BY <1>4 DEF CreateSender
<1>5. CASE SendEnds
  BY <1>5 DEF SendEnds, DestroysSenderAndLink, ClosesConnection, StartTeardown
<1>6. CASE RegisterConsumer
  BY <1>6 DEF RegisterConsumer, StartTeardown
<1>7. CASE ConsumeEnds
  BY <1>7 DEF ConsumeEnds, CloseConsumer
<1>8. CASE LoopReturns
  BY <1>8 DEF LoopReturns, CloseConsumer, StartTeardown
<1>9. CASE SendThrows
  BY <1>9 DEF SendThrows
<1>10. CASE (\E method \in {"publish", "setCallback"} : Call(method))
         \/ UseOpenConnection \/ LoggerFails \/ CallClose \/ TeardownEnds
         \/ CreateSenderFails \/ SendIoError \/ Consume \/ IoError \/ LoopThrows \/ Gone
         \/ UNCHANGED vars
  <2> UNCHANGED <<held, tls, auth>>
    BY <1>10 DEF Call, UseOpenConnection, LoggerFails, CallClose, TeardownEnds,
        CreateSenderFails, SendIoError, Consume, IoError, LoopThrows, Gone
  <2> QED
    OBVIOUS
<1> QED
  BY <1>1, <1>2, <1>3, <1>4, <1>5, <1>6, <1>7, <1>8, <1>9, <1>10 DEF Next

\* Runs keep their shape.
LEMMA RunShapeKept ==
    ASSUME Inv, [Next]_vars
    PROVE  RunShape'
<1> USE DEF Inv, Types, NameTypes, Phases, ConnType, ConnRecords, ObjectTypes, RunShape,
           TeardownShape, vars, history
<1>1. CASE \E method \in {"publish", "setCallback"} : Call(method)
  BY <1>1 DEF Call, RefusesConnect
<1>2. CASE UseOpenConnection
  BY <1>2 DEF UseOpenConnection, Connected
<1>3. CASE LoggerFails
  BY <1>3 DEF LoggerFails, Fresh
<1>4. CASE \E made \in SUBSET Assigned : Connect(made)
  <2>1. PICK made \in SUBSET Assigned : Connect(made)
    BY <1>4
  <2> QED
    BY <2>1, ConnectMakes
<1>5. CASE CallClose
  BY <1>5 DEF CallClose, RefusesConnect, StartTeardown
<1>6. CASE TeardownConsumer
  BY <1>6, Order DEF TeardownConsumer, GoesOn
<1>7. CASE TeardownEnds
  BY <1>7, Order DEF TeardownEnds
<1>8. CASE CreateSender
  BY <1>8 DEF CreateSender
<1>9. CASE CreateSenderFails
  BY <1>9 DEF CreateSenderFails
<1>10. CASE SendIoError
  BY <1>10 DEF SendIoError
<1>11. CASE SendEnds
  BY <1>11 DEF SendEnds, DestroysSenderAndLink, ClosesConnection, StartTeardown
<1>12. CASE RegisterConsumer
  BY <1>12 DEF RegisterConsumer, StartTeardown
<1>13. CASE Consume
  BY <1>13 DEF Consume
<1>14. CASE IoError
  BY <1>14 DEF IoError
<1>15. CASE ConsumeEnds
  BY <1>15 DEF ConsumeEnds, CloseConsumer
<1>16. CASE LoopReturns
  BY <1>16 DEF LoopReturns, CloseConsumer, StartTeardown
<1>17. CASE LoopThrows
  BY <1>17 DEF LoopThrows, StartTeardown
<1>18. CASE SendThrows
  BY <1>18 DEF SendThrows
<1>19. CASE TeardownHandle \/ Gone \/ UNCHANGED vars
  <2> UNCHANGED <<conn, phase, consumer>>
    BY <1>19 DEF TeardownHandle, Gone
  <2> QED
    OBVIOUS
<1> QED
  BY <1>1, <1>2, <1>3, <1>4, <1>5, <1>6, <1>7, <1>8, <1>9, <1>10, <1>11, <1>12, <1>13,
     <1>14, <1>15, <1>16, <1>17, <1>18, <1>19 DEF Next

\* The end of a run that the loop function ends by returning.
LEMMA LoopReturnMakes ==
    ASSUME conn \in ConnRecords, LoopReturns
    PROVE  /\ phase = "run" /\ phase' \in {"teardown", "script"}
           /\ consumer' = "finished" /\ held' = held \ ReceiverKinds
           /\ conn' \in ConnRecords /\ conn'.isConnected = conn.isConnected
           /\ leftover' = leftover
<1>1. PICK fails, io \in BOOLEAN :
          /\ CloseConsumer(fails)
          /\ IF fails \/ conn.closeRequested
             THEN StartTeardown([conn EXCEPT !.receiverRunActive = FALSE, !.ioError = @ \/ io])
             ELSE /\ phase' = "script" /\ UNCHANGED step
                  /\ conn' = [conn EXCEPT !.receiverRunActive = FALSE, !.ioError = @ \/ io]
  BY DEF LoopReturns
<1> QED
  BY <1>1 DEF LoopReturns, CloseConsumer, StartTeardown, ConnRecords

\* Objects are held where HeldShape says.
LEMMA HeldShapeKept ==
    ASSUME Inv, [Next]_vars
    PROVE  HeldShape'
<1> USE DEF Inv, Types, NameTypes, Phases, ConnType, ConnRecords, ObjectTypes, Kinds,
           ReceiverKinds, SenderKinds, HeldShape, RunShape, TeardownShape, vars, history
<1> USE StackFixed
<1>1. CASE \E method \in {"publish", "setCallback"} : Call(method)
  BY <1>1 DEF Call, RefusesConnect
<1>2. CASE UseOpenConnection
  BY <1>2 DEF UseOpenConnection, Connected
<1>3. CASE LoggerFails
  BY <1>3 DEF LoggerFails, Fresh
<1>4. CASE \E made \in SUBSET Assigned : Connect(made)
  <2>1. PICK made \in SUBSET Assigned : Connect(made)
    BY <1>4
  <2>2. held \subseteq Assigned
    BY <2>1, ConnectMakes DEF HeldShape, RunShape
  <2>3. held' = (held \ Assigned) \cup made
    BY <2>1, ConnectMakes
  <2>4. held' = made
    BY <2>2, <2>3
  <2>5. made \cap ReceiverKinds = {} /\ made \cap SenderKinds = {}
    BY AssignedKinds
  <2> QED
    BY <2>1, <2>4, <2>5, ConnectMakes, StackFixed
<1>5. CASE CallClose
  BY <1>5 DEF CallClose, RefusesConnect, StartTeardown
<1>6. CASE TeardownConsumer
  BY <1>6, Order DEF TeardownConsumer, GoesOn
<1>7. CASE TeardownHandle
  <2> /\ phase = "teardown" /\ held' = held \ {TeardownOrder[step]}
      /\ UNCHANGED <<conn, phase, consumer, leftover>>
    BY <1>7 DEF TeardownHandle
  <2>1. held' \subseteq held
    OBVIOUS
  <2> QED
    BY <2>1
<1>8. CASE TeardownEnds
  BY <1>8, Order DEF TeardownEnds
<1>9. CASE CreateSender
  BY <1>9 DEF CreateSender
<1>10. CASE CreateSenderFails
  BY <1>10 DEF CreateSenderFails
<1>11. CASE SendIoError
  BY <1>11 DEF SendIoError
<1>12. CASE SendEnds
  BY <1>12 DEF SendEnds, DestroysSenderAndLink, ClosesConnection, StartTeardown
<1>13. CASE RegisterConsumer
  BY <1>13 DEF RegisterConsumer, StartTeardown
<1>14. CASE Consume
  BY <1>14 DEF Consume
<1>15. CASE IoError
  BY <1>15 DEF IoError
<1>16. CASE ConsumeEnds
  BY <1>16 DEF ConsumeEnds, CloseConsumer
<1>17. CASE LoopReturns
  BY <1>17, LoopReturnMakes
<1>18. CASE LoopThrows
  BY <1>18 DEF LoopThrows, StartTeardown
<1>19. CASE SendThrows
  BY <1>19 DEF SendThrows
<1>20. CASE Gone \/ UNCHANGED vars
  <2> UNCHANGED <<held, consumer, phase, conn, leftover>>
    BY <1>20 DEF Gone
  <2> QED
    OBVIOUS
<1> QED
  BY <1>1, <1>2, <1>3, <1>4, <1>5, <1>6, <1>7, <1>8, <1>9, <1>10, <1>11, <1>12, <1>13,
     <1>14, <1>15, <1>16, <1>17, <1>18, <1>19, <1>20 DEF Next

\* A teardown destroys in order.
LEMMA TeardownShapeKept ==
    ASSUME Inv, [Next]_vars
    PROVE  TeardownShape'
<1> USE DEF Inv, Types, ObjectTypes, TeardownShape, vars, history
<1>1. CASE \E method \in {"publish", "setCallback"} : Call(method)
  BY <1>1 DEF Call, RefusesConnect
<1>2. CASE UseOpenConnection
  BY <1>2 DEF UseOpenConnection, Connected
<1>3. CASE LoggerFails
  BY <1>3 DEF LoggerFails, Fresh
<1>4. CASE \E made \in SUBSET Assigned : Connect(made)
  <2>1. PICK made \in SUBSET Assigned : Connect(made)
    BY <1>4
  <2> QED
    BY <2>1, ConnectMakes
<1>5. CASE CallClose
  BY <1>5 DEF CallClose, RefusesConnect, StartTeardown
<1>6. CASE TeardownConsumer
  BY <1>6, Order DEF TeardownConsumer, GoesOn
<1>7. CASE TeardownHandle
  BY <1>7, HandleStep DEF TeardownHandle
<1>8. CASE TeardownEnds
  BY <1>8, Order DEF TeardownEnds
<1>9. CASE CreateSender
  BY <1>9 DEF CreateSender
<1>10. CASE CreateSenderFails
  BY <1>10 DEF CreateSenderFails
<1>11. CASE SendEnds
  BY <1>11 DEF SendEnds, DestroysSenderAndLink, ClosesConnection, StartTeardown
<1>12. CASE RegisterConsumer
  BY <1>12 DEF RegisterConsumer, StartTeardown
<1>13. CASE ConsumeEnds
  BY <1>13 DEF ConsumeEnds, CloseConsumer
<1>14. CASE LoopReturns
  BY <1>14 DEF LoopReturns, CloseConsumer, StartTeardown
<1>15. CASE LoopThrows
  BY <1>15 DEF LoopThrows, StartTeardown
<1>16. CASE SendThrows
  BY <1>16 DEF SendThrows
<1>17. CASE SendIoError \/ Consume \/ IoError \/ Gone \/ UNCHANGED vars
  <2> UNCHANGED <<phase, step, consumer, held>>
    BY <1>17 DEF SendIoError, Consume, IoError, Gone
  <2> QED
    OBVIOUS
<1> QED
  BY <1>1, <1>2, <1>3, <1>4, <1>5, <1>6, <1>7, <1>8, <1>9, <1>10, <1>11, <1>12, <1>13,
     <1>14, <1>15, <1>16, <1>17 DEF Next

\* A connect leaves something behind only when it fails.
LEMMA FailureShapeKept ==
    ASSUME Inv, [Next]_vars
    PROVE  FailureShape'
<1> USE DEF Inv, Types, FlagTypes, FailureShape, vars, history
<1>1. CASE \E made \in SUBSET Assigned : Connect(made)
  <2>1. PICK made \in SUBSET Assigned : Connect(made)
    BY <1>1
  <2>2. leftover' = ("session" \notin made)
    BY <2>1, ConnectMakes
  <2>3. "session" \notin made => failures' = failures \cup {"connect"}
    BY <2>1, ConnectMakes
  <2> QED
    BY <2>2, <2>3
<1>2. CASE TeardownEnds
  BY <1>2, Order DEF TeardownEnds
<1>3. CASE CreateSenderFails
  BY <1>3 DEF CreateSenderFails
<1>4. CASE SendThrows
  BY <1>4 DEF SendThrows
<1>5. CASE (\E method \in {"publish", "setCallback"} : Call(method))
         \/ UseOpenConnection \/ LoggerFails \/ CallClose \/ TeardownConsumer
         \/ TeardownHandle \/ CreateSender \/ SendIoError \/ SendEnds \/ RegisterConsumer
         \/ Consume \/ IoError \/ ConsumeEnds \/ LoopReturns \/ LoopThrows \/ Gone
         \/ UNCHANGED vars
  <2> UNCHANGED <<failures, leftover>>
    BY <1>5 DEF Call, UseOpenConnection, LoggerFails, CallClose, TeardownConsumer,
        TeardownHandle, CreateSender, SendIoError, SendEnds, RegisterConsumer, Consume,
        IoError, ConsumeEnds, LoopReturns, LoopThrows, Gone
  <2> QED
    OBVIOUS
<1> QED
  BY <1>1, <1>2, <1>3, <1>4, <1>5 DEF Next

\* What connect loses is what the failed one before it left, all of it.
LEMMA ConnectLoses ==
    ASSUME Inv, NEW made \in SUBSET Assigned, Connect(made)
    PROVE  /\ held \subseteq Assigned
           /\ lost' = lost \cup held \/ lost' = lost \cup held \cup {"platform"}
           /\ lost' # lost => leftover
           /\ lost \subseteq lost' /\ failures \subseteq failures'
<1>1. phase = "connect" /\ ~conn.isConnected
  BY ConnectMakes DEF Inv, Types
<1>2. held \subseteq Assigned
  BY <1>1 DEF Inv, HeldShape, RunShape
<1>3. lost' = lost \cup held \/ lost' = lost \cup held \cup {"platform"}
  BY <1>2 DEF Connect
<1>4. ASSUME ~leftover
      PROVE  lost' = lost
  <2>1. held = {} /\ ~conn.platformInitialized
    BY <1>1, <1>4 DEF Inv, HeldShape
  <2>2. lost' = lost \cup (held \cap Assigned)
    BY <2>1, ConnectMakes DEF Inv, Types
  <2> QED
    BY <2>1, <2>2
<1>5. failures \subseteq failures'
  BY ConnectMakes DEF Inv, Types
<1> QED
  BY <1>2, <1>3, <1>4, <1>5

\* What is lost, and with what, in each of the three ways to lose something.
LEMMA LossesKept ==
    ASSUME Inv, [Next]_vars
    PROVE  LostStacked' /\ LostOnlyByFailure'
<1> USE DEF Inv, LostStacked, LostOnlyByFailure, SenderKinds
<1>1. CASE \E made \in SUBSET Assigned : Connect(made)
  <2>1. PICK made \in SUBSET Assigned : Connect(made)
    BY <1>1
  <2>2. /\ held \subseteq Assigned
        /\ lost' = lost \cup held \/ lost' = lost \cup held \cup {"platform"}
    BY <2>1, ConnectLoses
  <2>3. "message_sender" \notin held /\ "sender_link" \notin held
    BY <2>2, AssignedKinds
  <2>4. LostStacked'
    <3>1. socket' = socket /\ transport' = transport
      BY StackFixed
    <3>2. socket # "platform" /\ transport # "platform"
      BY DEF socket, transport
    <3> QED
      BY <2>2, <2>3, <3>1 DEF Stacked
  <2>5. lost' # lost => "connect" \in failures'
    BY <2>1, ConnectLoses DEF FailureShape
  <2>6. lost \subseteq lost' /\ failures \subseteq failures'
    BY <2>1, ConnectLoses
  <2>7. lost' \cap SenderKinds = lost \cap SenderKinds
    BY <2>2, <2>3
  <2> QED
    BY <2>4, <2>5, <2>6, <2>7
<1>2. CASE CreateSenderFails
  <2>1. PICK made \in {{}, {"sender_link"}, SenderKinds} : lost' = lost \cup made
    BY <1>2 DEF CreateSenderFails
  <2>2. socket' = socket /\ transport' = transport
    BY StackFixed
  <2> QED
    BY <1>2, <2>1, <2>2 DEF CreateSenderFails
<1>3. CASE SendThrows
  <2>1. socket' = socket /\ transport' = transport
    BY StackFixed
  <2> QED
    BY <1>3, <2>1 DEF SendThrows
<1>4. CASE (\E method \in {"publish", "setCallback"} : Call(method))
         \/ UseOpenConnection \/ LoggerFails \/ CallClose \/ TeardownConsumer
         \/ TeardownHandle \/ TeardownEnds \/ CreateSender \/ SendIoError \/ SendEnds
         \/ RegisterConsumer \/ Consume \/ IoError \/ ConsumeEnds \/ LoopReturns
         \/ LoopThrows \/ Gone \/ UNCHANGED vars
  <2>1. UNCHANGED <<lost, failures>>
    BY <1>4 DEF Call, UseOpenConnection, LoggerFails, CallClose, TeardownConsumer,
        TeardownHandle, TeardownEnds, CreateSender, SendIoError, SendEnds,
        DestroysSenderAndLink, RegisterConsumer, Consume, IoError, ConsumeEnds,
        LoopReturns, LoopThrows, Gone, vars, history
  <2>2. socket' = socket /\ transport' = transport
    BY StackFixed
  <2> QED
    BY <2>1, <2>2
<1> QED
  BY <1>1, <1>2, <1>3, <1>4 DEF Next

\* An I/O error that outlives a run was swallowed.
LEMMA ErrorShapeKept ==
    ASSUME Inv, [Next]_vars
    PROVE  ErrorShape'
<1> USE DEF Inv, Types, NameTypes, Phases, FlagTypes, ConnType, ConnRecords, RunShape,
           ErrorShape, vars, history
<1>1. CASE \E method \in {"publish", "setCallback"} : Call(method)
  BY <1>1 DEF Call, RefusesConnect
<1>2. CASE UseOpenConnection
  BY <1>2 DEF UseOpenConnection, Connected
<1>3. CASE LoggerFails
  BY <1>3 DEF LoggerFails, Fresh
<1>4. CASE \E made \in SUBSET Assigned : Connect(made)
  <2>1. PICK made \in SUBSET Assigned : Connect(made)
    BY <1>4
  <2> QED
    BY <2>1, ConnectMakes
<1>5. CASE CallClose
  BY <1>5 DEF CallClose, RefusesConnect, StartTeardown
<1>6. CASE TeardownConsumer
  BY <1>6, Order DEF TeardownConsumer, GoesOn
<1>7. CASE TeardownEnds
  BY <1>7, Order DEF TeardownEnds
<1>8. CASE CreateSender
  BY <1>8 DEF CreateSender
<1>9. CASE CreateSenderFails
  BY <1>9 DEF CreateSenderFails
<1>10. CASE SendIoError
  BY <1>10 DEF SendIoError
<1>11. CASE SendEnds
  BY <1>11 DEF SendEnds, DestroysSenderAndLink, ClosesConnection, StartTeardown
<1>12. CASE RegisterConsumer
  BY <1>12 DEF RegisterConsumer, StartTeardown
<1>13. CASE Consume
  BY <1>13 DEF Consume
<1>14. CASE IoError
  BY <1>14 DEF IoError
<1>15. CASE ConsumeEnds
  BY <1>15 DEF ConsumeEnds, CloseConsumer
<1>16. CASE LoopReturns
  BY <1>16 DEF LoopReturns, CloseConsumer, StartTeardown
<1>17. CASE LoopThrows
  BY <1>17 DEF LoopThrows, StartTeardown
<1>18. CASE SendThrows
  BY <1>18 DEF SendThrows
<1>19. CASE TeardownHandle \/ Gone \/ UNCHANGED vars
  <2> UNCHANGED <<phase, conn, consumer, swallowed, raised>>
    BY <1>19 DEF TeardownHandle, Gone
  <2> QED
    OBVIOUS
<1> QED
  BY <1>1, <1>2, <1>3, <1>4, <1>5, <1>6, <1>7, <1>8, <1>9, <1>10, <1>11, <1>12, <1>13,
     <1>14, <1>15, <1>16, <1>17, <1>18, <1>19 DEF Next

\* What is pending is thrown within the call.
LEMMA PendingShapeKept ==
    ASSUME Inv, [Next]_vars
    PROVE  PendingShape'
<1> USE DEF Inv, Types, NameTypes, Phases, FlagTypes, ConnType, ConnRecords,
           ObjectTypes, RunShape, PendingShape, vars, history
<1>1. CASE \E method \in {"publish", "setCallback"} : Call(method)
  BY <1>1 DEF Call, RefusesConnect
<1>2. CASE UseOpenConnection
  BY <1>2 DEF UseOpenConnection, Connected
<1>3. CASE LoggerFails
  BY <1>3 DEF LoggerFails, Fresh
<1>4. CASE \E made \in SUBSET Assigned : Connect(made)
  <2>1. PICK made \in SUBSET Assigned : Connect(made)
    BY <1>4
  <2> QED
    BY <2>1, ConnectMakes
<1>5. CASE CallClose
  BY <1>5 DEF CallClose, RefusesConnect, StartTeardown
<1>6. CASE TeardownConsumer
  BY <1>6, Order DEF TeardownConsumer, GoesOn
<1>7. CASE TeardownHandle
  BY <1>7, HandleStep DEF TeardownHandle
<1>8. CASE TeardownEnds
  BY <1>8, Order DEF TeardownEnds
<1>9. CASE CreateSender
  BY <1>9 DEF CreateSender
<1>10. CASE CreateSenderFails
  BY <1>10 DEF CreateSenderFails
<1>11. CASE SendIoError
  BY <1>11 DEF SendIoError
<1>12. CASE SendEnds
  BY <1>12 DEF SendEnds, DestroysSenderAndLink, ClosesConnection, StartTeardown
<1>13. CASE RegisterConsumer
  BY <1>13 DEF RegisterConsumer, StartTeardown
<1>14. CASE Consume
  BY <1>14 DEF Consume
<1>15. CASE IoError
  BY <1>15 DEF IoError
<1>16. CASE ConsumeEnds
  BY <1>16 DEF ConsumeEnds, CloseConsumer
<1>17. CASE LoopReturns
  BY <1>17 DEF LoopReturns, CloseConsumer, StartTeardown
<1>18. CASE LoopThrows
  BY <1>18 DEF LoopThrows, StartTeardown
<1>19. CASE SendThrows
  BY <1>19 DEF SendThrows
<1>20. CASE Gone \/ UNCHANGED vars
  <2> UNCHANGED <<pending, phase, conn, step>>
    BY <1>20 DEF Gone
  <2> QED
    OBVIOUS
<1> QED
  BY <1>1, <1>2, <1>3, <1>4, <1>5, <1>6, <1>7, <1>8, <1>9, <1>10, <1>11, <1>12, <1>13,
     <1>14, <1>15, <1>16, <1>17, <1>18, <1>19, <1>20 DEF Next

-----------------------------------------------------------------------------
(* The invariant. *)

\* It holds of a new Connection object.
LEMMA InitiallyInv == Init => Inv
<1> SUFFICES ASSUME Init
             PROVE  Inv
  OBVIOUS
<1> USE DEF Init
<1>1. NameTypes /\ FlagTypes /\ ConnType
  BY DEF NameTypes, Phases, FlagTypes, ConnType, ConnRecords
<1>2. ObjectTypes /\ Stacked
  BY DEF ObjectTypes, Stacked
<1>3. RunShape /\ HeldShape /\ TeardownShape
  BY DEF RunShape, HeldShape, TeardownShape
<1>4. FailureShape /\ ErrorShape /\ PendingShape
  BY DEF FailureShape, ErrorShape, PendingShape
<1>5. LostStacked /\ LostOnlyByFailure
  BY DEF LostStacked, LostOnlyByFailure
<1> QED
  BY <1>1, <1>2, <1>3, <1>4, <1>5 DEF Inv, Types

\* Every step keeps it.
LEMMA InvKept == Inv /\ [Next]_vars => Inv'
<1> SUFFICES ASSUME Inv, [Next]_vars
             PROVE  Inv'
  OBVIOUS
<1>1. Types'
  BY NameTypesKept, FlagTypesKept, ConnTypeKept, ObjectTypesKept DEF Types
<1>2. Stacked' /\ RunShape' /\ HeldShape' /\ TeardownShape'
  BY StackedKept, RunShapeKept, HeldShapeKept, TeardownShapeKept
<1>3. FailureShape' /\ ErrorShape' /\ PendingShape'
  BY FailureShapeKept, ErrorShapeKept, PendingShapeKept
<1>4. LostStacked' /\ LostOnlyByFailure'
  BY LossesKept
<1> QED
  BY <1>1, <1>2, <1>3, <1>4 DEF Inv

\* It holds in every reachable state.
LEMMA InvHolds == Spec => []Inv
  BY InitiallyInv, InvKept, PTL DEF Spec

-----------------------------------------------------------------------------
(* What it implies. *)

\* Every variable keeps its type; in particular a session and a receiver are never
\* among the objects that are lost.
THEOREM TypeCorrect == Spec => []TypeOK
<1>1. Inv => TypeOK
  BY DEF Inv, Types, NameTypes, Phases, FlagTypes, ConnType, ConnRecords, ObjectTypes,
         Losable, TypeOK
<1> QED
  BY <1>1, InvHolds, PTL

\* At every step of connect, of the teardown, of publish and of a run, what an
\* object in use is built on exists; and an object that some failure has lost was
\* lost with what it is built on, except the sender link of a failed publish, whose
\* session is destroyed later.
THEOREM BasesOutlive == Spec => []NothingOutlivesItsBase
<1>1. ASSUME Inv, NEW kind \in held
      PROVE  Base(kind) \subseteq held
  <2> USE DEF Inv, Stacked
  <2>1. CASE kind = "sasl_io"
    BY <1>1, <2>1 DEF Base
  <2>2. CASE kind = "connection"
    BY <1>1, <2>2 DEF Base
  <2>3. CASE kind = "session"
    BY <1>1, <2>3 DEF Base
  <2>4. CASE kind \in {"receiver_link", "sender_link"}
    BY <1>1, <2>4 DEF Base
  <2>5. CASE kind = "message_receiver"
    BY <1>1, <2>5 DEF Base
  <2>6. CASE kind = "message_sender"
    BY <1>1, <2>6 DEF Base
  <2>7. CASE kind \notin {"sasl_io", "connection", "session", "receiver_link", "sender_link",
                          "message_receiver", "message_sender"}
    BY <2>7 DEF Base
  <2> QED
    BY <2>1, <2>2, <2>3, <2>4, <2>5, <2>6, <2>7
<1>2. ASSUME Inv, NEW kind \in lost \ {"sender_link"}
      PROVE  Base(kind) \subseteq lost
  <2>1. kind \notin {"session", "receiver_link", "message_receiver"}
    BY <1>2 DEF Inv, Types, ObjectTypes, Losable, ReceiverKinds
  <2>2. CASE kind = "sasl_io"
    BY <1>2, <2>2 DEF Base, Inv, LostStacked
  <2>3. CASE kind = "connection"
    BY <1>2, <2>3 DEF Base, Inv, LostStacked
  <2>4. CASE kind = "message_sender"
    BY <1>2, <2>4 DEF Base, Inv, LostStacked
  <2>5. CASE kind \notin {"sasl_io", "connection", "message_sender"}
    BY <1>2, <2>1, <2>5 DEF Base
  <2> QED
    BY <2>2, <2>3, <2>4, <2>5
<1>3. Inv => NothingOutlivesItsBase
  BY <1>1, <1>2 DEF NothingOutlivesItsBase
<1> QED
  BY <1>3, InvHolds, PTL

\* A closed connection owns nothing between calls, unless connect failed part-way
\* and close has not been called since; a destroyed one owns nothing at all.
THEOREM ClosedMeansEmpty == Spec => []ClosedOwnsNothing
<1>1. Inv => ClosedOwnsNothing
  BY DEF Inv, Types, FlagTypes, HeldShape, ClosedOwnsNothing
<1> QED
  BY <1>1, InvHolds, PTL

\* A sender and its link are lost by a publish that failed or was unwound only,
\* anything else by the connect after one that failed part-way only.
THEOREM LossNeedsFailure == Spec => []LostOnlyByFailure
<1>1. Inv => LostOnlyByFailure
  BY DEF Inv
<1> QED
  BY <1>1, InvHolds, PTL

\* publish and setCallback start on a failed transport only after a loop function
\* swallowed the failure.
THEOREM StaleErrorWasSwallowed == Spec => []StaleErrorOnlyAfterSwallow
<1>1. Inv => StaleErrorOnlyAfterSwallow
  BY DEF Inv, RunShape, ErrorShape, StaleErrorOnlyAfterSwallow
<1> QED
  BY <1>1, InvHolds, PTL

\* No exception is left over from one call for the next.
THEOREM NoExceptionLeft == Spec => []NoStaleException
<1>1. Inv => NoStaleException
  BY DEF Inv, PendingShape, NoStaleException
<1> QED
  BY <1>1, InvHolds, PTL
=============================================================================
