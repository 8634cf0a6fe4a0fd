-------------------------- MODULE LinkCreditProofs ---------------------------
(***************************************************************************)
(* Proofs about LinkCredit, for every modulus, allowance, set of grants    *)
(* and bound.  Inv is inductive for every caller and gives type            *)
(* correctness and NeverBeyondGrant.  Books, which needs a caller that     *)
(* never replaces credit by less (~MayRevoke), gives CreditCoversPeer,     *)
(* DrainQuiescent and the refinement of CreditAccount.                     *)
(***************************************************************************)
EXTENDS LinkCredit, SequenceTheorems, TLAPS

\* The count the sender has reached once it has sent frame f.
Reach(f) == IF f.kind = "transfer" /\ ~f.more THEN f.count + 1 ELSE f.count

\* The count up to which FLOW f lets the sender deliver.
Limit(f) == f.count + f.credit

\* Before the attach exchange nothing has happened on the link.
Unattached ==
    link_state # "ATTACHED" =>
        /\ toPeer = <<>>
        /\ toReceiver = <<>>
        /\ peerCredit = 0
        /\ ~peerDrain
        /\ ~peerSending
        /\ ~receiver_drain
        /\ ~receiver_drain_complete
        /\ ~receiver_credit_manual => current_link_credit = 0

\* Counts grow along the channel to the receiver, from its own to the sender's.
InOrder ==
    /\ BaseCount <= peerCount
    /\ \A i \in 1 .. Len(toReceiver) :
          /\ delivery_count <= toReceiver[i].count
          /\ Reach(toReceiver[i]) <= peerCount
    /\ \A i, j \in 1 .. Len(toReceiver) :
          i < j => Reach(toReceiver[i]) <= toReceiver[j].count

\* Nobody holds credit beyond what was authorised.
Authority ==
    /\ BaseCount + current_link_credit <= authorised
    /\ peerCount + peerCredit <= authorised
    /\ peerSending => peerCount < authorised
    /\ \A i \in 1 .. Len(toPeer) : Limit(toPeer[i]) <= authorised

Inv == TypeOK /\ Unattached /\ InOrder /\ Authority

\* The counts up to which the two ends consider deliveries allowed.
PeerLimit == peerCount + peerCredit
OwnLimit == BaseCount + current_link_credit

\* Limits grow along the channel to the sender, from its own to the receiver's.
Limits ==
    /\ PeerLimit <= OwnLimit
    /\ peerSending => peerCredit > 0
    /\ \A i \in 1 .. Len(toPeer) :
          PeerLimit <= Limit(toPeer[i]) /\ Limit(toPeer[i]) <= OwnLimit
    /\ \A i, j \in 1 .. Len(toPeer) :
          i < j => Limit(toPeer[i]) <= Limit(toPeer[j])

\* The drain flags and the mode.
Modes ==
    /\ receiver_drain => receiver_credit_manual
    /\ receiver_drain_complete => receiver_drain /\ current_link_credit = 0
    /\ ~receiver_credit_manual => current_link_credit <= MaxLinkCredit

\* The first frame of a delivery is followed by its last frame, or the sender
\* is still about to send that.
HalfSent ==
    \A i \in 1 .. Len(toReceiver) :
        toReceiver[i].kind = "transfer" /\ toReceiver[i].more =>
            toReceiver[i].count < peerCount \/ peerSending

Books == Inv /\ Limits /\ Modes /\ HalfSent

-----------------------------------------------------------------------------
(* Constants, arithmetic and sequences. *)

LEMMA ConstantTypes ==
    /\ Modulus \in Nat \ {0}
    /\ Grants \subseteq 0 .. (Modulus - 1)
    /\ MaxLinkCredit \in 0 .. (Modulus - 1)
    /\ InitialCounts \subseteq Nat
    /\ MaxCount \in Nat
  BY ModulusAssumption, GrantsAssumption, MaxLinkCreditAssumption, InitialCountsAssumption,
     BoundsAssumption
     DEF ModulusAssumption, GrantsAssumption, MaxLinkCreditAssumption,
         InitialCountsAssumption, BoundsAssumption

\* Subtraction of counts modulo 2^32 yields a 32 bit value that never exceeds
\* the true distance between counts in order.
LEMMA SerialDiffBounds ==
    ASSUME NEW m \in Nat, NEW n \in Nat
    PROVE  /\ SerialDiff(m, n) \in 0 .. (Modulus - 1)
           /\ n <= m => SerialDiff(m, n) <= m - n
  BY ConstantTypes, SMT DEF SerialDiff

\* A natural number is at most a sum it is part of.
LEMMA SummandBound ==
    ASSUME NEW m \in Nat, NEW n \in Nat, NEW b \in Nat, m + n <= b
    PROVE  m <= b
  OBVIOUS

LEMMA SumType ==
    ASSUME NEW m \in Nat, NEW n \in Nat
    PROVE  m + n \in Nat
  OBVIOUS

LEMMA SumGrows ==
    ASSUME NEW m \in Nat, NEW n \in Nat, NEW k \in Nat, k >= n
    PROVE  m + n <= m + k /\ m + k >= m + n
  OBVIOUS

\* Credit given back: the count moves from d to e, the credit from c to k.
LEMMA ReturnArithmetic ==
    ASSUME NEW d \in Nat, NEW e \in Nat, NEW c \in Nat, NEW k \in Nat,
           d <= e, e + k = d + c
    PROVE  /\ e - d \in Nat
           /\ e = d + (e - d)
           /\ e - d \in 0 .. ((d + c) - d)
           /\ (k = 0) <=> (e = e + k)
  OBVIOUS

\* What is left of a channel when its first frame is taken.
LEMMA TakeFirst ==
    ASSUME NEW S, NEW s \in Seq(S), s # <<>>
    PROVE  /\ Len(s) \in Nat
           /\ Len(s) > 0
           /\ Head(s) = s[1]
           /\ Head(s) \in S
           /\ Tail(s) \in Seq(S)
           /\ Len(Tail(s)) = Len(s) - 1
           /\ \A i \in 1 .. Len(Tail(s)) : Tail(s)[i] = s[i + 1]
  BY HeadTailProperties, EmptySeq, SMT

\* What a channel holds when a frame is added to its end.
LEMMA AddLast ==
    ASSUME NEW S, NEW s \in Seq(S), NEW e \in S
    PROVE  /\ Len(s) \in Nat
           /\ Append(s, e) \in Seq(S)
           /\ Len(Append(s, e)) = Len(s) + 1
           /\ \A i \in 1 .. Len(s) : Append(s, e)[i] = s[i]
           /\ Append(s, e)[Len(s) + 1] = e
  BY AppendProperties, LenProperties

\* The fields of frames.
LEMMA FlowFields ==
    ASSUME NEW n \in Nat, NEW c \in Nat, NEW d \in BOOLEAN
    PROVE  /\ Flow(n, c, d) \in Flows
           /\ Flow(n, c, d) \in Frames
           /\ Flow(n, c, d).kind = "flow"
           /\ Flow(n, c, d).count = n
           /\ Flow(n, c, d).credit = c
           /\ Flow(n, c, d).drain = d
           /\ Limit(Flow(n, c, d)) = n + c
           /\ Reach(Flow(n, c, d)) = n
  BY DEF Flow, Flows, Frames, Limit, Reach

LEMMA TransferFields ==
    ASSUME NEW n \in Nat, NEW m \in BOOLEAN
    PROVE  /\ Transfer(n, m) \in Frames
           /\ Transfer(n, m).kind = "transfer"
           /\ Transfer(n, m).count = n
           /\ Transfer(n, m).more = m
           /\ Reach(Transfer(n, m)) = IF m THEN n ELSE n + 1
  BY DEF Transfer, Transfers, Frames, Reach

LEMMA FrameFields ==
    ASSUME NEW f \in Frames
    PROVE  /\ f.count \in Nat
           /\ f.kind \in {"flow", "transfer"}
           /\ f.kind = "flow" => f.credit \in Nat /\ f.drain \in BOOLEAN
           /\ f.kind = "transfer" => f.more \in BOOLEAN
           /\ Reach(f) \in {f.count, f.count + 1}
           /\ f.kind = "flow" => Reach(f) = f.count
           /\ f.kind = "transfer" /\ f.more => Reach(f) = f.count
           /\ f.kind = "transfer" /\ ~f.more => Reach(f) = f.count + 1
  BY DEF Frames, Flows, Transfers, Reach

LEMMA FlowTypes ==
    ASSUME NEW f \in Flows
    PROVE  f.count \in Nat /\ f.credit \in Nat /\ f.drain \in BOOLEAN /\ Limit(f) = f.count + f.credit
  BY DEF Flows, Limit

\* Credit after the last frame of a delivery is a 32 bit value.
LEMMA CreditAfterDeliveryType ==
    ASSUME NEW c \in 0 .. (Modulus - 1)
    PROVE  CreditAfterDelivery(c) \in 0 .. (Modulus - 1)
  BY ConstantTypes DEF CreditAfterDelivery

-----------------------------------------------------------------------------
(* Type correctness. *)

LEMMA InitType == Init => TypeOK
  <1> SUFFICES ASSUME Init PROVE TypeOK
    OBVIOUS
  <1>1. toPeer \in Seq(Flows) /\ toReceiver \in Seq(Frames)
    BY EmptySeq DEF Init
  <1>2. 0 \in 0 .. (Modulus - 1) /\ peerCount \in Nat
    BY ConstantTypes DEF Init
  <1> QED BY <1>1, <1>2 DEF Init, TypeOK

LEMMA NextType == TypeOK /\ [Next]_vars => TypeOK'
  <1> SUFFICES ASSUME TypeOK, [Next]_vars PROVE TypeOK'
    OBVIOUS
  <1> USE ConstantTypes
  <1>1. ASSUME NEW n \in Grants, SetReceiverCredit(n) PROVE TypeOK'
    <2>1. n \in 0 .. (Modulus - 1) /\ n \in Nat
      BY ConstantTypes
    <2>2. toPeer' \in Seq(Flows)
      <3>1. Flow(delivery_count, n, FALSE) \in Flows
        BY <2>1, FlowFields DEF TypeOK
      <3>2. Append(toPeer, Flow(delivery_count, n, FALSE)) \in Seq(Flows)
        BY <3>1, AddLast DEF TypeOK
      <3> QED BY <1>1, <3>2 DEF SetReceiverCredit, TypeOK
    <2>3. authorised' \in Nat
      BY <1>1, <2>1 DEF SetReceiverCredit, TypeOK, Later, BaseCount
    <2> QED BY <1>1, <2>1, <2>2, <2>3 DEF SetReceiverCredit, TypeOK, peerVars
  <1>2. CASE LinkDrain
    <2>1. DrainFlow \in Flows
      <3>1. delivery_count \in Nat /\ current_link_credit \in Nat
        BY DEF TypeOK
      <3> QED BY <3>1, FlowFields DEF DrainFlow
    <2>2. toPeer' \in Seq(Flows)
      BY <1>2, <2>1, AddLast DEF LinkDrain, TypeOK
    <2> QED BY <1>2, <2>2 DEF LinkDrain, TypeOK, peerVars, DrainMode
  <1>3. CASE ReceiveAttach
    <2>1. delivery_count' \in Nat /\ current_link_credit' \in 0 .. (Modulus - 1)
      BY <1>3, ConstantTypes DEF ReceiveAttach, TypeOK
    <2>2. Flow(delivery_count', current_link_credit', receiver_drain) \in Flows
      BY <2>1, FlowFields DEF TypeOK
    <2>3. toPeer' \in Seq(Flows)
      BY <1>3, <2>2, AddLast DEF ReceiveAttach, TypeOK
    <2>4. authorised' \in Nat
      BY <1>3, ConstantTypes DEF ReceiveAttach, TypeOK, Later
    <2> QED BY <1>3, <2>1, <2>3, <2>4 DEF ReceiveAttach, TypeOK, peerVars
  <1>4. CASE ReceiveFlow
    <2> DEFINE f == Head(toReceiver)
               returned == SerialDiff(f.count, delivery_count)
    <2>1. f \in Frames /\ toReceiver' \in Seq(Frames)
      BY <1>4, TakeFirst DEF ReceiveFlow, CreditAfterReturn, TypeOK
    <2>2. returned \in 0 .. (Modulus - 1)
      BY <2>1, FrameFields, SerialDiffBounds DEF TypeOK
    <2>3. DrainAnswer(f) => returned <= current_link_credit
      BY DEF DrainAnswer
    <2>4. /\ delivery_count' \in Nat
          /\ current_link_credit' \in 0 .. (Modulus - 1)
          /\ receiver_drain_complete' \in BOOLEAN
      <3> HIDE DEF returned, f
      <3>1. CASE DrainAnswer(f)
        BY <1>4, <2>2, <2>3, <3>1 DEF ReceiveFlow, CreditAfterReturn, TypeOK, f, returned
      <3>2. CASE ~DrainAnswer(f)
        BY <1>4, <3>2 DEF ReceiveFlow, CreditAfterReturn, TypeOK, f
      <3> QED BY <3>1, <3>2
    <2> QED BY <1>4, <2>1, <2>4 DEF ReceiveFlow, CreditAfterReturn, TypeOK, peerVars
  <1>5. CASE ReceiveTransfer
    <2> DEFINE credit == IF RefillDue THEN MaxLinkCredit ELSE current_link_credit
    <2>1. toReceiver' \in Seq(Frames)
      BY <1>5, TakeFirst DEF ReceiveTransfer, TypeOK
    <2>2. credit \in 0 .. (Modulus - 1)
      BY ConstantTypes DEF TypeOK
    <2>3. CreditAfterDelivery(credit) \in 0 .. (Modulus - 1)
      BY <2>2, CreditAfterDeliveryType
    <2>4. Append(toPeer, Flow(delivery_count, credit, receiver_drain)) \in Seq(Flows)
      <3> HIDE DEF credit
      <3>1. Flow(delivery_count, credit, receiver_drain) \in Flows
        BY <2>2, FlowFields DEF TypeOK
      <3> QED BY <3>1, AddLast DEF TypeOK
    <2>5. authorised' \in Nat
      BY <1>5, ConstantTypes DEF ReceiveTransfer, TypeOK, Later
    <2>6. toPeer' \in Seq(Flows)
      BY <1>5, <2>4 DEF ReceiveTransfer, TypeOK
    <2>7. current_link_credit' \in 0 .. (Modulus - 1) /\ delivery_count' \in Nat
      BY <1>5, <2>2, <2>3 DEF ReceiveTransfer, TypeOK
    <2> QED BY <1>5, <2>1, <2>5, <2>6, <2>7 DEF ReceiveTransfer, TypeOK, peerVars
  <1>6. CASE PeerReceiveFlow
    <2>1. Head(toPeer) \in Flows /\ toPeer' \in Seq(Flows)
      BY <1>6, TakeFirst DEF PeerReceiveFlow, TypeOK
    <2>2. peerCredit' \in Nat /\ peerDrain' \in BOOLEAN
      BY <1>6, <2>1, FlowTypes DEF PeerReceiveFlow, TypeOK, Later
    <2> QED BY <1>6, <2>1, <2>2 DEF PeerReceiveFlow, TypeOK, receiverVars
  <1>7. CASE PeerSendLast
    <2>1. toReceiver' \in Seq(Frames)
      BY <1>7, TransferFields, AddLast DEF PeerSendLast, TypeOK
    <2>2. peerCount' \in Nat /\ peerCredit' \in Nat
      BY <1>7 DEF PeerSendLast, TypeOK, Later
    <2>3. peerSending' \in BOOLEAN
      BY <1>7 DEF PeerSendLast
    <2> QED BY <1>7, <2>1, <2>2, <2>3 DEF PeerSendLast, TypeOK, receiverVars
  <1>8. CASE PeerSendFirst
    <2>1. toReceiver' \in Seq(Frames)
      BY <1>8, TransferFields, AddLast DEF PeerSendFirst, TypeOK
    <2> QED BY <1>8, <2>1 DEF PeerSendFirst, TypeOK, receiverVars
  <1>9. CASE PeerReturnCredit
    <2>1. peerCount' \in Nat
      BY <1>9 DEF PeerReturnCredit, TypeOK
    <2>2. toReceiver' \in Seq(Frames)
      BY <1>9, <2>1, FlowFields, AddLast DEF PeerReturnCredit, TypeOK
    <2> QED BY <1>9, <2>1, <2>2 DEF PeerReturnCredit, TypeOK, receiverVars
  <1>10. CASE PeerEcho
    <2>1. toReceiver' \in Seq(Frames)
      BY <1>10, FlowFields, AddLast DEF PeerEcho, TypeOK
    <2> QED BY <1>10, <2>1 DEF PeerEcho, TypeOK, receiverVars, peerVars
  <1>11. CASE UNCHANGED vars
    BY <1>11 DEF vars, receiverVars, peerVars, TypeOK
  <1> QED
    BY <1>1, <1>2, <1>3, <1>4, <1>5, <1>6, <1>7, <1>8, <1>9, <1>10, <1>11 DEF Next

\* Every reachable state is well typed; in particular the link credit is a
\* 32 bit value: neither the decrement nor an accepted drain answer underflows.
THEOREM TypeCorrect == Spec => []TypeOK
  BY InitType, NextType, PTL DEF Spec

-----------------------------------------------------------------------------
(* The inductive invariant for every caller. *)

LEMMA InitInv == Init => Inv
  <1> SUFFICES ASSUME Init PROVE Inv
    OBVIOUS
  <1>1. TypeOK
    BY InitType
  <1>2. peerCount \in Nat /\ Len(toPeer) = 0 /\ Len(toReceiver) = 0
    BY <1>1, EmptySeq DEF Init, TypeOK
  <1>3. Unattached /\ InOrder /\ Authority
    BY <1>2 DEF Init, Unattached, InOrder, Authority, BaseCount
  <1> QED BY <1>1, <1>3 DEF Inv

LEMMA NextUnattached == TypeOK /\ Unattached /\ [Next]_vars => Unattached'
  <1> SUFFICES ASSUME TypeOK, Unattached, [Next]_vars, link_state' # "ATTACHED"
               PROVE  Unattached'
    BY DEF Unattached
  <1>1. ASSUME NEW n \in Grants, SetReceiverCredit(n) PROVE Unattached'
    BY <1>1 DEF SetReceiverCredit, Unattached, TypeOK, peerVars
  <1>2. CASE LinkDrain
    BY <1>2 DEF LinkDrain
  <1>3. CASE ReceiveAttach
    BY <1>3 DEF ReceiveAttach
  <1>4. CASE ReceiveFlow
    BY <1>4 DEF ReceiveFlow, CreditAfterReturn
  <1>5. CASE ReceiveTransfer
    BY <1>5 DEF ReceiveTransfer
  <1>6. CASE PeerReceiveFlow
    BY <1>6 DEF PeerReceiveFlow, Unattached, receiverVars
  <1>7. CASE PeerSendLast
    BY <1>7 DEF PeerSendLast, Unattached, receiverVars
  <1>8. CASE PeerSendFirst
    BY <1>8 DEF PeerSendFirst, Unattached, receiverVars
  <1>9. CASE PeerReturnCredit
    BY <1>9 DEF PeerReturnCredit, Unattached, receiverVars
  <1>10. CASE PeerEcho
    BY <1>10 DEF PeerEcho, receiverVars
  <1>11. CASE UNCHANGED vars
    BY <1>11 DEF vars, receiverVars, peerVars, Unattached
  <1> QED
    BY <1>1, <1>2, <1>3, <1>4, <1>5, <1>6, <1>7, <1>8, <1>9, <1>10, <1>11 DEF Next

\* Taking the first frame keeps the order, as the receiver's count catches up
\* with that frame at most.
LEMMA OrderAfterTake ==
    ASSUME TypeOK, TypeOK', InOrder, link_state = "ATTACHED", link_state' = "ATTACHED",
           toReceiver # <<>>, toReceiver' = Tail(toReceiver),
           delivery_count' <= Reach(Head(toReceiver)),
           peerCount' = peerCount
    PROVE  InOrder'
  <1>1. /\ Len(toReceiver) \in Nat
        /\ Len(toReceiver) > 0
        /\ Head(toReceiver) = toReceiver[1]
        /\ Len(toReceiver') = Len(toReceiver) - 1
        /\ \A i \in 1 .. Len(toReceiver') : toReceiver'[i] = toReceiver[i + 1]
    BY TakeFirst DEF TypeOK
  <1>2. \A i \in 1 .. Len(toReceiver) : toReceiver[i] \in Frames
    BY LenProperties DEF TypeOK
  <1>3. BaseCount' <= peerCount'
    <2>1. Reach(toReceiver[1]) <= peerCount
      BY <1>1 DEF InOrder
    <2>2. Reach(toReceiver[1]) \in Nat
      BY <1>1, <1>2, FrameFields
    <2> QED BY <1>1, <2>1, <2>2 DEF BaseCount, TypeOK
  <1>4. ASSUME NEW i \in 1 .. Len(toReceiver')
        PROVE  delivery_count' <= toReceiver'[i].count /\ Reach(toReceiver'[i]) <= peerCount'
    <2>1. i + 1 \in 1 .. Len(toReceiver) /\ 1 \in 1 .. Len(toReceiver) /\ 1 < i + 1
      BY <1>1, <1>4
    <2>2. /\ Reach(toReceiver[1]) <= toReceiver[i + 1].count
          /\ Reach(toReceiver[i + 1]) <= peerCount
      BY <2>1 DEF InOrder
    <2>3. Reach(toReceiver[1]) \in Nat /\ toReceiver[i + 1].count \in Nat
      BY <1>2, <2>1, FrameFields
    <2> QED BY <1>1, <1>4, <2>2, <2>3 DEF TypeOK
  <1>5. ASSUME NEW i \in 1 .. Len(toReceiver'), NEW j \in 1 .. Len(toReceiver'), i < j
        PROVE  Reach(toReceiver'[i]) <= toReceiver'[j].count
    <2>1. i + 1 \in 1 .. Len(toReceiver) /\ j + 1 \in 1 .. Len(toReceiver) /\ i + 1 < j + 1
      BY <1>1, <1>5
    <2> QED BY <1>1, <1>5, <2>1 DEF InOrder
  <1> QED BY <1>3, <1>4, <1>5 DEF InOrder

\* Sending a frame at the sender's count keeps the order.
LEMMA OrderAfterSend ==
    ASSUME TypeOK, TypeOK', InOrder, NEW f \in Frames,
           toReceiver' = Append(toReceiver, f),
           peerCount <= f.count, Reach(f) <= peerCount', peerCount <= peerCount',
           delivery_count' = delivery_count, link_state' = link_state,
           link_state = "ATTACHED"
    PROVE  InOrder'
  <1>1. /\ Len(toReceiver) \in Nat
        /\ Len(toReceiver') = Len(toReceiver) + 1
        /\ \A i \in 1 .. Len(toReceiver) : toReceiver'[i] = toReceiver[i]
        /\ toReceiver'[Len(toReceiver) + 1] = f
    BY AddLast DEF TypeOK
  <1>2. \A i \in 1 .. Len(toReceiver) : toReceiver[i] \in Frames
    BY LenProperties DEF TypeOK
  <1>3. f.count \in Nat /\ Reach(f) \in Nat
    BY FrameFields
  <1>4. BaseCount' <= peerCount'
    BY DEF BaseCount, InOrder, TypeOK
  <1>5. ASSUME NEW i \in 1 .. Len(toReceiver')
        PROVE  delivery_count' <= toReceiver'[i].count /\ Reach(toReceiver'[i]) <= peerCount'
    <2>1. CASE i \in 1 .. Len(toReceiver)
      <3>1. Reach(toReceiver[i]) \in Nat
        BY <1>2, <2>1, FrameFields
      <3>2. delivery_count <= toReceiver[i].count /\ Reach(toReceiver[i]) <= peerCount
        BY <2>1 DEF InOrder
      <3> QED BY <1>1, <2>1, <3>1, <3>2 DEF TypeOK
    <2>2. CASE i = Len(toReceiver) + 1
      <3>1. delivery_count <= peerCount
        BY DEF InOrder, BaseCount
      <3> QED BY <1>1, <1>3, <2>2, <3>1 DEF TypeOK
    <2> QED BY <1>1, <1>5, <2>1, <2>2
  <1>6. ASSUME NEW i \in 1 .. Len(toReceiver'), NEW j \in 1 .. Len(toReceiver'), i < j
        PROVE  Reach(toReceiver'[i]) <= toReceiver'[j].count
    <2>1. i \in 1 .. Len(toReceiver)
      BY <1>1, <1>6
    <2>2. CASE j \in 1 .. Len(toReceiver)
      BY <1>1, <1>6, <2>1, <2>2 DEF InOrder
    <2>3. CASE j = Len(toReceiver) + 1
      <3>1. Reach(toReceiver[i]) <= peerCount /\ Reach(toReceiver[i]) \in Nat
        BY <1>2, <2>1, FrameFields DEF InOrder
      <3> QED BY <1>1, <1>3, <2>1, <2>3, <3>1 DEF TypeOK
    <2> QED BY <1>1, <1>6, <2>2, <2>3
  <1> QED BY <1>4, <1>5, <1>6 DEF InOrder

\* The count after an accepted drain answer is at most the answer's own.
LEMMA AnswerWithinReach ==
    ASSUME TypeOK, InOrder, ReceiveFlow
    PROVE  /\ delivery_count' <= Reach(Head(toReceiver))
           /\ delivery_count <= delivery_count'
           /\ delivery_count' + current_link_credit' = delivery_count + current_link_credit
  <1> DEFINE f == Head(toReceiver)
             returned == SerialDiff(f.count, delivery_count)
  <1>1. f \in Frames /\ f = toReceiver[1] /\ 1 \in 1 .. Len(toReceiver)
    BY TakeFirst DEF TypeOK, ReceiveFlow
  <1>2. delivery_count <= f.count
    BY <1>1 DEF InOrder
  <1>3. f.kind = "flow"
    BY DEF ReceiveFlow, CreditAfterReturn
  <1>4. f.count \in Nat /\ Reach(f) = f.count
    BY <1>1, <1>3, FrameFields
  <1>5. returned \in Nat /\ returned <= f.count - delivery_count
    <2> HIDE DEF f
    <2>1. returned \in 0 .. (Modulus - 1) /\ returned <= f.count - delivery_count
      BY <1>2, <1>4, SerialDiffBounds DEF TypeOK
    <2> HIDE DEF returned
    <2> QED BY <2>1, ConstantTypes
  <1>6. CASE DrainAnswer(f)
    <2>1. /\ delivery_count' = delivery_count + returned
          /\ current_link_credit' = current_link_credit - returned
      BY <1>6 DEF ReceiveFlow, CreditAfterReturn
    <2> HIDE DEF f, returned
    <2> QED BY <1>4, <1>5, <2>1, ConstantTypes DEF TypeOK, f
  <1>7. CASE ~DrainAnswer(f)
    <2>1. delivery_count' = delivery_count /\ current_link_credit' = current_link_credit
      BY <1>7 DEF ReceiveFlow, CreditAfterReturn
    <2> HIDE DEF f, returned
    <2> QED BY <1>2, <1>4, <2>1, ConstantTypes DEF TypeOK, f
  <1> QED BY <1>6, <1>7

\* A TRANSFER frame counts its delivery at most.
LEMMA TransferWithinReach ==
    ASSUME TypeOK, InOrder, ReceiveTransfer
    PROVE  /\ delivery_count' <= Reach(Head(toReceiver))
           /\ delivery_count <= delivery_count'
           /\ delivery_count <= Head(toReceiver).count
           /\ Reach(Head(toReceiver)) <= peerCount
           /\ Head(toReceiver) \in Frames
           /\ Head(toReceiver) = toReceiver[1]
           /\ 1 \in 1 .. Len(toReceiver)
  <1> DEFINE f == Head(toReceiver)
  <1>1. f \in Frames /\ f = toReceiver[1] /\ 1 \in 1 .. Len(toReceiver)
    BY TakeFirst DEF TypeOK, ReceiveTransfer
  <1>2. delivery_count <= f.count /\ Reach(f) <= peerCount
    BY <1>1 DEF InOrder
  <1>3. f.kind = "transfer"
    BY DEF ReceiveTransfer
  <1>4. f.count \in Nat /\ f.more \in BOOLEAN /\ Reach(f) = IF f.more THEN f.count ELSE f.count + 1
    BY <1>1, <1>3, FrameFields
  <1>5. delivery_count' = IF f.more THEN delivery_count ELSE delivery_count + 1
    BY DEF ReceiveTransfer
  <1> HIDE DEF f
  <1>6. delivery_count' <= Reach(f) /\ delivery_count <= delivery_count'
    BY <1>2, <1>4, <1>5 DEF TypeOK
  <1> QED BY <1>1, <1>2, <1>6 DEF f

LEMMA NextInOrder == TypeOK /\ TypeOK' /\ Unattached /\ InOrder /\ [Next]_vars => InOrder'
  <1> SUFFICES ASSUME TypeOK, TypeOK', Unattached, InOrder, [Next]_vars PROVE InOrder'
    OBVIOUS
  <1>1. ASSUME NEW n \in Grants, SetReceiverCredit(n) PROVE InOrder'
    BY <1>1 DEF SetReceiverCredit, InOrder, BaseCount, peerVars
  <1>2. CASE LinkDrain
    BY <1>2 DEF LinkDrain, InOrder, BaseCount, peerVars
  <1>3. CASE ReceiveAttach
    <2>1. Len(toReceiver') = 0
      BY <1>3, EmptySeq DEF ReceiveAttach, Unattached
    <2> QED BY <1>3, <2>1 DEF ReceiveAttach, InOrder, BaseCount, peerVars, TypeOK
  <1>4. CASE ReceiveFlow
    BY <1>4, AnswerWithinReach, OrderAfterTake DEF ReceiveFlow, CreditAfterReturn, peerVars
  <1>5. CASE ReceiveTransfer
    BY <1>5, TransferWithinReach, OrderAfterTake DEF ReceiveTransfer, peerVars
  <1>6. CASE PeerReceiveFlow
    BY <1>6 DEF PeerReceiveFlow, InOrder, BaseCount, receiverVars
  <1>7. CASE PeerSendLast
    <2>1. link_state = "ATTACHED"
      BY <1>7 DEF PeerSendLast, Unattached
    <2>2. /\ Transfer(peerCount, FALSE) \in Frames
          /\ Transfer(peerCount, FALSE).count = peerCount
          /\ Reach(Transfer(peerCount, FALSE)) = peerCount + 1
      BY TransferFields DEF TypeOK
    <2>3. peerCount' = peerCount + 1 /\ peerCount \in Nat
      BY <1>7 DEF PeerSendLast, TypeOK
    <2>4. /\ peerCount <= Transfer(peerCount, FALSE).count
          /\ Reach(Transfer(peerCount, FALSE)) <= peerCount'
          /\ peerCount <= peerCount'
      <3>1. peerCount <= peerCount + 1 /\ peerCount <= peerCount /\ peerCount + 1 <= peerCount + 1
        BY <2>3
      <3>2. peerCount <= Transfer(peerCount, FALSE).count
        BY <2>2, <3>1, Zenon
      <3> QED BY <2>2, <2>3, <3>1, <3>2, Zenon
    <2>5. /\ toReceiver' = Append(toReceiver, Transfer(peerCount, FALSE))
          /\ delivery_count' = delivery_count
          /\ link_state' = link_state
      BY <1>7 DEF PeerSendLast, receiverVars
    <2> QED BY <2>1, <2>2, <2>4, <2>5, OrderAfterSend
  <1>8. CASE PeerSendFirst
    <2>1. link_state = "ATTACHED"
      BY <1>8 DEF PeerSendFirst, Unattached
    <2>2. /\ Transfer(peerCount, TRUE) \in Frames
          /\ Transfer(peerCount, TRUE).count = peerCount
          /\ Reach(Transfer(peerCount, TRUE)) = peerCount
      BY TransferFields DEF TypeOK
    <2>3. peerCount' = peerCount /\ peerCount \in Nat
      BY <1>8 DEF PeerSendFirst, TypeOK
    <2>4. /\ peerCount <= Transfer(peerCount, TRUE).count
          /\ Reach(Transfer(peerCount, TRUE)) <= peerCount'
          /\ peerCount <= peerCount'
      <3>1. peerCount <= peerCount + 1 /\ peerCount <= peerCount /\ peerCount + 1 <= peerCount + 1
        BY <2>3
      <3>2. peerCount <= Transfer(peerCount, TRUE).count
        BY <2>2, <3>1, Zenon
      <3> QED BY <2>2, <2>3, <3>1, <3>2, Zenon
    <2>5. /\ toReceiver' = Append(toReceiver, Transfer(peerCount, TRUE))
          /\ delivery_count' = delivery_count
          /\ link_state' = link_state
      BY <1>8 DEF PeerSendFirst, receiverVars
    <2> QED BY <2>1, <2>2, <2>4, <2>5, OrderAfterSend
  <1>9. CASE PeerReturnCredit
    <2>1. link_state = "ATTACHED"
      BY <1>9 DEF PeerReturnCredit, Unattached
    <2>2. peerCount' = peerCount + peerCredit /\ peerCount' \in Nat /\ peerCount <= peerCount'
      BY <1>9 DEF PeerReturnCredit, TypeOK
    <2>3. /\ Flow(peerCount', 0, TRUE) \in Frames
          /\ Flow(peerCount', 0, TRUE).count = peerCount'
          /\ Reach(Flow(peerCount', 0, TRUE)) = peerCount'
      <3>1. 0 \in Nat /\ TRUE \in BOOLEAN
        OBVIOUS
      <3> QED BY <2>2, <3>1, FlowFields
    <2>4. peerCount' <= peerCount'
      BY <2>2
    <2> QED BY <1>9, <2>1, <2>2, <2>3, <2>4, OrderAfterSend DEF PeerReturnCredit, receiverVars
  <1>10. CASE PeerEcho
    <2>1. /\ Flow(peerCount, peerCredit, peerDrain) \in Frames
          /\ Flow(peerCount, peerCredit, peerDrain).count = peerCount
          /\ Reach(Flow(peerCount, peerCredit, peerDrain)) = peerCount
      <3>1. peerCount \in Nat /\ peerCredit \in Nat /\ peerDrain \in BOOLEAN
        BY DEF TypeOK
      <3> QED BY <3>1, FlowFields
    <2>2. peerCount' = peerCount /\ peerCount <= peerCount
      BY <1>10 DEF PeerEcho, peerVars, TypeOK
    <2> QED BY <1>10, <2>1, <2>2, OrderAfterSend DEF PeerEcho, receiverVars
  <1>11. CASE UNCHANGED vars
    BY <1>11 DEF vars, receiverVars, peerVars, InOrder, BaseCount
  <1> QED
    BY <1>1, <1>2, <1>3, <1>4, <1>5, <1>6, <1>7, <1>8, <1>9, <1>10, <1>11 DEF Next

\* A bound on the limits in the channel to the sender survives a FLOW within it.
LEMMA BoundAfterSend ==
    ASSUME TypeOK, NEW b \in Nat, NEW f \in Flows,
           \A i \in 1 .. Len(toPeer) : Limit(toPeer[i]) <= b,
           Limit(f) <= b,
           toPeer' = Append(toPeer, f)
    PROVE  \A i \in 1 .. Len(toPeer') : Limit(toPeer'[i]) <= b
  <1>1. /\ Len(toPeer) \in Nat
        /\ Len(toPeer') = Len(toPeer) + 1
        /\ \A i \in 1 .. Len(toPeer) : toPeer'[i] = toPeer[i]
        /\ toPeer'[Len(toPeer) + 1] = f
    BY AddLast DEF TypeOK
  <1> SUFFICES ASSUME NEW i \in 1 .. Len(toPeer') PROVE Limit(toPeer'[i]) <= b
    OBVIOUS
  <1>2. CASE i \in 1 .. Len(toPeer)
    BY <1>1, <1>2
  <1>3. CASE i = Len(toPeer) + 1
    BY <1>1, <1>3
  <1> QED BY <1>1, <1>2, <1>3

\* Raising the bound keeps it one.
LEMMA BoundRaised ==
    ASSUME TypeOK, NEW b \in Nat, b >= authorised, Authority
    PROVE  \A i \in 1 .. Len(toPeer) : Limit(toPeer[i]) <= b
  <1> SUFFICES ASSUME NEW i \in 1 .. Len(toPeer) PROVE Limit(toPeer[i]) <= b
    OBVIOUS
  <1>1. Limit(toPeer[i]) \in Nat
    BY LenProperties, FlowTypes DEF TypeOK
  <1>2. Limit(toPeer[i]) <= authorised
    BY DEF Authority
  <1> QED BY <1>1, <1>2 DEF TypeOK

LEMMA LaterIsUpperBound ==
    ASSUME NEW m \in Int, NEW n \in Int
    PROVE  /\ Later(m, n) \in Int
           /\ Later(m, n) >= m
           /\ Later(m, n) >= n
           /\ Later(m, n) \in {m, n}
  BY DEF Later

LEMMA NextAuthority ==
    TypeOK /\ TypeOK' /\ Unattached /\ InOrder /\ Authority /\ [Next]_vars => Authority'
  <1> SUFFICES ASSUME TypeOK, TypeOK', Unattached, InOrder, Authority, [Next]_vars
               PROVE  Authority'
    OBVIOUS
  <1>1. ASSUME NEW n \in Grants, SetReceiverCredit(n) PROVE Authority'
    <2>1. n \in Nat /\ BaseCount \in Nat /\ BaseCount' = BaseCount
      BY <1>1, ConstantTypes DEF TypeOK, BaseCount, SetReceiverCredit, peerVars
    <2>2. authorised' \in Nat /\ authorised' >= authorised /\ authorised' >= BaseCount + n
      BY <1>1, <2>1, LaterIsUpperBound DEF SetReceiverCredit, TypeOK
    <2>3. \A i \in 1 .. Len(toPeer') : Limit(toPeer'[i]) <= authorised'
      <3>1. CASE link_state = "ATTACHED"
        <4> DEFINE f == Flow(delivery_count, n, FALSE)
        <4>1. f \in Flows /\ Limit(f) = delivery_count + n
          <5>1. delivery_count \in Nat /\ FALSE \in BOOLEAN
            BY DEF TypeOK
          <5> QED BY <2>1, <5>1, FlowFields
        <4>2. Limit(f) <= authorised'
          BY <2>2, <3>1, <4>1 DEF BaseCount
        <4>3. toPeer' = Append(toPeer, f)
          BY <1>1, <3>1 DEF SetReceiverCredit
        <4> HIDE DEF f
        <4> QED BY <2>2, <4>1, <4>2, <4>3, BoundRaised, BoundAfterSend
      <3>2. CASE link_state # "ATTACHED"
        BY <1>1, <2>2, <3>2, BoundRaised DEF SetReceiverCredit
      <3> QED BY <3>1, <3>2
    <2>4. /\ current_link_credit' = n
          /\ peerCount' = peerCount /\ peerCredit' = peerCredit /\ peerSending' = peerSending
      BY <1>1 DEF SetReceiverCredit, peerVars
    <2> QED BY <2>1, <2>2, <2>3, <2>4 DEF Authority, TypeOK
  <1>2. CASE LinkDrain
    <2>1. delivery_count \in Nat /\ current_link_credit \in Nat /\ TRUE \in BOOLEAN
      BY DEF TypeOK
    <2>2. DrainFlow \in Flows /\ Limit(DrainFlow) = delivery_count + current_link_credit
      BY <2>1, FlowFields DEF DrainFlow
    <2>3. Limit(DrainFlow) <= authorised
      BY <1>2, <2>2 DEF LinkDrain, Authority, BaseCount
    <2>4. \A i \in 1 .. Len(toPeer') : Limit(toPeer'[i]) <= authorised
      BY <1>2, <2>2, <2>3, BoundAfterSend DEF LinkDrain, Authority, TypeOK
    <2> QED BY <1>2, <2>4 DEF LinkDrain, Authority, BaseCount, peerVars
  <1>3. CASE ReceiveAttach
    <2> DEFINE f == Flow(delivery_count', current_link_credit', receiver_drain)
    <2>1. delivery_count' \in Nat /\ current_link_credit' \in Nat /\ receiver_drain \in BOOLEAN
      BY DEF TypeOK
    <2>2. f \in Flows /\ Limit(f) = delivery_count' + current_link_credit'
      BY <2>1, FlowFields
    <2>3. /\ BaseCount' = peerCount
          /\ delivery_count' = peerCount
          /\ peerCount' = peerCount /\ peerCredit' = 0 /\ ~peerSending'
      BY <1>3 DEF ReceiveAttach, BaseCount, peerVars, Unattached
    <2>4. /\ authorised' \in Nat
          /\ authorised' >= authorised
          /\ peerCount + current_link_credit' <= authorised'
      BY <1>3, LaterIsUpperBound, ConstantTypes DEF ReceiveAttach, TypeOK, Authority, BaseCount
    <2>5. toPeer' = Append(toPeer, f)
      BY <1>3 DEF ReceiveAttach
    <2>6. Limit(f) <= authorised'
      BY <2>2, <2>3, <2>4
    <2> HIDE DEF f
    <2>7. \A i \in 1 .. Len(toPeer') : Limit(toPeer'[i]) <= authorised'
      BY <2>2, <2>4, <2>5, <2>6, BoundRaised, BoundAfterSend
    <2>8. BaseCount' + current_link_credit' <= authorised'
      BY <2>3, <2>4
    <2>9. peerCount' + peerCredit' <= authorised'
      <3>1. peerCount \in Nat
        BY DEF TypeOK
      <3>2. peerCount <= authorised'
        <4>1. current_link_credit' \in Nat /\ authorised' \in Nat
          BY <2>1, <2>4
        <4>2. peerCount + current_link_credit' <= authorised'
          BY <2>4
        <4> QED BY <3>1, <4>1, <4>2, SummandBound
      <3>3. peerCount' + peerCredit' = peerCount + 0
        BY <2>3
      <3> QED BY <3>1, <3>2, <3>3
    <2> QED BY <2>3, <2>7, <2>8, <2>9 DEF Authority
  <1>4. CASE ReceiveFlow
    <2>1. delivery_count' + current_link_credit' = delivery_count + current_link_credit
      BY <1>4, AnswerWithinReach
    <2> QED BY <1>4, <2>1 DEF ReceiveFlow, CreditAfterReturn, Authority, BaseCount, peerVars
  <1>5. CASE ReceiveTransfer
    <2> DEFINE credit == IF RefillDue THEN MaxLinkCredit ELSE current_link_credit
               f == Flow(delivery_count, credit, receiver_drain)
    <2>1. /\ link_state = "ATTACHED" /\ link_state' = "ATTACHED"
          /\ peerCount' = peerCount /\ peerCredit' = peerCredit /\ peerSending' = peerSending
      BY <1>5 DEF ReceiveTransfer, peerVars
    <2>2. credit \in Nat /\ (RefillDue => ~receiver_credit_manual)
      BY ConstantTypes DEF TypeOK, RefillDue
    <2>3. /\ authorised' \in Nat
          /\ authorised' >= authorised
          /\ ~receiver_credit_manual => authorised' >= delivery_count + MaxLinkCredit
      <3>1. /\ authorised' = IF receiver_credit_manual THEN authorised
                             ELSE Later(authorised, delivery_count + MaxLinkCredit)
            /\ authorised \in Nat /\ authorised' \in Nat
            /\ delivery_count + MaxLinkCredit \in Int
        BY <1>5, ConstantTypes DEF ReceiveTransfer, TypeOK
      <3>2. CASE receiver_credit_manual
        BY <3>1, <3>2
      <3>3. CASE ~receiver_credit_manual
        BY <3>1, <3>3, LaterIsUpperBound
      <3> QED BY <3>2, <3>3
    <2>4. delivery_count + credit <= authorised'
      BY <2>1, <2>2, <2>3 DEF TypeOK, Authority, BaseCount
    <2>5. /\ delivery_count' \in {delivery_count, delivery_count + 1}
          /\ delivery_count' <= peerCount
      <3>1. delivery_count' \in {delivery_count, delivery_count + 1}
        BY <1>5 DEF ReceiveTransfer
      <3>2. /\ delivery_count' <= Reach(Head(toReceiver))
            /\ Reach(Head(toReceiver)) <= peerCount
            /\ Head(toReceiver) \in Frames
        BY <1>5, TransferWithinReach
      <3>3. Reach(Head(toReceiver)) \in Nat
        BY <3>2, FrameFields
      <3> QED BY <3>1, <3>2, <3>3 DEF TypeOK
    <2>6. \/ delivery_count' = delivery_count /\ current_link_credit' = credit
          \/ /\ delivery_count' = delivery_count + 1
             /\ current_link_credit' = IF credit > 0 THEN credit - 1 ELSE 0
      BY <1>5 DEF ReceiveTransfer, CreditAfterDelivery
    <2> HIDE DEF credit, f
    <2>7. delivery_count' + current_link_credit' <= authorised'
      <3>1. peerCount + peerCredit <= authorised /\ peerCount \in Nat /\ peerCredit \in Nat
        BY DEF Authority, TypeOK
      <3>2. delivery_count \in Nat /\ authorised \in Nat
        BY DEF TypeOK
      <3>3. CASE delivery_count' = delivery_count /\ current_link_credit' = credit
        BY <2>4, <3>3
      <3>4. CASE /\ delivery_count' = delivery_count + 1
                 /\ current_link_credit' = IF credit > 0 THEN credit - 1 ELSE 0
        BY <2>2, <2>3, <2>4, <2>5, <3>1, <3>2, <3>4
      <3> QED BY <2>6, <3>3, <3>4
    <2>8. \A i \in 1 .. Len(toPeer') : Limit(toPeer'[i]) <= authorised'
      <3>1. f \in Flows /\ Limit(f) = delivery_count + credit
        <4>1. delivery_count \in Nat /\ receiver_drain \in BOOLEAN
          BY DEF TypeOK
        <4> QED BY <2>2, <4>1, FlowFields DEF f
      <3>2. \/ toPeer' = Append(toPeer, f)
            \/ toPeer' = toPeer
        BY <1>5 DEF ReceiveTransfer, f, credit
      <3>3. Limit(f) <= authorised'
        BY <2>4, <3>1
      <3> QED BY <2>3, <3>1, <3>2, <3>3, BoundRaised, BoundAfterSend
    <2>9. BaseCount' + current_link_credit' <= authorised'
      BY <2>1, <2>7 DEF BaseCount
    <2>10. /\ peerCount' + peerCredit' <= authorised'
           /\ peerSending' => peerCount' < authorised'
      BY <2>1, <2>3 DEF Authority, TypeOK
    <2> QED BY <2>8, <2>9, <2>10 DEF Authority
  <1>6. CASE PeerReceiveFlow
    <2>1. /\ Len(toPeer) \in Nat /\ Len(toPeer) > 0
          /\ Head(toPeer) = toPeer[1] /\ Head(toPeer) \in Flows
          /\ Len(toPeer') = Len(toPeer) - 1
          /\ \A i \in 1 .. Len(toPeer') : toPeer'[i] = toPeer[i + 1]
      BY <1>6, TakeFirst DEF PeerReceiveFlow, TypeOK
    <2>2. Limit(toPeer[1]) <= authorised
      BY <2>1 DEF Authority
    <2>3. peerCount + peerCredit' <= authorised
      <3>1. peerCredit' = Later(0, Limit(toPeer[1]) - peerCount) /\ Limit(toPeer[1]) \in Nat
        BY <1>6, <2>1, FlowTypes DEF PeerReceiveFlow, TypeOK
      <3> QED BY <2>2, <3>1 DEF Later, TypeOK, Authority
    <2>4. \A i \in 1 .. Len(toPeer') : Limit(toPeer'[i]) <= authorised
      <3> SUFFICES ASSUME NEW i \in 1 .. Len(toPeer') PROVE Limit(toPeer'[i]) <= authorised
        OBVIOUS
      <3>1. i + 1 \in 1 .. Len(toPeer)
        BY <2>1
      <3> QED BY <2>1, <3>1 DEF Authority
    <2>5. /\ peerCount' = peerCount /\ peerSending' = peerSending /\ authorised' = authorised
          /\ BaseCount' = BaseCount /\ current_link_credit' = current_link_credit
      BY <1>6 DEF PeerReceiveFlow, receiverVars, BaseCount
    <2> QED BY <2>3, <2>4, <2>5 DEF Authority
  <1>7. CASE PeerSendLast
    <2>1. link_state = "ATTACHED"
      BY <1>7 DEF PeerSendLast, Unattached
    <2>2. peerCount < authorised
      BY <1>7 DEF PeerSendLast, Authority, TypeOK
    <2>3. /\ peerCount' = peerCount + 1 /\ ~peerSending' /\ authorised' = authorised
          /\ peerCredit' = Later(0, peerCredit - 1) /\ toPeer' = toPeer
          /\ BaseCount' = BaseCount /\ current_link_credit' = current_link_credit
      BY <1>7, <2>1 DEF PeerSendLast, receiverVars, BaseCount
    <2>4. peerCount' + peerCredit' <= authorised
      BY <2>2, <2>3 DEF Later, TypeOK, Authority
    <2> QED BY <2>3, <2>4 DEF Authority
  <1>8. CASE PeerSendFirst
    <2>1. peerCount < authorised
      BY <1>8 DEF PeerSendFirst, Authority, TypeOK
    <2> QED BY <1>8, <2>1 DEF PeerSendFirst, Authority, receiverVars, BaseCount
  <1>9. CASE PeerReturnCredit
    <2>1. link_state = "ATTACHED"
      BY <1>9 DEF PeerReturnCredit, Unattached
    <2>2. /\ peerCount' + peerCredit' = peerCount + peerCredit
          /\ ~peerSending' /\ authorised' = authorised /\ toPeer' = toPeer
          /\ BaseCount' = BaseCount /\ current_link_credit' = current_link_credit
      BY <1>9, <2>1 DEF PeerReturnCredit, receiverVars, BaseCount, TypeOK
    <2> QED BY <2>2 DEF Authority
  <1>10. CASE PeerEcho
    BY <1>10 DEF PeerEcho, Authority, receiverVars, peerVars, BaseCount
  <1>11. CASE UNCHANGED vars
    BY <1>11 DEF vars, receiverVars, peerVars, Authority, BaseCount
  <1> QED
    BY <1>1, <1>2, <1>3, <1>4, <1>5, <1>6, <1>7, <1>8, <1>9, <1>10, <1>11 DEF Next

LEMMA NextInv == Inv /\ [Next]_vars => Inv'
  BY NextType, NextUnattached, NextInOrder, NextAuthority DEF Inv

LEMMA InvAlways == Spec => []Inv
  BY InitInv, NextInv, PTL DEF Spec

\* The sender never gets ahead of what the caller has allowed, for every
\* modulus, every set of grants, with and without revocation of credit.
THEOREM BeyondGrantNever == Spec => []NeverBeyondGrant
  <1>1. Inv => NeverBeyondGrant
    BY DEF Inv, Authority, NeverBeyondGrant, TypeOK
  <1> QED BY <1>1, InvAlways, PTL

-----------------------------------------------------------------------------
(* The books of a caller that never replaces credit by less credit. *)

LEMMA Transitive ==
    ASSUME NEW m \in Int, NEW n \in Int, NEW b \in Int, m <= n, n <= b
    PROVE  m <= b
  OBVIOUS

LEMMA LimitTypes ==
    ASSUME TypeOK
    PROVE  /\ BaseCount \in Nat /\ PeerLimit \in Nat /\ OwnLimit \in Nat
           /\ Len(toPeer) \in Nat
           /\ \A i \in 1 .. Len(toPeer) : Limit(toPeer[i]) \in Nat
  <1>1. BaseCount \in Nat /\ PeerLimit \in Nat /\ OwnLimit \in Nat
    BY ConstantTypes DEF TypeOK, BaseCount, PeerLimit, OwnLimit
  <1>2. Len(toPeer) \in Nat /\ \A i \in 1 .. Len(toPeer) : toPeer[i] \in Flows
    BY LenProperties DEF TypeOK
  <1>3. ASSUME NEW i \in 1 .. Len(toPeer) PROVE Limit(toPeer[i]) \in Nat
    BY <1>2, FlowTypes
  <1> QED BY <1>1, <1>2, <1>3

\* The receiver's limit may grow without a word to the sender.
LEMMA LimitsAfterGrowth ==
    ASSUME TypeOK, Limits, toPeer' = toPeer, PeerLimit' = PeerLimit,
           peerSending' => peerCredit' > 0,
           OwnLimit' \in Nat, OwnLimit <= OwnLimit'
    PROVE  Limits'
  <1>1. PeerLimit' <= OwnLimit'
    BY LimitTypes, Transitive DEF Limits
  <1>2. ASSUME NEW i \in 1 .. Len(toPeer)
        PROVE  PeerLimit' <= Limit(toPeer[i]) /\ Limit(toPeer[i]) <= OwnLimit'
    <2>1. PeerLimit <= Limit(toPeer[i]) /\ Limit(toPeer[i]) <= OwnLimit
      BY DEF Limits
    <2> QED BY <2>1, LimitTypes, Transitive
  <1>3. \A i, j \in 1 .. Len(toPeer) : i < j => Limit(toPeer[i]) <= Limit(toPeer[j])
    BY DEF Limits
  <1> QED BY <1>1, <1>2, <1>3 DEF Limits

\* A FLOW that tells the sender the receiver's limit comes last in order.
LEMMA LimitsAfterFlow ==
    ASSUME TypeOK, Limits, NEW f \in Flows, toPeer' = Append(toPeer, f),
           PeerLimit' = PeerLimit, peerSending' => peerCredit' > 0,
           OwnLimit' \in Nat, OwnLimit <= OwnLimit', Limit(f) = OwnLimit'
    PROVE  Limits'
  <1>1. /\ Len(toPeer) \in Nat
        /\ Len(toPeer') = Len(toPeer) + 1
        /\ \A i \in 1 .. Len(toPeer) : toPeer'[i] = toPeer[i]
        /\ toPeer'[Len(toPeer) + 1] = f
    BY AddLast DEF TypeOK
  <1>2. PeerLimit' <= OwnLimit'
    BY LimitTypes, Transitive DEF Limits
  <1>3. ASSUME NEW i \in 1 .. Len(toPeer)
        PROVE  PeerLimit' <= Limit(toPeer[i]) /\ Limit(toPeer[i]) <= OwnLimit'
    <2>1. PeerLimit <= Limit(toPeer[i]) /\ Limit(toPeer[i]) <= OwnLimit
      BY DEF Limits
    <2> QED BY <2>1, LimitTypes, Transitive
  <1>4. ASSUME NEW i \in 1 .. Len(toPeer')
        PROVE  PeerLimit' <= Limit(toPeer'[i]) /\ Limit(toPeer'[i]) <= OwnLimit'
    <2>1. CASE i \in 1 .. Len(toPeer)
      BY <1>1, <1>3, <2>1
    <2>2. CASE i = Len(toPeer) + 1
      <3>1. OwnLimit' <= OwnLimit'
        OBVIOUS
      <3> QED BY <1>1, <1>2, <2>2, <3>1
    <2> QED BY <1>1, <2>1, <2>2
  <1>5. ASSUME NEW i \in 1 .. Len(toPeer'), NEW j \in 1 .. Len(toPeer'), i < j
        PROVE  Limit(toPeer'[i]) <= Limit(toPeer'[j])
    <2>1. i \in 1 .. Len(toPeer)
      BY <1>1, <1>5
    <2>2. CASE j \in 1 .. Len(toPeer)
      BY <1>1, <1>5, <2>1, <2>2 DEF Limits
    <2>3. CASE j = Len(toPeer) + 1
      BY <1>1, <1>3, <2>1, <2>3
    <2> QED BY <1>1, <1>5, <2>2, <2>3
  <1> QED BY <1>2, <1>4, <1>5 DEF Limits

\* Steps of the sender that keep its limit.
LEMMA LimitsAfterPeer ==
    ASSUME TypeOK, Limits, toPeer' = toPeer, PeerLimit' = PeerLimit, OwnLimit' = OwnLimit,
           peerSending' => peerCredit' > 0
    PROVE  Limits'
  BY DEF Limits

\* The receiver's own steps never lower its limit.
LEMMA TransferKeepsLimit ==
    ASSUME Inv, Limits, Modes, ReceiveTransfer
    PROVE  LET credit == IF RefillDue THEN MaxLinkCredit ELSE current_link_credit
           IN  /\ OwnLimit <= OwnLimit'
               /\ OwnLimit' = delivery_count + credit
               /\ ~RefillDue => OwnLimit' = OwnLimit
               /\ ~Head(toReceiver).more => delivery_count < OwnLimit
  <1> DEFINE credit == IF RefillDue THEN MaxLinkCredit ELSE current_link_credit
             f == Head(toReceiver)
  <1> USE DEF Inv
  <1>1. link_state = "ATTACHED" /\ link_state' = "ATTACHED"
    BY DEF ReceiveTransfer
  <1>2. BaseCount = delivery_count /\ BaseCount' = delivery_count'
    BY <1>1 DEF BaseCount
  <1>3. credit \in Nat /\ credit >= current_link_credit
    BY ConstantTypes DEF TypeOK, RefillDue, Modes
  <1>4. /\ f.kind = "transfer"
        /\ f.more => delivery_count' = delivery_count /\ current_link_credit' = credit
        /\ ~f.more => /\ delivery_count' = delivery_count + 1
                      /\ current_link_credit' = IF credit > 0 THEN credit - 1 ELSE 0
    BY DEF ReceiveTransfer, CreditAfterDelivery
  <1>5. f \in Frames /\ delivery_count <= f.count /\ Reach(f) <= peerCount
    BY TransferWithinReach
  <1>6. f.count \in Nat /\ (~f.more => Reach(f) = f.count + 1)
    BY <1>4, <1>5, FrameFields
  <1>7. /\ delivery_count \in Nat /\ current_link_credit \in Nat
        /\ peerCount \in Nat /\ peerCredit \in Nat
    BY ConstantTypes DEF TypeOK
  <1>8. peerCount + peerCredit <= delivery_count + current_link_credit
    BY <1>2 DEF Limits, PeerLimit, OwnLimit
  <1>9. ~RefillDue => credit = current_link_credit
    OBVIOUS
  <1> HIDE DEF credit, f
  <1>10. CASE f.more
    <2>1. OwnLimit' = delivery_count + credit
      BY <1>2, <1>4, <1>10 DEF OwnLimit
    <2> QED BY <1>2, <1>3, <1>7, <1>9, <1>10, <2>1 DEF OwnLimit, credit, f
  <1>11. CASE ~f.more
    <2>1. delivery_count < peerCount
      BY <1>5, <1>6, <1>7, <1>11
    <2>2. delivery_count < delivery_count + current_link_credit /\ current_link_credit > 0
      BY <1>7, <1>8, <2>1
    <2>3. credit > 0
      BY <1>3, <1>7, <2>2
    <2>4. delivery_count' = delivery_count + 1 /\ current_link_credit' = credit - 1
      BY <1>4, <1>11, <2>3
    <2>5. OwnLimit' = delivery_count + credit
      BY <1>2, <1>3, <1>7, <2>4 DEF OwnLimit
    <2> QED BY <1>2, <1>3, <1>7, <1>9, <2>2, <2>5 DEF OwnLimit, credit, f
  <1> QED BY <1>10, <1>11

LEMMA NextLimits ==
    ASSUME ~MayRevoke, Inv, TypeOK', Limits, Modes, [Next]_vars
    PROVE  Limits'
  <1> USE DEF Inv
  <1>1. ASSUME NEW n \in Grants, SetReceiverCredit(n) PROVE Limits'
    <2>1. n \in Nat /\ n >= current_link_credit
      BY <1>1, ConstantTypes DEF SetReceiverCredit
    <2>2. /\ BaseCount' = BaseCount /\ current_link_credit' = n
          /\ peerSending' = peerSending /\ peerCredit' = peerCredit /\ PeerLimit' = PeerLimit
      BY <1>1 DEF SetReceiverCredit, BaseCount, peerVars, PeerLimit
    <2>3. OwnLimit' = BaseCount + n /\ OwnLimit' \in Nat /\ OwnLimit <= OwnLimit'
      <3>1. BaseCount \in Nat /\ current_link_credit \in Nat
        BY LimitTypes, ConstantTypes DEF TypeOK
      <3> QED BY <2>1, <2>2, <3>1 DEF OwnLimit
    <2>4. peerSending' => peerCredit' > 0
      BY <2>2 DEF Limits
    <2>5. CASE link_state = "ATTACHED"
      <3> DEFINE f == Flow(delivery_count, n, FALSE)
      <3>1. f \in Flows /\ Limit(f) = delivery_count + n
        <4>1. delivery_count \in Nat /\ FALSE \in BOOLEAN
          BY DEF TypeOK
        <4> QED BY <2>1, <4>1, FlowFields
      <3>2. toPeer' = Append(toPeer, f)
        BY <1>1, <2>5 DEF SetReceiverCredit
      <3>3. Limit(f) = OwnLimit'
        BY <2>3, <2>5, <3>1 DEF BaseCount
      <3> HIDE DEF f
      <3> QED BY <2>2, <2>3, <2>4, <3>1, <3>2, <3>3, LimitsAfterFlow
    <2>6. CASE link_state # "ATTACHED"
      <3>1. toPeer' = toPeer
        BY <1>1, <2>6 DEF SetReceiverCredit
      <3> QED BY <2>2, <2>3, <2>4, <3>1, LimitsAfterGrowth
    <2> QED BY <2>5, <2>6
  <1>2. CASE LinkDrain
    <2>1. delivery_count \in Nat /\ current_link_credit \in Nat /\ TRUE \in BOOLEAN
      BY ConstantTypes DEF TypeOK
    <2>2. DrainFlow \in Flows /\ Limit(DrainFlow) = delivery_count + current_link_credit
      BY <2>1, FlowFields DEF DrainFlow
    <2>3. /\ OwnLimit' = OwnLimit /\ OwnLimit = delivery_count + current_link_credit
          /\ PeerLimit' = PeerLimit /\ peerSending' = peerSending /\ peerCredit' = peerCredit
          /\ toPeer' = Append(toPeer, DrainFlow)
      BY <1>2 DEF LinkDrain, OwnLimit, PeerLimit, BaseCount, peerVars
    <2>4. OwnLimit' \in Nat /\ OwnLimit <= OwnLimit'
      BY <2>1, <2>3
    <2>5. peerSending' => peerCredit' > 0
      BY <2>3 DEF Limits
    <2> QED BY <2>2, <2>3, <2>4, <2>5, LimitsAfterFlow
  <1>3. CASE ReceiveAttach
    <2> DEFINE f == Flow(delivery_count', current_link_credit', receiver_drain)
    <2>1. /\ delivery_count' \in Nat /\ current_link_credit' \in Nat
          /\ receiver_drain \in BOOLEAN
      BY ConstantTypes DEF TypeOK
    <2>2. f \in Flows /\ Limit(f) = delivery_count' + current_link_credit'
      BY <2>1, FlowFields
    <2>3. /\ BaseCount = peerCount /\ BaseCount' = peerCount /\ delivery_count' = peerCount
          /\ peerSending' = peerSending /\ peerCredit' = peerCredit /\ PeerLimit' = PeerLimit
          /\ toPeer' = Append(toPeer, f)
      BY <1>3 DEF ReceiveAttach, BaseCount, peerVars, PeerLimit
    <2>4. current_link_credit' >= current_link_credit
      BY <1>3, ConstantTypes DEF ReceiveAttach, Unattached, TypeOK
    <2> HIDE DEF f
    <2>5. OwnLimit' = Limit(f) /\ OwnLimit' \in Nat
      <3>1. OwnLimit' = delivery_count' + current_link_credit'
        BY <2>3 DEF OwnLimit
      <3>2. delivery_count' + current_link_credit' \in Nat
        BY <2>1, SumType
      <3> QED BY <2>2, <3>1, <3>2
    <2>6. OwnLimit <= OwnLimit'
      <3>1. peerCount \in Nat /\ current_link_credit \in Nat
        BY ConstantTypes DEF TypeOK
      <3>2. OwnLimit = peerCount + current_link_credit
        BY <2>3 DEF OwnLimit
      <3>3. OwnLimit' = peerCount + current_link_credit'
        BY <2>3 DEF OwnLimit
      <3>4. peerCount + current_link_credit <= peerCount + current_link_credit'
        BY <2>1, <2>4, <3>1, SumGrows
      <3> QED BY <3>2, <3>3, <3>4
    <2>7. peerSending' => peerCredit' > 0
      BY <2>3 DEF Limits
    <2> HIDE DEF f
    <2> QED BY <2>2, <2>3, <2>5, <2>6, <2>7, LimitsAfterFlow
  <1>4. CASE ReceiveFlow
    <2>1. delivery_count' + current_link_credit' = delivery_count + current_link_credit
      BY <1>4, AnswerWithinReach
    <2>2. /\ OwnLimit' = OwnLimit /\ toPeer' = toPeer /\ PeerLimit' = PeerLimit
          /\ peerSending' = peerSending /\ peerCredit' = peerCredit
      BY <1>4, <2>1 DEF ReceiveFlow, CreditAfterReturn, OwnLimit, PeerLimit, BaseCount, peerVars
    <2>3. peerSending' => peerCredit' > 0
      BY <2>2 DEF Limits
    <2> QED BY <2>2, <2>3, LimitsAfterPeer
  <1>5. CASE ReceiveTransfer
    <2> DEFINE credit == IF RefillDue THEN MaxLinkCredit ELSE current_link_credit
               f == Flow(delivery_count, credit, receiver_drain)
    <2>1. OwnLimit <= OwnLimit' /\ OwnLimit' = delivery_count + credit
      BY <1>5, TransferKeepsLimit
    <2>2. /\ PeerLimit' = PeerLimit /\ peerSending' = peerSending /\ peerCredit' = peerCredit
          /\ toPeer' = IF RefillDue THEN Append(toPeer, f) ELSE toPeer
      BY <1>5 DEF ReceiveTransfer, PeerLimit, peerVars
    <2>3. credit \in Nat
      BY ConstantTypes DEF TypeOK
    <2> HIDE DEF credit
    <2>4. f \in Flows /\ Limit(f) = delivery_count + credit
      <3>1. delivery_count \in Nat /\ receiver_drain \in BOOLEAN
        BY DEF TypeOK
      <3> QED BY <2>3, <3>1, FlowFields
    <2> HIDE DEF f
    <2>5. OwnLimit' \in Nat /\ Limit(f) = OwnLimit'
      BY <2>1, <2>3, <2>4 DEF TypeOK
    <2>6. peerSending' => peerCredit' > 0
      BY <2>2 DEF Limits
    <2>7. CASE RefillDue
      BY <2>1, <2>2, <2>4, <2>5, <2>6, <2>7, LimitsAfterFlow
    <2>8. CASE ~RefillDue
      BY <2>1, <2>2, <2>5, <2>6, <2>8, LimitsAfterGrowth
    <2> QED BY <2>7, <2>8
  <1>6. CASE PeerReceiveFlow
    <2>1. /\ Len(toPeer) \in Nat /\ Len(toPeer) > 0
          /\ Head(toPeer) = toPeer[1] /\ Head(toPeer) \in Flows
          /\ Len(toPeer') = Len(toPeer) - 1
          /\ \A i \in 1 .. Len(toPeer') : toPeer'[i] = toPeer[i + 1]
      BY <1>6, TakeFirst DEF PeerReceiveFlow, TypeOK
    <2> DEFINE first == Limit(toPeer[1])
    <2>2. PeerLimit <= first /\ first <= OwnLimit /\ first \in Nat
      BY <2>1, LimitTypes DEF Limits
    <2>3. /\ peerCredit' = Later(0, first - peerCount)
          /\ peerCount' = peerCount /\ peerSending' = peerSending /\ OwnLimit' = OwnLimit
      <3>1. Head(toPeer) = toPeer[1]
        BY <2>1
      <3>2. peerCredit' = Later(0, Limit(Head(toPeer)) - peerCount)
        BY <1>6 DEF PeerReceiveFlow, Limit
      <3>3. peerCount' = peerCount /\ peerSending' = peerSending /\ OwnLimit' = OwnLimit
        BY <1>6 DEF PeerReceiveFlow, receiverVars, OwnLimit, BaseCount
      <3>4. peerCredit' = Later(0, first - peerCount)
        BY <3>1, <3>2, Zenon
      <3> QED BY <3>3, <3>4, Zenon
    <2>4. peerCount \in Nat /\ peerCredit \in Nat
      BY DEF TypeOK
    <2> HIDE DEF first
    <2>5. peerCredit' = first - peerCount /\ PeerLimit' = first
      BY <2>2, <2>3, <2>4 DEF PeerLimit, Later
    <2>6. peerSending' => peerCredit' > 0
      BY <2>2, <2>3, <2>4, <2>5 DEF Limits, PeerLimit
    <2>7. ASSUME NEW i \in 1 .. Len(toPeer')
          PROVE  PeerLimit' <= Limit(toPeer'[i]) /\ Limit(toPeer'[i]) <= OwnLimit'
      <3>1. i + 1 \in 1 .. Len(toPeer) /\ 1 \in 1 .. Len(toPeer) /\ 1 < i + 1
        BY <2>1, <2>7
      <3>2. first <= Limit(toPeer[i + 1]) /\ Limit(toPeer[i + 1]) <= OwnLimit
        BY <3>1 DEF Limits, first
      <3> QED BY <2>1, <2>3, <2>5, <2>7, <3>2
    <2>8. ASSUME NEW i \in 1 .. Len(toPeer'), NEW j \in 1 .. Len(toPeer'), i < j
          PROVE  Limit(toPeer'[i]) <= Limit(toPeer'[j])
      <3>1. i + 1 \in 1 .. Len(toPeer) /\ j + 1 \in 1 .. Len(toPeer) /\ i + 1 < j + 1
        BY <2>1, <2>8
      <3> QED BY <2>1, <2>8, <3>1 DEF Limits
    <2> QED BY <2>2, <2>3, <2>5, <2>6, <2>7, <2>8 DEF Limits
  <1>7. CASE PeerSendLast
    <2>1. link_state = "ATTACHED" /\ peerCredit > 0
      BY <1>7 DEF PeerSendLast, Unattached, Limits
    <2>2. /\ PeerLimit' = PeerLimit /\ OwnLimit' = OwnLimit /\ toPeer' = toPeer
          /\ ~peerSending'
      BY <1>7, <2>1 DEF PeerSendLast, PeerLimit, OwnLimit, BaseCount, receiverVars, Later, TypeOK
    <2> QED BY <2>2, LimitsAfterPeer
  <1>8. CASE PeerSendFirst
    <2>1. /\ PeerLimit' = PeerLimit /\ OwnLimit' = OwnLimit /\ toPeer' = toPeer
          /\ peerSending' => peerCredit' > 0
      BY <1>8 DEF PeerSendFirst, PeerLimit, OwnLimit, BaseCount, receiverVars
    <2> QED BY <2>1, LimitsAfterPeer
  <1>9. CASE PeerReturnCredit
    <2>1. link_state = "ATTACHED"
      BY <1>9 DEF PeerReturnCredit, Unattached
    <2>2. /\ PeerLimit' = PeerLimit /\ OwnLimit' = OwnLimit /\ toPeer' = toPeer
          /\ ~peerSending'
      BY <1>9, <2>1 DEF PeerReturnCredit, PeerLimit, OwnLimit, BaseCount, receiverVars, TypeOK
    <2> QED BY <2>2, LimitsAfterPeer
  <1>10. CASE PeerEcho
    <2>1. /\ PeerLimit' = PeerLimit /\ OwnLimit' = OwnLimit /\ toPeer' = toPeer
          /\ ~peerSending'
      BY <1>10 DEF PeerEcho, PeerLimit, OwnLimit, BaseCount, receiverVars, peerVars
    <2> QED BY <2>1, LimitsAfterPeer
  <1>11. CASE UNCHANGED vars
    BY <1>11 DEF vars, receiverVars, peerVars, Limits, PeerLimit, OwnLimit, BaseCount
  <1> QED
    BY <1>1, <1>2, <1>3, <1>4, <1>5, <1>6, <1>7, <1>8, <1>9, <1>10, <1>11 DEF Next

LEMMA NextModes ==
    ASSUME Inv, Modes, [Next]_vars
    PROVE  Modes'
  <1> USE DEF Inv
  <1>1. ASSUME NEW n \in Grants, SetReceiverCredit(n) PROVE Modes'
    BY <1>1 DEF SetReceiverCredit, Modes
  <1>2. CASE LinkDrain
    BY <1>2 DEF LinkDrain, Modes, DrainMode
  <1>3. CASE ReceiveAttach
    BY <1>3, ConstantTypes DEF ReceiveAttach, Modes, Unattached
  <1>4. CASE ReceiveFlow
    <2> DEFINE f == Head(toReceiver)
    <2>1. CASE DrainAnswer(f)
      <3>1. receiver_drain
        BY <2>1 DEF DrainAnswer
      <3>2. /\ receiver_drain' = receiver_drain
            /\ receiver_credit_manual' = receiver_credit_manual
            /\ receiver_drain_complete' = (current_link_credit' = 0)
        BY <1>4, <2>1 DEF ReceiveFlow, CreditAfterReturn
      <3> QED BY <3>1, <3>2 DEF Modes
    <2>2. CASE ~DrainAnswer(f)
      BY <1>4, <2>2 DEF ReceiveFlow, CreditAfterReturn, Modes
    <2> QED BY <2>1, <2>2
  <1>5. CASE ReceiveTransfer
    <2>1. /\ receiver_drain' = receiver_drain
          /\ receiver_credit_manual' = receiver_credit_manual
          /\ receiver_drain_complete' = receiver_drain_complete
      BY <1>5 DEF ReceiveTransfer
    <2>2. ASSUME receiver_drain_complete PROVE current_link_credit' = 0
      <3>1. receiver_credit_manual /\ current_link_credit = 0 /\ ~RefillDue
        BY <2>2 DEF Modes, RefillDue
      <3> QED BY <1>5, <3>1 DEF ReceiveTransfer, CreditAfterDelivery
    <2>3. ASSUME ~receiver_credit_manual PROVE current_link_credit' <= MaxLinkCredit
      <3> DEFINE credit == IF RefillDue THEN MaxLinkCredit ELSE current_link_credit
      <3>1. credit \in Nat /\ credit <= MaxLinkCredit
        BY <2>3, ConstantTypes DEF Modes, TypeOK
      <3>2. current_link_credit' \in {credit, CreditAfterDelivery(credit)}
        BY <1>5 DEF ReceiveTransfer
      <3> HIDE DEF credit
      <3> QED BY <3>1, <3>2, ConstantTypes DEF CreditAfterDelivery
    <2> QED BY <2>1, <2>2, <2>3 DEF Modes
  <1>6. CASE PeerReceiveFlow
    BY <1>6 DEF PeerReceiveFlow, Modes, receiverVars
  <1>7. CASE PeerSendLast
    BY <1>7 DEF PeerSendLast, Modes, receiverVars
  <1>8. CASE PeerSendFirst
    BY <1>8 DEF PeerSendFirst, Modes, receiverVars
  <1>9. CASE PeerReturnCredit
    BY <1>9 DEF PeerReturnCredit, Modes, receiverVars
  <1>10. CASE PeerEcho
    BY <1>10 DEF PeerEcho, Modes, receiverVars
  <1>11. CASE UNCHANGED vars
    BY <1>11 DEF vars, receiverVars, Modes
  <1> QED
    BY <1>1, <1>2, <1>3, <1>4, <1>5, <1>6, <1>7, <1>8, <1>9, <1>10, <1>11 DEF Next

\* The receiver takes a frame out of the channel.
LEMMA HalfSentAfterTake ==
    ASSUME TypeOK, HalfSent, toReceiver # <<>>, toReceiver' = Tail(toReceiver),
           peerCount' = peerCount, peerSending' = peerSending
    PROVE  HalfSent'
  <1>1. /\ Len(toReceiver) \in Nat
        /\ Len(toReceiver') = Len(toReceiver) - 1
        /\ \A i \in 1 .. Len(toReceiver') : toReceiver'[i] = toReceiver[i + 1]
    BY TakeFirst DEF TypeOK
  <1> SUFFICES ASSUME NEW i \in 1 .. Len(toReceiver'),
                      toReceiver'[i].kind = "transfer", toReceiver'[i].more
               PROVE  toReceiver'[i].count < peerCount' \/ peerSending'
    BY DEF HalfSent
  <1>2. i + 1 \in 1 .. Len(toReceiver) /\ toReceiver'[i] = toReceiver[i + 1]
    BY <1>1
  <1> QED BY <1>2 DEF HalfSent

\* The sender puts a frame into it.
LEMMA HalfSentAfterSend ==
    ASSUME TypeOK, HalfSent, NEW f \in Frames, toReceiver' = Append(toReceiver, f),
           f.kind = "transfer" /\ f.more => peerSending',
           \A n \in Nat : n < peerCount \/ (peerSending /\ n <= peerCount)
                              => n < peerCount' \/ peerSending',
           \A i \in 1 .. Len(toReceiver) : Reach(toReceiver[i]) <= peerCount
    PROVE  HalfSent'
  <1>1. /\ Len(toReceiver) \in Nat
        /\ Len(toReceiver') = Len(toReceiver) + 1
        /\ \A i \in 1 .. Len(toReceiver) : toReceiver'[i] = toReceiver[i]
        /\ toReceiver'[Len(toReceiver) + 1] = f
    BY AddLast DEF TypeOK
  <1> SUFFICES ASSUME NEW i \in 1 .. Len(toReceiver'),
                      toReceiver'[i].kind = "transfer", toReceiver'[i].more
               PROVE  toReceiver'[i].count < peerCount' \/ peerSending'
    BY DEF HalfSent
  <1>2. CASE i \in 1 .. Len(toReceiver)
    <2>1. toReceiver[i] \in Frames /\ toReceiver'[i] = toReceiver[i]
      BY <1>1, <1>2, LenProperties DEF TypeOK
    <2>2. toReceiver[i].count \in Nat /\ Reach(toReceiver[i]) = toReceiver[i].count
      BY <2>1, FrameFields
    <2>3. toReceiver[i].count < peerCount \/ (peerSending /\ toReceiver[i].count <= peerCount)
      BY <1>2, <2>1, <2>2 DEF HalfSent
    <2> QED BY <2>1, <2>2, <2>3
  <1>3. CASE i = Len(toReceiver) + 1
    BY <1>1, <1>3
  <1> QED BY <1>1, <1>2, <1>3

LEMMA NextHalfSent ==
    ASSUME Inv, TypeOK', HalfSent, [Next]_vars
    PROVE  HalfSent'
  <1> USE DEF Inv
  <1>0. \A i \in 1 .. Len(toReceiver) : Reach(toReceiver[i]) <= peerCount
    BY DEF InOrder
  <1>1. ASSUME NEW n \in Grants, SetReceiverCredit(n) PROVE HalfSent'
    BY <1>1 DEF SetReceiverCredit, HalfSent, peerVars
  <1>2. CASE LinkDrain
    BY <1>2 DEF LinkDrain, HalfSent, peerVars
  <1>3. CASE ReceiveAttach
    BY <1>3 DEF ReceiveAttach, HalfSent, peerVars
  <1>4. CASE ReceiveFlow
    BY <1>4, HalfSentAfterTake DEF ReceiveFlow, CreditAfterReturn, peerVars
  <1>5. CASE ReceiveTransfer
    BY <1>5, HalfSentAfterTake DEF ReceiveTransfer, peerVars
  <1>6. CASE PeerReceiveFlow
    BY <1>6 DEF PeerReceiveFlow, HalfSent
  <1>7. CASE PeerSendLast
    <2>1. Transfer(peerCount, FALSE) \in Frames /\ ~Transfer(peerCount, FALSE).more
      BY TransferFields DEF TypeOK
    <2>2. /\ toReceiver' = Append(toReceiver, Transfer(peerCount, FALSE))
          /\ peerCount' = peerCount + 1
      BY <1>7 DEF PeerSendLast
    <2>3. \A n \in Nat : n < peerCount \/ (peerSending /\ n <= peerCount) => n < peerCount'
      BY <2>2 DEF TypeOK
    <2> QED BY <1>0, <2>1, <2>2, <2>3, HalfSentAfterSend
  <1>8. CASE PeerSendFirst
    <2>1. Transfer(peerCount, TRUE) \in Frames
      BY TransferFields DEF TypeOK
    <2> QED BY <1>0, <1>8, <2>1, HalfSentAfterSend DEF PeerSendFirst
  <1>9. CASE PeerReturnCredit
    <2>1. peerCount' = peerCount + peerCredit /\ peerCount' \in Nat /\ ~peerSending
      BY <1>9 DEF PeerReturnCredit, TypeOK
    <2>2. Flow(peerCount', 0, TRUE) \in Frames /\ Flow(peerCount', 0, TRUE).kind = "flow"
      <3>1. 0 \in Nat /\ TRUE \in BOOLEAN
        OBVIOUS
      <3> QED BY <2>1, <3>1, FlowFields
    <2>3. \A n \in Nat : n < peerCount => n < peerCount'
      BY <2>1 DEF TypeOK
    <2> QED BY <1>0, <1>9, <2>1, <2>2, <2>3, HalfSentAfterSend DEF PeerReturnCredit
  <1>10. CASE PeerEcho
    <2>1. /\ Flow(peerCount, peerCredit, peerDrain) \in Frames
          /\ Flow(peerCount, peerCredit, peerDrain).kind = "flow"
      <3>1. peerCount \in Nat /\ peerCredit \in Nat /\ peerDrain \in BOOLEAN
        BY DEF TypeOK
      <3> QED BY <3>1, FlowFields
    <2> QED BY <1>0, <1>10, <2>1, HalfSentAfterSend DEF PeerEcho, peerVars
  <1>11. CASE UNCHANGED vars
    BY <1>11 DEF vars, peerVars, HalfSent
  <1> QED
    BY <1>1, <1>2, <1>3, <1>4, <1>5, <1>6, <1>7, <1>8, <1>9, <1>10, <1>11 DEF Next

LEMMA InitBooks == Init => Books
  <1> SUFFICES ASSUME Init PROVE Books
    OBVIOUS
  <1>1. Inv
    BY InitInv
  <1>2. Len(toPeer) = 0 /\ Len(toReceiver) = 0 /\ peerCount \in Nat
    BY <1>1, EmptySeq DEF Init, Inv, TypeOK
  <1>3. Limits
    BY <1>2 DEF Init, Limits, PeerLimit, OwnLimit, BaseCount
  <1>4. Modes
    BY ConstantTypes DEF Init, Modes
  <1>5. HalfSent
    BY <1>2 DEF HalfSent
  <1> QED BY <1>1, <1>3, <1>4, <1>5 DEF Books

LEMMA NextBooks == ~MayRevoke /\ Books /\ [Next]_vars => Books'
  <1> SUFFICES ASSUME ~MayRevoke, Books, [Next]_vars PROVE Books'
    OBVIOUS
  <1>1. Inv'
    BY NextInv DEF Books
  <1>2. TypeOK'
    BY <1>1 DEF Inv
  <1>3. Limits' /\ Modes' /\ HalfSent'
    BY <1>2, NextLimits, NextModes, NextHalfSent DEF Books
  <1> QED BY <1>1, <1>3 DEF Books

LEMMA BooksAlways == ASSUME ~MayRevoke PROVE Spec => []Books
  <1>1. Books /\ [Next]_vars => Books'
    BY NextBooks
  <1> QED BY <1>1, InitBooks, PTL DEF Spec

\* With a caller that never replaces credit by less, the sender's credit is
\* covered by the receiver's, for every allowance and every interleaving.
THEOREM CreditAlwaysCoversPeer == ASSUME ~MayRevoke PROVE Spec => []CreditCoversPeer
  <1>1. Books => CreditCoversPeer
    BY DEF Books, Inv, InOrder, Limits, PeerLimit, OwnLimit, CreditCoversPeer
  <1> QED BY <1>1, BooksAlways, PTL

\* With such a caller a completed drain leaves nothing under way, for every
\* modulus, allowance, set of grants and number of drains.
THEOREM DrainLeavesNothing == ASSUME ~MayRevoke PROVE Spec => []DrainQuiescent
  <1>1. ASSUME Books PROVE DrainQuiescent
    <2> SUFFICES ASSUME receiver_drain_complete
                 PROVE  /\ peerCredit = 0
                        /\ ~peerSending
                        /\ \A i \in DOMAIN toReceiver : toReceiver[i].kind = "flow"
                        /\ \A i \in DOMAIN toPeer :
                              toPeer[i].count + toPeer[i].credit <= delivery_count
      BY DEF DrainQuiescent
    <2> USE <1>1 DEF Books, Inv
    <2>1. current_link_credit = 0 /\ link_state = "ATTACHED"
      BY DEF Modes, Unattached
    <2>2. peerCount = delivery_count /\ peerCredit = 0 /\ OwnLimit = delivery_count
      BY <2>1 DEF InOrder, Limits, PeerLimit, OwnLimit, BaseCount, TypeOK
    <2>3. ~peerSending
      BY <2>2 DEF Limits
    <2>4. ASSUME NEW i \in DOMAIN toReceiver PROVE toReceiver[i].kind = "flow"
      <3>1. i \in 1 .. Len(toReceiver) /\ toReceiver[i] \in Frames
        BY <2>4, LenProperties DEF TypeOK
      <3>2. /\ delivery_count <= toReceiver[i].count
            /\ Reach(toReceiver[i]) <= peerCount
        BY <3>1 DEF InOrder
      <3>3. CASE toReceiver[i].kind = "transfer" /\ toReceiver[i].more
        <4>1. toReceiver[i].count < peerCount
          BY <2>3, <3>1, <3>3 DEF HalfSent
        <4> QED BY <2>2, <3>1, <3>2, <4>1, FrameFields DEF TypeOK
      <3>4. CASE toReceiver[i].kind = "transfer" /\ ~toReceiver[i].more
        <4>1. Reach(toReceiver[i]) = toReceiver[i].count + 1 /\ toReceiver[i].count \in Nat
          BY <3>1, <3>4, FrameFields
        <4> QED BY <2>2, <3>2, <4>1 DEF TypeOK
      <3> QED BY <3>1, <3>3, <3>4, FrameFields
    <2>5. ASSUME NEW i \in DOMAIN toPeer
          PROVE  toPeer[i].count + toPeer[i].credit <= delivery_count
      <3>1. i \in 1 .. Len(toPeer)
        BY <2>5, LenProperties DEF TypeOK
      <3> QED BY <2>2, <3>1 DEF Limits, Limit
    <2> QED BY <2>2, <2>3, <2>4, <2>5
  <1> QED BY <1>1, BooksAlways, PTL

-----------------------------------------------------------------------------
(* LinkCredit implements CreditAccount. *)

\* A step of the link that leaves the account alone.
LEMMA AccountStutter ==
    ASSUME BaseCount' = BaseCount, OwnLimit' = OwnLimit,
           receiver_credit_manual' = receiver_credit_manual,
           receiver_drain' = receiver_drain,
           receiver_drain_complete' = receiver_drain_complete
    PROVE  UNCHANGED Account!account
  BY DEF Account!account, OwnLimit

\* Every step of the link is a step of the account or leaves it alone.
LEMMA AccountStep ==
    ASSUME ~MayRevoke, Books, Books', [Next]_vars
    PROVE  [Account!Next]_(Account!account)
  <1> USE DEF Books, Inv
  <1>0. /\ BaseCount \in Nat /\ OwnLimit \in Nat /\ BaseCount' \in Nat /\ OwnLimit' \in Nat
        /\ current_link_credit \in Nat /\ current_link_credit' \in Nat
    <2>1. BaseCount \in Nat /\ BaseCount' \in Nat
      BY DEF TypeOK, BaseCount
    <2>2. current_link_credit \in Nat /\ current_link_credit' \in Nat
      BY ConstantTypes DEF TypeOK
    <2> QED BY <2>1, <2>2, SumType DEF OwnLimit
  <1>1. ASSUME NEW n \in Grants, SetReceiverCredit(n) PROVE Account!Next
    <2>1. n \in Nat /\ n >= current_link_credit /\ current_link_credit' = n
      BY <1>1, ConstantTypes DEF SetReceiverCredit
    <2>2. BaseCount' = BaseCount
      BY <1>1 DEF SetReceiverCredit, BaseCount, peerVars
    <2>3. (BaseCount' + current_link_credit') - BaseCount = n
      BY <1>0, <2>1, <2>2
    <2>4. BaseCount + n >= BaseCount + current_link_credit
      BY <1>0, <2>1
    <2>5. Account!Grant(n)
      BY <1>1, <2>1, <2>2, <2>4 DEF SetReceiverCredit, RefusedWhile, DrainPending,
         Account!Grant, Account!DrainPending
    <2> QED BY <2>3, <2>5 DEF Account!Next
  <1>2. CASE LinkDrain
    <2>1. BaseCount' = BaseCount /\ current_link_credit' = current_link_credit
      BY <1>2 DEF LinkDrain, BaseCount, peerVars
    <2>2. Account!Drain
      BY <1>2, <2>1 DEF LinkDrain, DrainMode, Account!Drain
    <2> QED BY <2>2 DEF Account!Next
  <1>3. CASE ReceiveAttach
    <2>1. /\ BaseCount' = BaseCount
          /\ receiver_credit_manual' = receiver_credit_manual
          /\ receiver_drain' = receiver_drain
          /\ receiver_drain_complete' = receiver_drain_complete
      BY <1>3 DEF ReceiveAttach, BaseCount, peerVars
    <2>2. CASE receiver_credit_manual
      <3>1. OwnLimit' = OwnLimit
        BY <1>3, <2>1, <2>2 DEF ReceiveAttach, OwnLimit
      <3> QED BY <2>1, <3>1, AccountStutter
    <2>3. CASE ~receiver_credit_manual
      <3>1. current_link_credit' >= current_link_credit
        BY <1>0, <1>3, <2>3, ConstantTypes DEF ReceiveAttach, Unattached
      <3>2. BaseCount' + current_link_credit' >= BaseCount + current_link_credit
        BY <1>0, <2>1, <3>1, SumGrows
      <3>3. BaseCount' + current_link_credit' \in Nat
        BY <1>0 DEF OwnLimit
      <3>4. Account!Refill
        BY <2>1, <2>3, <3>2, <3>3 DEF Account!Refill
      <3> QED BY <3>4 DEF Account!Next
    <2> QED BY <2>2, <2>3
  <1>4. CASE ReceiveFlow
    <2> DEFINE f == Head(toReceiver)
               returned == SerialDiff(f.count, delivery_count)
    <2>1. link_state = "ATTACHED" /\ BaseCount = delivery_count /\ BaseCount' = delivery_count'
      BY <1>4 DEF ReceiveFlow, CreditAfterReturn, BaseCount
    <2>2. /\ delivery_count' + current_link_credit' = delivery_count + current_link_credit
          /\ delivery_count <= delivery_count'
      BY <1>4, AnswerWithinReach
    <2>3. CASE DrainAnswer(f)
      <3>1. /\ receiver_drain
            /\ receiver_drain' = receiver_drain
            /\ receiver_credit_manual' = receiver_credit_manual
            /\ receiver_drain_complete' = (current_link_credit' = 0)
        BY <1>4, <2>3 DEF ReceiveFlow, CreditAfterReturn, DrainAnswer
      <3>2. OwnLimit' = OwnLimit
        BY <2>1, <2>2 DEF OwnLimit
      <3> DEFINE r == BaseCount' - BaseCount
      <3>3. /\ BaseCount <= BaseCount'
            /\ BaseCount' + current_link_credit' = BaseCount + current_link_credit
        BY <2>1, <2>2
      <3> DEFINE d == BaseCount
                 e == BaseCount'
                 c == current_link_credit
                 k == current_link_credit'
      <3>4. /\ e - d \in Nat /\ e = d + (e - d)
            /\ e - d \in 0 .. ((d + c) - d)
            /\ (k = 0) <=> (e = e + k)
        <4>1. d \in Nat /\ e \in Nat /\ c \in Nat /\ k \in Nat
          BY <1>0
        <4>2. d <= e /\ e + k = d + c
          BY <3>3
        <4> HIDE DEF d, e, c, k
        <4> QED BY <4>1, <4>2, ReturnArithmetic
      <3>5. /\ r \in Nat /\ BaseCount' = BaseCount + r
            /\ r \in 0 .. ((BaseCount + current_link_credit) - BaseCount)
            /\ (current_link_credit' = 0) <=> (BaseCount' = BaseCount' + current_link_credit')
        BY <3>4
      <3> HIDE DEF r
      <3>6. receiver_drain_complete' = (BaseCount' = BaseCount' + current_link_credit')
        BY <3>1, <3>5
      <3>7. Account!Return(r)
        BY <3>1, <3>2, <3>5, <3>6 DEF Account!Return, OwnLimit
      <3> QED BY <3>7 DEF Account!Next, r
    <2>4. CASE ~DrainAnswer(f)
      <3>1. /\ BaseCount' = BaseCount /\ OwnLimit' = OwnLimit
            /\ receiver_credit_manual' = receiver_credit_manual
            /\ receiver_drain' = receiver_drain
            /\ receiver_drain_complete' = receiver_drain_complete
        BY <1>4, <2>4 DEF ReceiveFlow, CreditAfterReturn, BaseCount, OwnLimit, peerVars
      <3> QED BY <3>1, AccountStutter
    <2> QED BY <2>3, <2>4
  <1>5. CASE ReceiveTransfer
    <2> DEFINE f == Head(toReceiver)
    <2>1. link_state = "ATTACHED" /\ BaseCount = delivery_count /\ BaseCount' = delivery_count'
      BY <1>5 DEF ReceiveTransfer, BaseCount
    <2>2. /\ OwnLimit <= OwnLimit'
          /\ ~RefillDue => OwnLimit' = OwnLimit
          /\ ~f.more => delivery_count < OwnLimit
      BY <1>5, TransferKeepsLimit
    <2>3. RefillDue => ~receiver_credit_manual
      BY DEF RefillDue
    <2>4. /\ receiver_credit_manual' = receiver_credit_manual
          /\ receiver_drain' = receiver_drain
          /\ receiver_drain_complete' = receiver_drain_complete
          /\ delivery_count' = IF f.more THEN delivery_count ELSE delivery_count + 1
      BY <1>5 DEF ReceiveTransfer
    <2> HIDE DEF f
    <2>5. CASE ~f.more
      <3>1. Account!Deliver
        <4>1. OwnLimit >= OwnLimit /\ OwnLimit' >= OwnLimit
          BY <1>0, <2>2
        <4>2. IF receiver_credit_manual THEN OwnLimit' = OwnLimit ELSE OwnLimit' >= OwnLimit
          BY <2>2, <2>3, <4>1
        <4> QED BY <1>0, <2>1, <2>2, <2>4, <2>5, <4>2 DEF Account!Deliver, OwnLimit
      <3> QED BY <3>1 DEF Account!Next
    <2>6. CASE f.more /\ RefillDue
      <3>1. BaseCount' = BaseCount /\ OwnLimit' >= OwnLimit /\ ~receiver_credit_manual
        BY <1>0, <2>1, <2>2, <2>3, <2>4, <2>6
      <3>2. Account!Refill
        BY <1>0, <2>4, <3>1 DEF Account!Refill, OwnLimit
      <3> QED BY <3>2 DEF Account!Next
    <2>7. CASE f.more /\ ~RefillDue
      <3>1. BaseCount' = BaseCount /\ OwnLimit' = OwnLimit
        BY <2>1, <2>2, <2>4, <2>7
      <3> QED BY <2>4, <3>1, AccountStutter
    <2> QED BY <2>5, <2>6, <2>7
  <1>6. CASE PeerReceiveFlow
    BY <1>6, AccountStutter DEF PeerReceiveFlow, receiverVars, BaseCount, OwnLimit
  <1>7. CASE PeerSendLast
    <2>1. link_state = "ATTACHED"
      BY <1>7 DEF PeerSendLast, Unattached
    <2> QED BY <1>7, <2>1, AccountStutter DEF PeerSendLast, receiverVars, BaseCount, OwnLimit
  <1>8. CASE PeerSendFirst
    BY <1>8, AccountStutter DEF PeerSendFirst, receiverVars, BaseCount, OwnLimit
  <1>9. CASE PeerReturnCredit
    <2>1. link_state = "ATTACHED"
      BY <1>9 DEF PeerReturnCredit, Unattached
    <2> QED BY <1>9, <2>1, AccountStutter DEF PeerReturnCredit, receiverVars, BaseCount, OwnLimit
  <1>10. CASE PeerEcho
    BY <1>10, AccountStutter DEF PeerEcho, receiverVars, peerVars, BaseCount, OwnLimit
  <1>11. CASE UNCHANGED vars
    BY <1>11, AccountStutter DEF vars, receiverVars, peerVars, BaseCount, OwnLimit
  <1> QED
    BY <1>1, <1>2, <1>3, <1>4, <1>5, <1>6, <1>7, <1>8, <1>9, <1>10, <1>11 DEF Next

\* The link keeps the promise of CreditAccount: no implicit refill, no delivery
\* beyond the limit, no grant while a drain is pending, and a drain that is
\* over exactly when the limit is reached.
THEOREM AccountKept == ASSUME ~MayRevoke PROVE Spec => KeepsAccount
  <1>1. Init => Account!Init
    <2> SUFFICES ASSUME Init PROVE Account!Init
      OBVIOUS
    <2>1. BaseCount \in Nat /\ BaseCount + current_link_credit = BaseCount
      BY ConstantTypes DEF Init, BaseCount
    <2> QED BY <2>1 DEF Init, Account!Init
  <1>2. Books /\ Books' /\ [Next]_vars => [Account!Next]_(Account!account)
    BY AccountStep
  <1> QED BY <1>1, <1>2, BooksAlways, PTL DEF Spec, KeepsAccount, Account!Spec
=============================================================================
