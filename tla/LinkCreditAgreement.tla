------------------------- MODULE LinkCreditAgreement -------------------------
(***************************************************************************)
(* More proofs about LinkCredit, for callers that revoke credit as well as *)
(* for those that do not: the counts in the channel to the receiver follow *)
(* one another without a gap, except where the sender has given credit     *)
(* back, and there the receiver is bound to accept the answer.  Hence the  *)
(* books of both ends agree whenever nothing is under way.                 *)
(***************************************************************************)
EXTENDS LinkCreditProofs

\* The count the first i frames of the channel take the receiver to.
At(i) == IF i = 0 THEN BaseCount ELSE Reach(toReceiver[i])

\* A drain answer that gives back all the credit the receiver accounts for, which
\* has asked for just that.
GivesBack(f) ==
    /\ f.kind = "flow"
    /\ f.drain
    /\ f.credit = 0
    /\ DrainPending
    /\ f.count = OwnLimit

\* Every frame continues at the count of the frame before it, or gives credit back.
Chain ==
    /\ At(Len(toReceiver)) = peerCount
    /\ \A i \in 1 .. Len(toReceiver) :
           toReceiver[i].count = At(i - 1) \/ GivesBack(toReceiver[i])

\* Where the sender is asked to give credit back, or will be, the receiver waits for
\* it and accounts for the same credit.
DrainsUnderWay ==
    /\ peerDrain /\ peerCredit > 0 => DrainPending /\ PeerLimit = OwnLimit
    /\ \A i \in 1 .. Len(toPeer) :
           toPeer[i].drain /\ Limit(toPeer[i]) > peerCount =>
               DrainPending /\ Limit(toPeer[i]) = OwnLimit

\* The limit of the last FLOW is the receiver's, except that late deliveries of
\* revoked credit take the receiver beyond it.
LastWord ==
    link_state = "ATTACHED" =>
        IF toPeer # <<>> THEN OwnLimit = Later(delivery_count, Limit(toPeer[Len(toPeer)]))
        ELSE IF peerCredit > 0 THEN OwnLimit = PeerLimit
        ELSE OwnLimit <= peerCount

\* Automatic mode never runs out.
Allowance ==
    /\ link_state = "ATTACHED"
    /\ ~receiver_credit_manual
    /\ MaxLinkCredit > RECEIVER_MIN_LINK_CREDIT
    => current_link_credit > 0

Agreement == Inv /\ Modes /\ Chain /\ DrainsUnderWay /\ LastWord /\ Allowance

-----------------------------------------------------------------------------
(* Arithmetic. *)

LEMMA LaterCases ==
    ASSUME NEW m \in Int, NEW n \in Int
    PROVE  /\ Later(m, n) \in Int
           /\ m <= n => Later(m, n) = n
           /\ n <= m => Later(m, n) = m
  BY DEF Later

LEMMA LaterSum ==
    ASSUME NEW m \in Nat, NEW n \in Nat
    PROVE  m <= m + n /\ Later(m, m + n) = m + n
  BY LaterCases

\* A count that has not gone beyond the limit it was allowed has not changed it.
LEMMA LaterCatchesUp ==
    ASSUME NEW d \in Nat, NEW e \in Nat, NEW own \in Nat, NEW limit \in Nat,
           d <= e, e <= own, own = Later(d, limit)
    PROVE  own = Later(e, limit)
  BY LaterCases DEF Later

\* A remainder of a number that is small enough is the number.
LEMMA SmallRemainder ==
    ASSUME NEW n \in 0 .. (Modulus - 1)
    PROVE  n % Modulus = n
  BY ConstantTypes, SMT

\* Credit given back leaves the limit alone.
LEMMA GivenBack ==
    ASSUME NEW d \in Nat, NEW c \in Nat, NEW n \in Nat
    PROVE  /\ d + (n - d) = n
           /\ n + (c - (n - d)) = d + c
  OBVIOUS

\* A delivery spends credit, if there is any.
LEMMA Spent ==
    ASSUME NEW p \in Nat, NEW q \in Nat
    PROVE  /\ Later(0, q - 1) \in Nat
           /\ q = 0 => Later(0, q - 1) = 0
           /\ q > 0 => Later(0, q - 1) = q - 1 /\ (p + 1) + Later(0, q - 1) = p + q
  BY DEF Later

\* The books as numbers.
LEMMA LimitNumbers ==
    ASSUME TypeOK
    PROVE  /\ BaseCount \in Nat /\ current_link_credit \in Nat /\ OwnLimit \in Nat
           /\ OwnLimit = BaseCount + current_link_credit /\ BaseCount <= OwnLimit
           /\ peerCount \in Nat /\ peerCredit \in Nat /\ PeerLimit \in Nat
           /\ PeerLimit = peerCount + peerCredit
           /\ link_state = "ATTACHED" => BaseCount = delivery_count
<1>1. current_link_credit \in Nat
  BY ConstantTypes DEF TypeOK
<1>2. BaseCount \in Nat
  BY DEF BaseCount, TypeOK
<1> QED
  BY <1>1, <1>2 DEF OwnLimit, PeerLimit, TypeOK, BaseCount

-----------------------------------------------------------------------------
(* What the receiver makes of a frame. *)

\* The receiver is attached when it takes a frame, and the first frame begins where
\* the receiver is unless it gives credit back.
LEMMA FirstFrame ==
    ASSUME TypeOK, InOrder, Chain, toReceiver # <<>>
    PROVE  /\ 1 \in 1 .. Len(toReceiver)
           /\ Head(toReceiver) = toReceiver[1]
           /\ Head(toReceiver) \in Frames
           /\ Head(toReceiver).count \in Nat
           /\ Reach(Head(toReceiver)) \in Nat
           /\ Head(toReceiver).count = BaseCount \/ GivesBack(Head(toReceiver))
           /\ delivery_count <= Head(toReceiver).count
           /\ Reach(Head(toReceiver)) <= peerCount
<1>1. /\ 1 \in 1 .. Len(toReceiver) /\ Head(toReceiver) = toReceiver[1]
      /\ Head(toReceiver) \in Frames
  BY TakeFirst DEF TypeOK
<1>2. Head(toReceiver).count \in Nat /\ Reach(Head(toReceiver)) \in Nat
  BY <1>1, FrameFields
<1>3. At(1 - 1) = BaseCount
  BY DEF At
<1>4. toReceiver[1].count = At(1 - 1) \/ GivesBack(toReceiver[1])
  BY <1>1 DEF Chain
<1>5. delivery_count <= toReceiver[1].count /\ Reach(toReceiver[1]) <= peerCount
  BY <1>1 DEF InOrder
<1> QED
  BY <1>1, <1>2, <1>3, <1>4, <1>5

\* A FLOW takes the receiver to its count, whether it is a drain answer or not, and
\* leaves the limit alone.
LEMMA FlowTaken ==
    ASSUME TypeOK, TypeOK', InOrder, Chain, ReceiveFlow
    PROVE  /\ BaseCount' = Reach(Head(toReceiver))
           /\ OwnLimit' = OwnLimit
           /\ BaseCount <= BaseCount'
           /\ receiver_drain' = receiver_drain
           /\ receiver_drain_complete' =>
                  receiver_drain_complete \/ BaseCount' = OwnLimit
<1> DEFINE f == Head(toReceiver)
           returned == SerialDiff(f.count, delivery_count)
<1>1. /\ link_state = "ATTACHED" /\ link_state' = link_state /\ toReceiver # <<>>
      /\ f.kind = "flow" /\ receiver_drain' = receiver_drain
  BY DEF ReceiveFlow
<1>2. /\ f \in Frames /\ f.count \in Nat
      /\ f.count = BaseCount \/ GivesBack(f)
      /\ Reach(f) = f.count /\ delivery_count <= f.count
  BY <1>1, FirstFrame, FrameFields
<1>3. /\ BaseCount = delivery_count /\ BaseCount' = delivery_count'
      /\ OwnLimit = delivery_count + current_link_credit
      /\ OwnLimit' = delivery_count' + current_link_credit'
      /\ delivery_count \in Nat /\ current_link_credit \in 0 .. (Modulus - 1)
      /\ current_link_credit \in Nat
  BY <1>1, LimitNumbers DEF BaseCount, OwnLimit, TypeOK
<1>4. DrainAnswer(f) => /\ delivery_count' = delivery_count + returned
                        /\ current_link_credit' = current_link_credit - returned
                        /\ receiver_drain_complete' = (current_link_credit' = 0)
  BY DEF ReceiveFlow, CreditAfterReturn
<1>5. ~DrainAnswer(f) => /\ delivery_count' = delivery_count
                         /\ current_link_credit' = current_link_credit
                         /\ receiver_drain_complete' = receiver_drain_complete
  BY DEF ReceiveFlow
<1>6. returned = f.count - delivery_count /\ (f.count # delivery_count => DrainAnswer(f))
  <2>1. CASE f.count = delivery_count
    <3>1. f.count - delivery_count = 0
      BY <1>3, <2>1
    <3>2. 0 % Modulus = 0
      BY SmallRemainder, ConstantTypes
    <3> QED
      BY <2>1, <3>1, <3>2 DEF SerialDiff
  <2>2. CASE f.count # delivery_count
    <3>1. GivesBack(f)
      BY <1>2, <1>3, <2>2
    <3>2. /\ f.drain /\ f.credit = 0 /\ receiver_drain
          /\ f.count - delivery_count = current_link_credit
      BY <1>2, <1>3, <3>1 DEF GivesBack, DrainPending
    <3>3. returned = current_link_credit
      BY <1>3, <3>2, SmallRemainder DEF SerialDiff
    <3> QED
      BY <1>3, <3>2, <3>3 DEF DrainAnswer
  <2> QED
    BY <2>1, <2>2
<1> HIDE DEF f, returned
<1>7. delivery_count' = f.count /\ OwnLimit' = OwnLimit
  <2>1. CASE DrainAnswer(f)
    <3>1. /\ delivery_count' = delivery_count + (f.count - delivery_count)
          /\ current_link_credit' = current_link_credit - (f.count - delivery_count)
      BY <1>4, <1>6, <2>1
    <3>2. f.count \in Nat
      BY <1>2
    <3> QED
      BY <1>3, <3>1, <3>2, GivenBack
  <2>2. CASE ~DrainAnswer(f)
    BY <1>3, <1>5, <1>6, <2>2
  <2> QED
    BY <2>1, <2>2
<1>8. receiver_drain_complete' => receiver_drain_complete \/ BaseCount' = OwnLimit
  <2>1. CASE DrainAnswer(f)
    <3>1. ASSUME receiver_drain_complete' PROVE BaseCount' = OwnLimit
      <4>1. current_link_credit' = 0
        BY <1>4, <2>1, <3>1
      <4>2. BaseCount' = f.count /\ f.count \in Nat
        BY <1>2, <1>3, <1>7
      <4>3. OwnLimit = BaseCount' + current_link_credit'
        BY <1>3, <1>7
      <4> QED
        BY <4>1, <4>2, <4>3
    <3> QED
      BY <3>1
  <2>2. CASE ~DrainAnswer(f)
    BY <1>5, <2>2
  <2> QED
    BY <2>1, <2>2
<1> QED
  BY <1>1, <1>2, <1>3, <1>7, <1>8 DEF f

\* What a TRANSFER does to the books without and with replenishment.
LEMMA TransferBooks ==
    ASSUME NEW d \in Nat, NEW c \in Nat, NEW max \in Nat, NEW more \in BOOLEAN,
           NEW e \in Nat, e = IF more THEN d ELSE d + 1
    PROVE  /\ LET own == e + (IF more THEN c ELSE CreditAfterDelivery(c))
              IN \/ own = d + c /\ e <= d + c
                 \/ c = 0 /\ own = e
           /\ e + (IF more THEN max ELSE CreditAfterDelivery(max)) = Later(e, d + max)
<1>1. CASE more
  BY <1>1, LaterCases DEF CreditAfterDelivery
<1>2. CASE ~more /\ c = 0
  BY <1>2 DEF CreditAfterDelivery, Later
<1>3. CASE ~more /\ c > 0
  BY <1>3 DEF CreditAfterDelivery, Later
<1> QED
  BY <1>1, <1>2, <1>3

\* A TRANSFER takes the receiver to its count; the limit moves only where a late
\* delivery goes beyond it, or where credit is replenished.
LEMMA TransferTaken ==
    ASSUME TypeOK, TypeOK', InOrder, Chain, ReceiveTransfer
    PROVE  /\ BaseCount' = Reach(Head(toReceiver))
           /\ BaseCount <= BaseCount'
           /\ receiver_drain' = receiver_drain
           /\ receiver_drain_complete' = receiver_drain_complete
           /\ ~RefillDue =>
                  /\ toPeer' = toPeer
                  /\ \/ OwnLimit' = OwnLimit /\ BaseCount' <= OwnLimit
                     \/ OwnLimit = BaseCount /\ OwnLimit' = BaseCount'
           /\ RefillDue =>
                  /\ toPeer' = Append(toPeer, Flow(delivery_count, MaxLinkCredit, receiver_drain))
                  /\ OwnLimit' = Later(BaseCount', delivery_count + MaxLinkCredit)
<1> DEFINE f == Head(toReceiver)
<1>1. /\ link_state = "ATTACHED" /\ link_state' = link_state /\ toReceiver # <<>>
      /\ f.kind = "transfer" /\ receiver_drain' = receiver_drain
      /\ receiver_drain_complete' = receiver_drain_complete
  BY DEF ReceiveTransfer
<1>2. /\ f \in Frames /\ f.count \in Nat /\ f.more \in BOOLEAN
      /\ f.count = BaseCount \/ GivesBack(f)
      /\ Reach(f) = IF f.more THEN f.count ELSE f.count + 1
  BY <1>1, FirstFrame, FrameFields
<1>3. f.count = BaseCount
  BY <1>1, <1>2 DEF GivesBack
<1>4. /\ BaseCount = delivery_count /\ BaseCount' = delivery_count'
      /\ OwnLimit = delivery_count + current_link_credit
      /\ OwnLimit' = delivery_count' + current_link_credit'
      /\ delivery_count \in Nat /\ delivery_count' \in Nat
      /\ current_link_credit \in Nat /\ MaxLinkCredit \in Nat
  BY <1>1, LimitNumbers, ConstantTypes DEF BaseCount, OwnLimit, TypeOK
<1>5. delivery_count' = IF f.more THEN delivery_count ELSE delivery_count + 1
  BY DEF ReceiveTransfer
<1>6. ~RefillDue =>
          /\ toPeer' = toPeer
          /\ current_link_credit' = IF f.more THEN current_link_credit
                                    ELSE CreditAfterDelivery(current_link_credit)
  BY DEF ReceiveTransfer
<1>7. RefillDue =>
          /\ toPeer' = Append(toPeer, Flow(delivery_count, MaxLinkCredit, receiver_drain))
          /\ current_link_credit' = IF f.more THEN MaxLinkCredit
                                    ELSE CreditAfterDelivery(MaxLinkCredit)
  BY DEF ReceiveTransfer
<1> HIDE DEF f
<1>8. BaseCount' = Reach(f) /\ BaseCount <= BaseCount'
  BY <1>2, <1>3, <1>4, <1>5
<1>9. /\ LET own == delivery_count' + (IF f.more THEN current_link_credit
                                      ELSE CreditAfterDelivery(current_link_credit))
         IN \/ own = OwnLimit /\ delivery_count' <= OwnLimit
            \/ current_link_credit = 0 /\ own = delivery_count'
      /\ delivery_count' + (IF f.more THEN MaxLinkCredit ELSE CreditAfterDelivery(MaxLinkCredit))
             = Later(delivery_count', delivery_count + MaxLinkCredit)
  <2>1. PICK more \in BOOLEAN : more = f.more
    BY <1>2
  <2>2. delivery_count' = IF more THEN delivery_count ELSE delivery_count + 1
    BY <1>5, <2>1
  <2>3. /\ LET own == delivery_count' + (IF more THEN current_link_credit
                                         ELSE CreditAfterDelivery(current_link_credit))
           IN \/ own = delivery_count + current_link_credit
                    /\ delivery_count' <= delivery_count + current_link_credit
              \/ current_link_credit = 0 /\ own = delivery_count'
        /\ delivery_count' + (IF more THEN MaxLinkCredit ELSE CreditAfterDelivery(MaxLinkCredit))
               = Later(delivery_count', delivery_count + MaxLinkCredit)
    BY <1>4, <2>2, TransferBooks
  <2> QED
    BY <1>4, <2>1, <2>3
<1>10. ASSUME ~RefillDue
       PROVE  \/ OwnLimit' = OwnLimit /\ BaseCount' <= OwnLimit
              \/ OwnLimit = BaseCount /\ OwnLimit' = BaseCount'
  <2>1. \/ OwnLimit' = OwnLimit /\ delivery_count' <= OwnLimit
        \/ current_link_credit = 0 /\ OwnLimit' = delivery_count'
    BY <1>4, <1>6, <1>9, <1>10
  <2> QED
    BY <1>4, <2>1
<1>11. ASSUME RefillDue
       PROVE  OwnLimit' = Later(BaseCount', delivery_count + MaxLinkCredit)
  BY <1>4, <1>7, <1>9, <1>11
<1> QED
  BY <1>1, <1>6, <1>7, <1>8, <1>10, <1>11 DEF f

\* While the receiver waits for credit, a frame from below its limit neither ends
\* the wait nor moves the limit.
LEMMA WaitGoesOn ==
    ASSUME TypeOK, TypeOK', InOrder, Chain, ReceiveFlow \/ ReceiveTransfer,
           DrainPending, Reach(Head(toReceiver)) < OwnLimit
    PROVE  DrainPending' /\ OwnLimit' = OwnLimit
<1>1. receiver_drain /\ ~receiver_drain_complete
  BY DEF DrainPending
<1>2. Reach(Head(toReceiver)) \in Nat /\ OwnLimit \in Nat
  <2>1. toReceiver # <<>>
    BY DEF ReceiveFlow, ReceiveTransfer
  <2> QED
    BY <2>1, FirstFrame, LimitNumbers
<1>3. CASE ReceiveFlow
  <2>1. BaseCount' # OwnLimit
    BY <1>2, <1>3, FlowTaken
  <2> QED
    BY <1>1, <1>3, <2>1, FlowTaken DEF DrainPending
<1>4. CASE ReceiveTransfer
  <2>1. ~RefillDue
    BY <1>1 DEF RefillDue
  <2>2. /\ BaseCount' = Reach(Head(toReceiver))
        /\ BaseCount <= BaseCount'
        /\ OwnLimit' = OwnLimit \/ OwnLimit = BaseCount
    BY <1>4, <2>1, TransferTaken
  <2>3. OwnLimit # BaseCount
    BY <1>2, <2>2, LimitNumbers
  <2> QED
    BY <1>1, <1>4, <2>2, <2>3, TransferTaken DEF DrainPending
<1> QED
  BY <1>3, <1>4

-----------------------------------------------------------------------------
(* The chain of counts. *)

\* Where the chain ends is where the sender is; a frame sent from there continues it.
LEMMA ChainAfterSend ==
    ASSUME TypeOK, Chain, NEW f \in Frames,
           toReceiver' = Append(toReceiver, f),
           f.count = peerCount \/ GivesBack(f), Reach(f) = peerCount',
           BaseCount' = BaseCount, OwnLimit' = OwnLimit, DrainPending' = DrainPending
    PROVE  Chain'
<1>1. /\ Len(toReceiver) \in Nat
      /\ Len(toReceiver') = Len(toReceiver) + 1
      /\ \A i \in 1 .. Len(toReceiver) : toReceiver'[i] = toReceiver[i]
      /\ toReceiver'[Len(toReceiver) + 1] = f
  BY AddLast DEF TypeOK
<1>2. \A i \in 0 .. Len(toReceiver) : At(i)' = At(i)
  BY <1>1 DEF At
<1>3. At(Len(toReceiver))' = peerCount'
  BY <1>1 DEF At
<1>4. ASSUME NEW i \in 1 .. Len(toReceiver')
      PROVE  toReceiver'[i].count = At(i - 1)' \/ GivesBack(toReceiver[i])'
  <2>1. CASE i \in 1 .. Len(toReceiver)
    <3>1. toReceiver[i].count = At(i - 1) \/ GivesBack(toReceiver[i])
      BY <2>1 DEF Chain
    <3>2. At(i - 1)' = At(i - 1) /\ toReceiver'[i] = toReceiver[i]
      BY <1>1, <1>2, <2>1
    <3> QED
      BY <3>1, <3>2 DEF GivesBack
  <2>2. CASE i = Len(toReceiver) + 1
    <3>1. At(i - 1)' = peerCount /\ toReceiver'[i] = f
      <4>1. i - 1 = Len(toReceiver) /\ i - 1 \in 0 .. Len(toReceiver)
        BY <1>1, <2>2
      <4> QED
        BY <1>1, <1>2, <2>2, <4>1 DEF Chain
    <3> QED
      BY <3>1 DEF GivesBack
  <2> QED
    BY <1>1, <2>1, <2>2
<1> QED
  BY <1>3, <1>4 DEF Chain

\* The chain is kept by what leaves the channel and the counts alone, as long as the
\* receiver goes on waiting for credit.
LEMMA ChainKept ==
    ASSUME Chain, toReceiver' = toReceiver, BaseCount' = BaseCount, peerCount' = peerCount,
           DrainPending => DrainPending' /\ OwnLimit' = OwnLimit
    PROVE  Chain'
<1>1. \A i : At(i)' = At(i)
  BY DEF At
<1>2. \A i \in 1 .. Len(toReceiver) : GivesBack(toReceiver[i]) => GivesBack(toReceiver[i])'
  BY DEF GivesBack
<1> QED
  BY <1>1, <1>2 DEF Chain

\* What is left of the chain when its first frame is taken.
LEMMA ChainAfterTake ==
    ASSUME TypeOK, TypeOK', InOrder, Chain, ReceiveFlow \/ ReceiveTransfer
    PROVE  Chain'
<1>1. /\ toReceiver # <<>> /\ toReceiver' = Tail(toReceiver) /\ peerCount' = peerCount
      /\ link_state' = "ATTACHED"
  BY DEF ReceiveFlow, ReceiveTransfer, peerVars
<1>2. /\ Len(toReceiver) \in Nat
      /\ Len(toReceiver) > 0
      /\ Head(toReceiver) = toReceiver[1]
      /\ Len(toReceiver') = Len(toReceiver) - 1
      /\ \A i \in 1 .. Len(toReceiver') : toReceiver'[i] = toReceiver[i + 1]
  BY <1>1, TakeFirst DEF TypeOK
<1>3. \A i \in 1 .. Len(toReceiver) : toReceiver[i].count \in Nat /\ Reach(toReceiver[i]) \in Nat
                                      /\ toReceiver[i].count <= Reach(toReceiver[i])
  <2>1. \A i \in 1 .. Len(toReceiver) : toReceiver[i] \in Frames
    BY LenProperties DEF TypeOK
  <2> QED
    BY <2>1, FrameFields
<1>4. BaseCount' = Reach(toReceiver[1])
  BY <1>2, FlowTaken, TransferTaken
<1>5. \A i \in 0 .. Len(toReceiver') : At(i)' = At(i + 1)
  <2> SUFFICES ASSUME NEW i \in 0 .. Len(toReceiver') PROVE At(i)' = At(i + 1)
    OBVIOUS
  <2>1. CASE i = 0
    BY <1>4, <2>1 DEF At
  <2>2. CASE i # 0
    <3>1. toReceiver'[i] = toReceiver[i + 1] /\ i + 1 # 0
      BY <1>2, <2>2
    <3> QED
      BY <2>2, <3>1 DEF At
  <2> QED
    BY <2>1, <2>2
<1>6. At(Len(toReceiver))' = peerCount'
  <2>1. /\ Len(toReceiver') \in 0 .. Len(toReceiver')
        /\ Len(toReceiver') + 1 = Len(toReceiver)
    BY <1>2
  <2> QED
    BY <1>1, <1>5, <2>1 DEF Chain
<1>7. ASSUME NEW i \in 1 .. Len(toReceiver')
      PROVE  toReceiver'[i].count = At(i - 1)' \/ GivesBack(toReceiver[i])'
  <2>1. /\ i + 1 \in 1 .. Len(toReceiver) /\ i \in 1 .. Len(toReceiver)
        /\ i - 1 \in 0 .. Len(toReceiver') /\ (i - 1) + 1 = i /\ (i + 1) - 1 = i
        /\ toReceiver'[i] = toReceiver[i + 1]
    BY <1>2
  <2>2. At(i - 1)' = At(i) /\ At(i) = Reach(toReceiver[i])
    BY <1>5, <2>1 DEF At
  <2>3. toReceiver[i + 1].count = At(i) \/ GivesBack(toReceiver[i + 1])
    BY <2>1 DEF Chain
  <2>4. CASE toReceiver[i + 1].count = At(i)
    BY <2>1, <2>2, <2>4
  <2>5. CASE toReceiver[i + 1].count # At(i)
    <3>1. GivesBack(toReceiver[i + 1])
      BY <2>3, <2>5
    <3>2. Reach(toReceiver[1]) <= Reach(toReceiver[i])
      <4>1. 1 \in 1 .. Len(toReceiver)
        BY <1>2
      <4>2. CASE i = 1
        BY <1>3, <4>1, <4>2
      <4>3. CASE 1 < i
        <5>1. Reach(toReceiver[1]) <= toReceiver[i].count
          BY <2>1, <4>1, <4>3 DEF InOrder
        <5> QED
          BY <1>3, <2>1, <4>1, <5>1
      <4> QED
        BY <4>2, <4>3
    <3>3. Reach(toReceiver[i]) <= toReceiver[i + 1].count
      <4>1. i < i + 1
        BY <2>1
      <4> QED
        BY <2>1, <4>1 DEF InOrder
    <3>4. Reach(toReceiver[1]) < toReceiver[i + 1].count
      <4>1. 1 \in 1 .. Len(toReceiver)
        BY <1>2
      <4> QED
        BY <1>3, <2>1, <2>2, <2>5, <3>2, <3>3, <4>1
    <3>5. DrainPending /\ toReceiver[i + 1].count = OwnLimit
      BY <3>1 DEF GivesBack
    <3>6. DrainPending' /\ OwnLimit' = OwnLimit
      BY <1>2, <3>4, <3>5, WaitGoesOn
    <3> QED
      BY <2>1, <3>1, <3>6 DEF GivesBack
  <2> QED
    BY <2>4, <2>5
<1> QED
  BY <1>6, <1>7 DEF Chain

\* Every step keeps the chain.
LEMMA NextChain ==
    ASSUME Agreement, Inv', [Next]_vars
    PROVE  Chain'
<1> USE DEF Agreement, Inv
<1>1. ASSUME NEW n \in Grants, SetReceiverCredit(n) PROVE Chain'
  <2>1. ~DrainPending
    BY <1>1 DEF SetReceiverCredit, RefusedWhile
  <2> QED
    BY <1>1, <2>1, ChainKept DEF SetReceiverCredit, BaseCount, peerVars
<1>2. CASE LinkDrain
  BY <1>2, ChainKept DEF LinkDrain, BaseCount, OwnLimit, DrainPending, peerVars
<1>3. CASE ReceiveAttach
  <2>1. ~DrainPending
    BY <1>3 DEF ReceiveAttach, Unattached, DrainPending
  <2>2. BaseCount' = BaseCount
    BY <1>3 DEF ReceiveAttach, BaseCount
  <2> QED
    BY <1>3, <2>1, <2>2, ChainKept DEF ReceiveAttach, peerVars
<1>4. CASE ReceiveFlow
  BY <1>4, ChainAfterTake
<1>5. CASE ReceiveTransfer
  BY <1>5, ChainAfterTake
<1>6. CASE PeerReceiveFlow
  BY <1>6, ChainKept DEF PeerReceiveFlow, receiverVars, BaseCount, OwnLimit, DrainPending
<1>7. CASE PeerSendLast
  <2>1. BaseCount' = BaseCount /\ OwnLimit' = OwnLimit /\ DrainPending' = DrainPending
    <3>1. link_state = "ATTACHED"
      BY <1>7 DEF PeerSendLast, Unattached
    <3> QED
      BY <1>7, <3>1 DEF PeerSendLast, receiverVars, BaseCount, OwnLimit, DrainPending
  <2>2. /\ Transfer(peerCount, FALSE) \in Frames
        /\ Transfer(peerCount, FALSE).count = peerCount
        /\ Reach(Transfer(peerCount, FALSE)) = peerCount'
    BY <1>7, TransferFields DEF PeerSendLast, TypeOK
  <2> QED
    BY <1>7, <2>1, <2>2, ChainAfterSend DEF PeerSendLast
<1>8. CASE PeerSendFirst
  <2>1. BaseCount' = BaseCount /\ OwnLimit' = OwnLimit /\ DrainPending' = DrainPending
    BY <1>8 DEF PeerSendFirst, receiverVars, BaseCount, OwnLimit, DrainPending
  <2>2. /\ Transfer(peerCount, TRUE) \in Frames
        /\ Transfer(peerCount, TRUE).count = peerCount
        /\ Reach(Transfer(peerCount, TRUE)) = peerCount'
    BY <1>8, TransferFields DEF PeerSendFirst, TypeOK
  <2> QED
    BY <1>8, <2>1, <2>2, ChainAfterSend DEF PeerSendFirst
<1>9. CASE PeerReturnCredit
  <2>1. BaseCount' = BaseCount /\ OwnLimit' = OwnLimit /\ DrainPending' = DrainPending
    <3>1. link_state = "ATTACHED"
      BY <1>9 DEF PeerReturnCredit, Unattached
    <3> QED
      BY <1>9, <3>1 DEF PeerReturnCredit, receiverVars, BaseCount, OwnLimit, DrainPending
  <2> DEFINE f == Flow(peerCount', 0, TRUE)
  <2>2. f \in Frames /\ f.count = peerCount' /\ Reach(f) = peerCount'
        /\ f.kind = "flow" /\ f.drain /\ f.credit = 0
    <3>1. peerCount' \in Nat /\ 0 \in Nat /\ TRUE \in BOOLEAN
      BY DEF TypeOK
    <3> QED
      BY <3>1, FlowFields
  <2>3. toReceiver' = Append(toReceiver, f) /\ peerCount' = peerCount + peerCredit /\ peerDrain
    BY <1>9 DEF PeerReturnCredit
  <2> HIDE DEF f
  <2>4. f.count = peerCount \/ GivesBack(f)
    <3>1. CASE peerCredit > 0
      <4>1. DrainPending /\ PeerLimit = OwnLimit
        BY <2>3, <3>1 DEF DrainsUnderWay
      <4> QED
        BY <2>2, <2>3, <4>1 DEF GivesBack, PeerLimit
    <3>2. CASE ~(peerCredit > 0)
      <4>1. peerCredit = 0
        BY <3>2, LimitNumbers
      <4> QED
        BY <2>2, <2>3, <4>1, LimitNumbers
    <3> QED
      BY <3>1, <3>2
  <2> QED
    BY <2>1, <2>2, <2>3, <2>4, ChainAfterSend
<1>10. CASE PeerEcho
  <2>1. BaseCount' = BaseCount /\ OwnLimit' = OwnLimit /\ DrainPending' = DrainPending
    BY <1>10 DEF PeerEcho, receiverVars, peerVars, BaseCount, OwnLimit, DrainPending
  <2>2. /\ Flow(peerCount, peerCredit, peerDrain) \in Frames
        /\ Flow(peerCount, peerCredit, peerDrain).count = peerCount
        /\ Reach(Flow(peerCount, peerCredit, peerDrain)) = peerCount'
    <3>1. peerCount \in Nat /\ peerCredit \in Nat /\ peerDrain \in BOOLEAN
      BY DEF TypeOK
    <3> QED
      BY <1>10, <3>1, FlowFields DEF PeerEcho, peerVars
  <2> QED
    BY <1>10, <2>1, <2>2, ChainAfterSend DEF PeerEcho
<1>11. CASE UNCHANGED vars
  BY <1>11, ChainKept DEF vars, receiverVars, peerVars, BaseCount, OwnLimit, DrainPending
<1> QED
  BY <1>1, <1>2, <1>3, <1>4, <1>5, <1>6, <1>7, <1>8, <1>9, <1>10, <1>11 DEF Next

-----------------------------------------------------------------------------
(* Drains under way. *)

\* They survive what leaves the FLOWs alone, does not give the sender credit, and
\* lets a receiver that waits for credit go on waiting.
LEMMA DrainsKept ==
    ASSUME TypeOK, TypeOK', DrainsUnderWay, toPeer' = toPeer,
           peerDrain' => peerDrain,
           peerCredit' > 0 => peerCredit > 0 /\ PeerLimit' = PeerLimit,
           peerCount <= peerCount',
           DrainPending /\ OwnLimit > peerCount => DrainPending' /\ OwnLimit' = OwnLimit
    PROVE  DrainsUnderWay'
<1>1. ASSUME peerDrain', peerCredit' > 0
      PROVE  DrainPending' /\ PeerLimit' = OwnLimit'
  <2>1. DrainPending /\ PeerLimit = OwnLimit /\ peerCredit > 0
    BY <1>1 DEF DrainsUnderWay
  <2>2. OwnLimit > peerCount
    BY <2>1, LimitNumbers
  <2> QED
    BY <1>1, <2>1, <2>2
<1>2. ASSUME NEW i \in 1 .. Len(toPeer'), toPeer'[i].drain, Limit(toPeer'[i]) > peerCount'
      PROVE  DrainPending' /\ Limit(toPeer'[i]) = OwnLimit'
  <2>1. toPeer[i] \in Flows /\ Limit(toPeer[i]) \in Nat
    <3>1. toPeer \in Seq(Flows) /\ i \in 1 .. Len(toPeer)
      BY DEF TypeOK
    <3>2. toPeer[i] \in Flows
      BY <3>1, ElementOfSeq
    <3>3. toPeer[i].count \in Nat /\ toPeer[i].credit \in Nat
      BY <3>2, FlowTypes
    <3>4. Limit(toPeer[i]) = toPeer[i].count + toPeer[i].credit
      BY <3>2, FlowTypes
    <3> QED
      BY <3>2, <3>3, <3>4
  <2>2. Limit(toPeer[i]) > peerCount
    BY <1>2, <2>1 DEF TypeOK
  <2>3. DrainPending /\ Limit(toPeer[i]) = OwnLimit
    BY <1>2, <2>2 DEF DrainsUnderWay
  <2> QED
    BY <2>2, <2>3
<1> QED
  BY <1>1, <1>2 DEF DrainsUnderWay

\* A FLOW of the receiver asks for credit only while the receiver waits for it.
LEMMA DrainsAfterFlow ==
    ASSUME TypeOK, DrainsUnderWay, NEW f \in Flows, toPeer' = Append(toPeer, f),
           f.drain => DrainPending' /\ Limit(f) = OwnLimit',
           peerDrain' = peerDrain, peerCredit' = peerCredit, peerCount' = peerCount,
           DrainPending => DrainPending' /\ OwnLimit' = OwnLimit
    PROVE  DrainsUnderWay'
<1>1. /\ Len(toPeer) \in Nat
      /\ Len(toPeer') = Len(toPeer) + 1
      /\ \A i \in 1 .. Len(toPeer) : toPeer'[i] = toPeer[i]
      /\ toPeer'[Len(toPeer) + 1] = f
  BY AddLast DEF TypeOK
<1>2. ASSUME peerDrain', peerCredit' > 0
      PROVE  DrainPending' /\ PeerLimit' = OwnLimit'
  BY <1>2 DEF DrainsUnderWay, PeerLimit
<1>3. ASSUME NEW i \in 1 .. Len(toPeer'), toPeer'[i].drain, Limit(toPeer'[i]) > peerCount'
      PROVE  DrainPending' /\ Limit(toPeer'[i]) = OwnLimit'
  <2>1. CASE i \in 1 .. Len(toPeer)
    BY <1>1, <1>3, <2>1 DEF DrainsUnderWay
  <2>2. CASE i = Len(toPeer) + 1
    BY <1>1, <1>3, <2>2
  <2> QED
    BY <1>1, <2>1, <2>2
<1> QED
  BY <1>2, <1>3 DEF DrainsUnderWay

\* The sender takes a FLOW: its request becomes the sender's own.
LEMMA DrainsAfterReceipt ==
    ASSUME TypeOK, TypeOK', DrainsUnderWay, PeerReceiveFlow
    PROVE  DrainsUnderWay'
<1> DEFINE f == Head(toPeer)
<1>1. /\ Len(toPeer) \in Nat /\ 1 \in 1 .. Len(toPeer)
      /\ f = toPeer[1] /\ f \in Flows
      /\ Len(toPeer') = Len(toPeer) - 1
      /\ \A i \in 1 .. Len(toPeer') : toPeer'[i] = toPeer[i + 1]
  BY TakeFirst DEF PeerReceiveFlow, TypeOK
<1>2. /\ peerCredit' = Later(0, Limit(f) - peerCount) /\ peerDrain' = f.drain
      /\ peerCount' = peerCount
      /\ DrainPending' = DrainPending /\ OwnLimit' = OwnLimit
  BY DEF PeerReceiveFlow, Limit, receiverVars, DrainPending, OwnLimit, BaseCount
<1> HIDE DEF f
<1>3. Limit(f) \in Nat /\ peerCount \in Nat
  <2>1. f.count \in Nat /\ f.credit \in Nat
    BY <1>1, FlowTypes
  <2>2. Limit(f) = f.count + f.credit
    BY <1>1, FlowTypes
  <2> QED
    BY <2>1, <2>2, LimitNumbers
<1>4. ASSUME peerDrain', peerCredit' > 0
      PROVE  DrainPending' /\ PeerLimit' = OwnLimit'
  <2>1. Limit(f) > peerCount /\ peerCredit' = Limit(f) - peerCount
    BY <1>2, <1>3, <1>4 DEF Later
  <2>2. DrainPending /\ Limit(f) = OwnLimit
    BY <1>1, <1>2, <1>4, <2>1 DEF DrainsUnderWay
  <2>3. PeerLimit' = Limit(f)
    BY <1>2, <1>3, <2>1 DEF PeerLimit
  <2> QED
    BY <1>2, <2>2, <2>3
<1>5. ASSUME NEW i \in 1 .. Len(toPeer'), toPeer'[i].drain, Limit(toPeer'[i]) > peerCount'
      PROVE  DrainPending' /\ Limit(toPeer'[i]) = OwnLimit'
  <2>1. i + 1 \in 1 .. Len(toPeer) /\ toPeer'[i] = toPeer[i + 1]
    BY <1>1
  <2> QED
    BY <1>2, <1>5, <2>1 DEF DrainsUnderWay
<1> QED
  BY <1>4, <1>5 DEF DrainsUnderWay

\* Every step keeps them.
LEMMA NextDrains ==
    ASSUME Agreement, Inv', [Next]_vars
    PROVE  DrainsUnderWay'
<1> USE DEF Agreement, Inv
<1>1. ASSUME NEW n \in Grants, SetReceiverCredit(n) PROVE DrainsUnderWay'
  <2>1. ~DrainPending /\ n \in Nat /\ delivery_count \in Nat
    BY <1>1, ConstantTypes DEF SetReceiverCredit, RefusedWhile, TypeOK
  <2>2. CASE link_state = "ATTACHED"
    <3>1. Flow(delivery_count, n, FALSE) \in Flows /\ ~Flow(delivery_count, n, FALSE).drain
      BY <2>1, FlowFields
    <3> QED
      BY <1>1, <2>1, <2>2, <3>1, DrainsAfterFlow DEF SetReceiverCredit, peerVars
  <2>3. CASE link_state # "ATTACHED"
    <3>1. toPeer' = toPeer /\ UNCHANGED peerVars
      BY <1>1, <2>3 DEF SetReceiverCredit
    <3> QED
      BY <2>1, <3>1, DrainsKept, LimitNumbers DEF peerVars, PeerLimit
  <2> QED
    BY <2>2, <2>3
<1>2. CASE LinkDrain
  <2>1. delivery_count \in Nat /\ current_link_credit \in Nat
    BY LimitNumbers DEF TypeOK
  <2>2. DrainFlow \in Flows /\ Limit(DrainFlow) = delivery_count + current_link_credit
    BY <2>1, FlowFields DEF DrainFlow
  <2>3. DrainPending' /\ OwnLimit' = OwnLimit
        /\ OwnLimit' = delivery_count + current_link_credit
    BY <1>2 DEF LinkDrain, DrainPending, OwnLimit, BaseCount
  <2> QED
    BY <1>2, <2>2, <2>3, DrainsAfterFlow DEF LinkDrain, peerVars
<1>3. CASE ReceiveAttach
  <2>1. ~DrainPending /\ ~receiver_drain
    BY <1>3 DEF ReceiveAttach, Unattached, DrainPending
  <2> DEFINE f == Flow(delivery_count', current_link_credit', receiver_drain)
  <2>2. f \in Flows /\ ~f.drain
    <3>1. delivery_count' \in Nat /\ current_link_credit' \in Nat /\ receiver_drain \in BOOLEAN
      BY LimitNumbers, ConstantTypes DEF TypeOK
    <3> QED
      BY <2>1, <3>1, FlowFields
  <2>3. toPeer' = Append(toPeer, f) /\ UNCHANGED peerVars
    BY <1>3 DEF ReceiveAttach
  <2> HIDE DEF f
  <2> QED
    BY <2>1, <2>2, <2>3, DrainsAfterFlow DEF peerVars
<1>4. CASE ReceiveFlow
  <2>1. toReceiver # <<>> /\ toPeer' = toPeer /\ UNCHANGED peerVars
    BY <1>4 DEF ReceiveFlow
  <2>2. DrainPending /\ OwnLimit > peerCount => DrainPending' /\ OwnLimit' = OwnLimit
    <3>1. Reach(Head(toReceiver)) <= peerCount /\ Reach(Head(toReceiver)) \in Nat
      BY <2>1, FirstFrame
    <3>2. OwnLimit > peerCount => Reach(Head(toReceiver)) < OwnLimit
      BY <3>1, LimitNumbers
    <3> QED
      BY <1>4, <3>2, WaitGoesOn
  <2> QED
    BY <2>1, <2>2, DrainsKept, LimitNumbers DEF peerVars, PeerLimit
<1>5. CASE ReceiveTransfer
  <2>1. toReceiver # <<>> /\ UNCHANGED peerVars
    BY <1>5 DEF ReceiveTransfer
  <2>2. CASE RefillDue
    <3>1. ~receiver_drain /\ ~DrainPending
      BY <2>2 DEF RefillDue, DrainPending
    <3> DEFINE f == Flow(delivery_count, MaxLinkCredit, receiver_drain)
    <3>2. f \in Flows /\ ~f.drain
      <4>1. delivery_count \in Nat /\ MaxLinkCredit \in Nat /\ receiver_drain \in BOOLEAN
        BY ConstantTypes DEF TypeOK
      <4> QED
        BY <3>1, <4>1, FlowFields
    <3>3. toPeer' = Append(toPeer, f)
      BY <1>5, <2>2, TransferTaken
    <3> HIDE DEF f
    <3> QED
      BY <2>1, <3>1, <3>2, <3>3, DrainsAfterFlow DEF peerVars
  <2>3. CASE ~RefillDue
    <3>1. DrainPending /\ OwnLimit > peerCount => DrainPending' /\ OwnLimit' = OwnLimit
      <4>1. Reach(Head(toReceiver)) <= peerCount /\ Reach(Head(toReceiver)) \in Nat
        BY <2>1, FirstFrame
      <4>2. OwnLimit > peerCount => Reach(Head(toReceiver)) < OwnLimit
        BY <4>1, LimitNumbers
      <4> QED
        BY <1>5, <4>2, WaitGoesOn
    <3>2. toPeer' = toPeer
      BY <1>5, <2>3, TransferTaken
    <3> QED
      BY <2>1, <3>1, <3>2, DrainsKept, LimitNumbers DEF peerVars, PeerLimit
  <2> QED
    BY <2>2, <2>3
<1>6. CASE PeerReceiveFlow
  BY <1>6, DrainsAfterReceipt
<1>7. CASE PeerSendLast
  <2>1. /\ toPeer' = toPeer /\ peerDrain' = peerDrain
        /\ peerCount' = peerCount + 1 /\ peerCredit' = Later(0, peerCredit - 1)
        /\ DrainPending' = DrainPending
    BY <1>7 DEF PeerSendLast, receiverVars, DrainPending
  <2>2. OwnLimit' = OwnLimit
    <3>1. link_state = "ATTACHED"
      BY <1>7 DEF PeerSendLast, Unattached
    <3> QED
      BY <1>7, <3>1 DEF PeerSendLast, receiverVars, BaseCount, OwnLimit
  <2>3. peerCredit' > 0 => peerCredit > 0 /\ PeerLimit' = PeerLimit
    BY <2>1, LimitNumbers, Spent DEF PeerLimit
  <2>4. peerCount <= peerCount'
    BY <2>1, LimitNumbers
  <2> QED
    BY <2>1, <2>2, <2>3, <2>4, DrainsKept
<1>8. CASE PeerSendFirst
  BY <1>8, DrainsKept, LimitNumbers
     DEF PeerSendFirst, receiverVars, BaseCount, OwnLimit, DrainPending, PeerLimit
<1>9. CASE PeerReturnCredit
  <2>1. /\ toPeer' = toPeer /\ ~peerDrain' /\ ~(peerCredit' > 0)
        /\ peerCount' = peerCount + peerCredit /\ DrainPending' = DrainPending
    BY <1>9 DEF PeerReturnCredit, receiverVars, DrainPending
  <2>2. OwnLimit' = OwnLimit
    <3>1. link_state = "ATTACHED"
      BY <1>9 DEF PeerReturnCredit, Unattached
    <3> QED
      BY <1>9, <3>1 DEF PeerReturnCredit, receiverVars, BaseCount, OwnLimit
  <2>3. peerCount <= peerCount'
    BY <2>1, LimitNumbers
  <2> QED
    BY <2>1, <2>2, <2>3, DrainsKept
<1>10. CASE PeerEcho
  BY <1>10, DrainsKept, LimitNumbers
     DEF PeerEcho, receiverVars, peerVars, BaseCount, OwnLimit, DrainPending, PeerLimit
<1>11. CASE UNCHANGED vars
  BY <1>11, DrainsKept, LimitNumbers
     DEF vars, receiverVars, peerVars, BaseCount, OwnLimit, DrainPending, PeerLimit
<1> QED
  BY <1>1, <1>2, <1>3, <1>4, <1>5, <1>6, <1>7, <1>8, <1>9, <1>10, <1>11 DEF Next

-----------------------------------------------------------------------------
(* The last FLOW. *)

\* The limit of the last FLOW of the channel.
LEMMA LastFlow ==
    ASSUME TypeOK, toPeer # <<>>
    PROVE  /\ Len(toPeer) \in 1 .. Len(toPeer)
           /\ toPeer[Len(toPeer)] \in Flows
           /\ Limit(toPeer[Len(toPeer)]) \in Nat
<1>1. Len(toPeer) \in 1 .. Len(toPeer)
  BY TakeFirst DEF TypeOK
<1>2. toPeer[Len(toPeer)] \in Flows
  BY <1>1, LenProperties DEF TypeOK
<1> QED
  BY <1>1, <1>2, FlowTypes

\* A FLOW that has just been sent is the last one.
LEMMA SentLast ==
    ASSUME TypeOK, NEW f \in Flows, toPeer' = Append(toPeer, f),
           OwnLimit' = Later(delivery_count', Limit(f))
    PROVE  LastWord'
<1>1. /\ Len(toPeer) \in Nat
      /\ Len(toPeer') = Len(toPeer) + 1
      /\ toPeer'[Len(toPeer) + 1] = f
  BY AddLast DEF TypeOK
<1>2. toPeer' # <<>>
  BY <1>1, EmptySeq
<1> QED
  BY <1>1, <1>2 DEF LastWord

\* Neither catching up nor going beyond the limit contradicts the last FLOW.
LEMMA LastWordCaughtUp ==
    ASSUME TypeOK, TypeOK', LastWord, link_state = "ATTACHED", link_state' = link_state,
           toPeer' = toPeer, peerCount' = peerCount, peerCredit' = peerCredit,
           BaseCount <= BaseCount', BaseCount' <= peerCount,
           \/ OwnLimit' = OwnLimit /\ BaseCount' <= OwnLimit
           \/ OwnLimit = BaseCount /\ OwnLimit' = BaseCount'
    PROVE  LastWord'
<1>1. /\ BaseCount = delivery_count /\ BaseCount' = delivery_count'
      /\ delivery_count \in Nat /\ delivery_count' \in Nat /\ OwnLimit \in Nat
      /\ peerCount \in Nat /\ peerCredit \in Nat
  BY LimitNumbers DEF BaseCount, TypeOK
<1>2. CASE toPeer # <<>>
  <2>1. PICK limit \in Nat : limit = Limit(toPeer[Len(toPeer)])
    BY <1>2, LastFlow
  <2>2. OwnLimit = Later(delivery_count, limit)
    BY <1>2, <2>1 DEF LastWord
  <2>3. OwnLimit' = Later(delivery_count', limit)
    <3>1. CASE OwnLimit' = OwnLimit /\ BaseCount' <= OwnLimit
      BY <1>1, <2>2, <3>1, LaterCatchesUp
    <3>2. CASE OwnLimit = BaseCount /\ OwnLimit' = BaseCount'
      BY <1>1, <2>2, <3>2 DEF Later
    <3> QED
      BY <3>1, <3>2
  <2> QED
    BY <1>2, <2>1, <2>3 DEF LastWord
<1>3. CASE toPeer = <<>> /\ peerCredit > 0
  <2>1. OwnLimit = PeerLimit
    BY <1>3 DEF LastWord
  <2>2. OwnLimit' = OwnLimit
    BY <1>1, <1>3, <2>1 DEF PeerLimit
  <2> QED
    BY <1>3, <2>1, <2>2 DEF LastWord, PeerLimit
<1>4. CASE toPeer = <<>> /\ ~(peerCredit > 0)
  <2>1. OwnLimit <= peerCount
    BY <1>4 DEF LastWord
  <2> QED
    BY <1>1, <1>4, <2>1 DEF LastWord
<1> QED
  BY <1>2, <1>3, <1>4

\* The sender takes a FLOW; when it was the last one, the sender's limit is the
\* receiver's, unless the sender is already beyond it.
LEMMA LastWordReceived ==
    ASSUME TypeOK, TypeOK', InOrder, LastWord, PeerReceiveFlow
    PROVE  LastWord'
<1> SUFFICES ASSUME link_state' = "ATTACHED"
             PROVE  LastWord'
  BY DEF LastWord
<1>1. /\ Len(toPeer) \in Nat /\ Len(toPeer) > 0 /\ toPeer # <<>>
      /\ Head(toPeer) = toPeer[1]
      /\ Len(toPeer') = Len(toPeer) - 1
      /\ \A i \in 1 .. Len(toPeer') : toPeer'[i] = toPeer[i + 1]
  BY TakeFirst DEF PeerReceiveFlow, TypeOK
<1>2. /\ peerCredit' = Later(0, Limit(Head(toPeer)) - peerCount) /\ peerCount' = peerCount
      /\ OwnLimit' = OwnLimit /\ delivery_count' = delivery_count /\ link_state = "ATTACHED"
  BY DEF PeerReceiveFlow, Limit, receiverVars, OwnLimit, BaseCount
<1>3. PICK limit \in Nat : limit = Limit(toPeer[Len(toPeer)])
  BY <1>1, LastFlow
<1>4. OwnLimit = Later(delivery_count, limit)
  BY <1>1, <1>2, <1>3 DEF LastWord
<1>5. CASE toPeer' # <<>>
  <2>1. Len(toPeer') > 0
    BY <1>5, LastFlow DEF TypeOK
  <2>2. toPeer'[Len(toPeer')] = toPeer[Len(toPeer)]
    BY <1>1, <2>1
  <2> QED
    BY <1>2, <1>3, <1>4, <1>5, <2>2 DEF LastWord
<1>6. CASE toPeer' = <<>>
  <2>1. Head(toPeer) = toPeer[Len(toPeer)]
    <3>1. Len(toPeer') = 0
      BY <1>6, EmptySeq
    <3>2. Len(toPeer) = 1
      BY <1>1, <3>1
    <3> QED
      BY <1>1, <3>2
  <2>2. /\ delivery_count \in Nat /\ peerCount \in Nat /\ OwnLimit \in Nat
        /\ delivery_count <= peerCount
    BY <1>2, LimitNumbers DEF InOrder, BaseCount, TypeOK
  <2>3. peerCredit' = Later(0, limit - peerCount)
    BY <1>2, <1>3, <2>1
  <2>4. CASE limit > peerCount
    <3>1. OwnLimit = limit /\ peerCredit' = limit - peerCount
      BY <1>4, <2>2, <2>3, <2>4 DEF Later
    <3>2. PeerLimit' = OwnLimit' /\ peerCredit' > 0
      BY <1>2, <2>2, <2>4, <3>1 DEF PeerLimit
    <3> QED
      BY <1>6, <3>2 DEF LastWord
  <2>5. CASE limit <= peerCount
    <3>1. OwnLimit <= peerCount /\ peerCredit' = 0
      BY <1>4, <2>2, <2>3, <2>5 DEF Later
    <3> QED
      BY <1>2, <1>6, <3>1 DEF LastWord
  <2> QED
    BY <2>2, <2>4, <2>5
<1> QED
  BY <1>5, <1>6

\* Every step keeps it.
LEMMA NextLastWord ==
    ASSUME Agreement, Inv', [Next]_vars
    PROVE  LastWord'
<1> USE DEF Agreement, Inv
<1>1. ASSUME NEW n \in Grants, SetReceiverCredit(n) PROVE LastWord'
  <2>1. n \in Nat /\ delivery_count \in Nat /\ delivery_count' = delivery_count
        /\ current_link_credit' = n /\ link_state' = link_state
    BY <1>1, ConstantTypes DEF SetReceiverCredit, TypeOK
  <2>2. CASE link_state = "ATTACHED"
    <3> DEFINE f == Flow(delivery_count, n, FALSE)
    <3>1. f \in Flows /\ Limit(f) = delivery_count + n
      BY <2>1, FlowFields
    <3>2. OwnLimit' = Later(delivery_count', Limit(f))
      <4>1. OwnLimit' = delivery_count + n
        BY <2>1, <2>2 DEF OwnLimit, BaseCount
      <4> QED
        BY <2>1, <3>1, <4>1, LaterSum
    <3>3. toPeer' = Append(toPeer, f)
      BY <1>1, <2>2 DEF SetReceiverCredit
    <3> HIDE DEF f
    <3> QED
      BY <3>1, <3>2, <3>3, SentLast
  <2>3. CASE link_state # "ATTACHED"
    BY <2>1, <2>3 DEF LastWord
  <2> QED
    BY <2>2, <2>3
<1>2. CASE LinkDrain
  <2>1. delivery_count \in Nat /\ current_link_credit \in Nat
    BY LimitNumbers DEF TypeOK
  <2>2. DrainFlow \in Flows /\ Limit(DrainFlow) = delivery_count + current_link_credit
    BY <2>1, FlowFields DEF DrainFlow
  <2>3. OwnLimit' = Later(delivery_count', Limit(DrainFlow)) /\ toPeer' = Append(toPeer, DrainFlow)
    BY <1>2, <2>1, <2>2 DEF LinkDrain, OwnLimit, BaseCount, Later
  <2> QED
    BY <2>2, <2>3, SentLast
<1>3. CASE ReceiveAttach
  <2> DEFINE f == Flow(delivery_count', current_link_credit', receiver_drain)
  <2>1. delivery_count' \in Nat /\ current_link_credit' \in Nat /\ receiver_drain \in BOOLEAN
    BY LimitNumbers, ConstantTypes DEF TypeOK
  <2>2. f \in Flows /\ Limit(f) = delivery_count' + current_link_credit'
    BY <2>1, FlowFields
  <2>3. toPeer' = Append(toPeer, f) /\ link_state' = "ATTACHED"
    BY <1>3 DEF ReceiveAttach
  <2> HIDE DEF f
  <2>4. OwnLimit' = Later(delivery_count', Limit(f))
    <3>1. OwnLimit' = delivery_count' + current_link_credit'
      BY <2>3 DEF OwnLimit, BaseCount
    <3> QED
      BY <2>1, <2>2, <3>1, LaterSum
  <2> QED
    BY <2>2, <2>3, <2>4, SentLast
<1>4. CASE ReceiveFlow
  <2>1. /\ link_state = "ATTACHED" /\ link_state' = link_state /\ toPeer' = toPeer
        /\ UNCHANGED peerVars /\ toReceiver # <<>>
    BY <1>4 DEF ReceiveFlow
  <2>2. BaseCount <= BaseCount' /\ BaseCount' <= peerCount /\ OwnLimit' = OwnLimit
    BY <1>4, <2>1, FlowTaken, FirstFrame
  <2>3. BaseCount' <= OwnLimit
    <3>1. BaseCount' <= OwnLimit'
      <4>1. delivery_count' \in Nat /\ current_link_credit' \in Nat
        BY ConstantTypes DEF TypeOK
      <4>2. BaseCount' = delivery_count' /\ OwnLimit' = delivery_count' + current_link_credit'
        BY <2>1 DEF BaseCount, OwnLimit
      <4>3. delivery_count' <= delivery_count' + current_link_credit'
        BY <4>1, LaterSum
      <4> QED
        BY <4>2, <4>3, Zenon
    <3> QED
      BY <2>2, <3>1
  <2> QED
    BY <2>1, <2>2, <2>3, LastWordCaughtUp DEF peerVars
<1>5. CASE ReceiveTransfer
  <2>1. /\ link_state = "ATTACHED" /\ link_state' = link_state
        /\ UNCHANGED peerVars /\ toReceiver # <<>>
    BY <1>5 DEF ReceiveTransfer
  <2>2. CASE RefillDue
    <3> DEFINE f == Flow(delivery_count, MaxLinkCredit, receiver_drain)
    <3>1. f \in Flows /\ Limit(f) = delivery_count + MaxLinkCredit
      <4>1. delivery_count \in Nat /\ MaxLinkCredit \in Nat /\ receiver_drain \in BOOLEAN
        BY ConstantTypes DEF TypeOK
      <4> QED
        BY <4>1, FlowFields
    <3>2. toPeer' = Append(toPeer, f)
          /\ OwnLimit' = Later(BaseCount', delivery_count + MaxLinkCredit)
      BY <1>5, <2>2, TransferTaken
    <3>3. BaseCount' = delivery_count'
      BY <2>1 DEF BaseCount
    <3> HIDE DEF f
    <3> QED
      BY <3>1, <3>2, <3>3, SentLast
  <2>3. CASE ~RefillDue
    <3>1. /\ toPeer' = toPeer
          /\ \/ OwnLimit' = OwnLimit /\ BaseCount' <= OwnLimit
             \/ OwnLimit = BaseCount /\ OwnLimit' = BaseCount'
      BY <1>5, <2>3, TransferTaken
    <3>2. BaseCount <= BaseCount' /\ BaseCount' <= peerCount
      BY <1>5, <2>1, TransferTaken, FirstFrame
    <3> QED
      BY <2>1, <3>1, <3>2, LastWordCaughtUp DEF peerVars
  <2> QED
    BY <2>2, <2>3
<1>6. CASE PeerReceiveFlow
  BY <1>6, LastWordReceived
<1>7. CASE PeerSendLast
  <2>1. /\ link_state = "ATTACHED" /\ UNCHANGED receiverVars /\ toPeer' = toPeer
        /\ peerCount' = peerCount + 1 /\ peerCredit' = Later(0, peerCredit - 1)
    BY <1>7 DEF PeerSendLast, Unattached
  <2>2. OwnLimit' = OwnLimit /\ OwnLimit \in Nat
    BY <2>1, LimitNumbers DEF receiverVars, OwnLimit, BaseCount
  <2>3. CASE toPeer # <<>>
    BY <2>1, <2>2, <2>3 DEF LastWord, receiverVars
  <2>4. CASE toPeer = <<>> /\ peerCredit > 0
    <3>1. OwnLimit = PeerLimit
      BY <2>1, <2>4 DEF LastWord
    <3>2. PeerLimit' = OwnLimit' /\ (peerCredit' = 0 => OwnLimit' <= peerCount')
      BY <2>1, <2>2, <2>4, <3>1, LimitNumbers, Spent DEF PeerLimit
    <3>3. peerCredit' > 0 \/ peerCredit' = 0
      BY LimitNumbers DEF TypeOK
    <3> QED
      BY <2>1, <2>4, <3>2, <3>3 DEF LastWord
  <2>5. CASE toPeer = <<>> /\ peerCredit = 0
    <3>1. OwnLimit <= peerCount
      BY <2>1, <2>5 DEF LastWord
    <3>2. peerCredit' = 0
      BY <2>1, <2>5, LimitNumbers, Spent
    <3>3. OwnLimit' <= peerCount'
      BY <2>1, <2>2, <3>1, LimitNumbers
    <3> QED
      BY <2>1, <2>5, <3>2, <3>3 DEF LastWord
  <2>6. peerCredit > 0 \/ peerCredit = 0
    BY LimitNumbers
  <2> QED
    BY <2>3, <2>4, <2>5, <2>6
<1>8. CASE PeerSendFirst
  BY <1>8 DEF PeerSendFirst, receiverVars, OwnLimit, PeerLimit, BaseCount, LastWord
<1>9. CASE PeerReturnCredit
  <2>1. /\ link_state = "ATTACHED" /\ UNCHANGED receiverVars /\ toPeer' = toPeer
        /\ peerCount' = peerCount + peerCredit /\ peerCredit' = 0
    BY <1>9 DEF PeerReturnCredit, Unattached
  <2>2. OwnLimit' = OwnLimit /\ OwnLimit \in Nat
    BY <2>1, LimitNumbers DEF receiverVars, OwnLimit, BaseCount
  <2>3. CASE toPeer # <<>>
    BY <2>1, <2>2, <2>3 DEF LastWord, receiverVars
  <2>4. CASE toPeer = <<>>
    <3>1. OwnLimit <= peerCount + peerCredit
      BY <2>1, <2>2, <2>4, LimitNumbers DEF LastWord
    <3> QED
      BY <2>1, <2>2, <2>4, <3>1 DEF LastWord
  <2> QED
    BY <2>3, <2>4
<1>10. CASE PeerEcho
  BY <1>10 DEF PeerEcho, receiverVars, peerVars, OwnLimit, PeerLimit, BaseCount, LastWord
<1>11. CASE UNCHANGED vars
  BY <1>11 DEF vars, receiverVars, peerVars, OwnLimit, PeerLimit, BaseCount, LastWord
<1> QED
  BY <1>1, <1>2, <1>3, <1>4, <1>5, <1>6, <1>7, <1>8, <1>9, <1>10, <1>11 DEF Next

-----------------------------------------------------------------------------
(* Automatic mode. *)

LEMMA NextAllowance ==
    ASSUME Agreement, Inv', [Next]_vars
    PROVE  Allowance'
<1> USE DEF Agreement, Inv
<1> SUFFICES ASSUME link_state' = "ATTACHED", ~receiver_credit_manual',
                    MaxLinkCredit > RECEIVER_MIN_LINK_CREDIT
             PROVE  current_link_credit' > 0
  BY DEF Allowance
<1>1. ASSUME NEW n \in Grants, SetReceiverCredit(n) PROVE current_link_credit' > 0
  BY <1>1 DEF SetReceiverCredit
<1>2. CASE LinkDrain
  BY <1>2 DEF LinkDrain, DrainMode
<1>3. CASE ReceiveAttach
  BY <1>3, ConstantTypes DEF ReceiveAttach, RECEIVER_MIN_LINK_CREDIT
<1>4. CASE ReceiveFlow
  <2>1. ~receiver_credit_manual /\ ~receiver_drain /\ link_state = "ATTACHED"
    BY <1>4 DEF ReceiveFlow, Modes
  <2>2. current_link_credit' = current_link_credit
    BY <1>4, <2>1 DEF ReceiveFlow, DrainAnswer
  <2> QED
    BY <2>1, <2>2 DEF Allowance
<1>5. CASE ReceiveTransfer
  <2> DEFINE credit == IF RefillDue THEN MaxLinkCredit ELSE current_link_credit
  <2>1. ~receiver_credit_manual /\ ~receiver_drain
    BY <1>5 DEF ReceiveTransfer, Modes
  <2>2. credit \in Nat /\ credit > 1
    BY <2>1, LimitNumbers, ConstantTypes DEF RefillDue, RECEIVER_MIN_LINK_CREDIT
  <2>3. current_link_credit' \in {credit, CreditAfterDelivery(credit)}
    BY <1>5 DEF ReceiveTransfer
  <2> HIDE DEF credit
  <2> QED
    BY <2>2, <2>3 DEF CreditAfterDelivery
<1>6. CASE PeerReceiveFlow
  BY <1>6 DEF PeerReceiveFlow, receiverVars, Allowance
<1>7. CASE PeerSendLast
  BY <1>7 DEF PeerSendLast, receiverVars, Allowance
<1>8. CASE PeerSendFirst
  BY <1>8 DEF PeerSendFirst, receiverVars, Allowance
<1>9. CASE PeerReturnCredit
  BY <1>9 DEF PeerReturnCredit, receiverVars, Allowance
<1>10. CASE PeerEcho
  BY <1>10 DEF PeerEcho, receiverVars, Allowance
<1>11. CASE UNCHANGED vars
  BY <1>11 DEF vars, receiverVars, Allowance
<1> QED
  BY <1>1, <1>2, <1>3, <1>4, <1>5, <1>6, <1>7, <1>8, <1>9, <1>10, <1>11 DEF Next

-----------------------------------------------------------------------------
(* The invariant, and what it says at rest. *)

LEMMA InitAgreement == Init => Agreement
<1> SUFFICES ASSUME Init PROVE Agreement
  OBVIOUS
<1>1. Inv
  BY InitInv
<1>2. Len(toReceiver) = 0 /\ Len(toPeer) = 0
  BY EmptySeq DEF Init
<1>3. Modes
  BY ConstantTypes DEF Init, Modes
<1>4. Chain
  BY <1>2 DEF Init, Chain, At, BaseCount
<1>5. DrainsUnderWay /\ LastWord /\ Allowance
  BY <1>2 DEF Init, DrainsUnderWay, LastWord, Allowance
<1> QED
  BY <1>1, <1>3, <1>4, <1>5 DEF Agreement

LEMMA NextAgreement == Agreement /\ [Next]_vars => Agreement'
<1> SUFFICES ASSUME Agreement, [Next]_vars PROVE Agreement'
  OBVIOUS
<1>1. Inv'
  BY NextInv DEF Agreement
<1>2. Modes'
  BY NextModes DEF Agreement
<1>3. Chain' /\ DrainsUnderWay' /\ LastWord' /\ Allowance'
  BY <1>1, NextChain, NextDrains, NextLastWord, NextAllowance
<1> QED
  BY <1>1, <1>2, <1>3 DEF Agreement

LEMMA AgreementAlways == Spec => []Agreement
  BY InitAgreement, NextAgreement, PTL DEF Spec

\* With both channels empty the receiver has caught up, and holds what the sender holds.
LEMMA AtRest ==
    ASSUME Agreement, link_state = "ATTACHED", toPeer = <<>>, toReceiver = <<>>
    PROVE  delivery_count = peerCount /\ current_link_credit = peerCredit
<1>1. Len(toReceiver) = 0
  BY EmptySeq
<1>2. delivery_count = peerCount
  BY <1>1 DEF Agreement, Chain, At, BaseCount
<1>3. TypeOK
  BY DEF Agreement, Inv
<1>4. CASE peerCredit > 0
  <2>1. OwnLimit = PeerLimit
    BY <1>4 DEF Agreement, LastWord
  <2> QED
    BY <1>2, <1>3, <2>1, LimitNumbers
<1>5. CASE ~(peerCredit > 0)
  <2>1. OwnLimit <= peerCount
    BY <1>5 DEF Agreement, LastWord
  <2> QED
    BY <1>2, <1>3, <1>5, <2>1, LimitNumbers
<1> QED
  BY <1>4, <1>5

\* Whatever callers grant, revoke and drain, and however deliveries and FLOWs of the
\* sender cross that: when nothing is under way the two ends agree.
THEOREM BooksAgree == Spec => []AgreeAtRest
<1>1. Agreement => AgreeAtRest
  BY AtRest DEF AgreeAtRest
<1> QED
  BY <1>1, AgreementAlways, PTL

\* A caller that leaves the link in automatic mode is never left without deliveries.
THEOREM AutomaticModeServes == Spec => []AutomaticNeverStarves
<1>1. Agreement => AutomaticNeverStarves
  <2> SUFFICES ASSUME Agreement, link_state = "ATTACHED", ~receiver_credit_manual,
                      MaxLinkCredit > RECEIVER_MIN_LINK_CREDIT,
                      toPeer = <<>>, toReceiver = <<>>
               PROVE  peerCredit > 0
    BY DEF AutomaticNeverStarves
  <2> QED
    BY AtRest DEF Agreement, Allowance
<1> QED
  BY <1>1, AgreementAlways, PTL
=============================================================================
