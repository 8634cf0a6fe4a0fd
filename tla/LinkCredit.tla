----------------------------- MODULE LinkCredit ------------------------------
(***************************************************************************)
(* Receiver credit of one AMQP link, as the patched link.c keeps it        *)
(* (patches/azure-uamqp-c-manual-receiver-credit.patch), with the sending  *)
(* peer and the two directions of the transport.                           *)
(*                                                                         *)
(* One action per operation of the patched file: the three API calls       *)
(* (link_set_receiver_credit, link_drain; link_get_drain_complete only     *)
(* reads receiver_drain_complete) and the branches of link_frame_received. *)
(* The peer is external: an AMQP 1.0 sender that computes its credit as    *)
(* delivery-count + link-credit of the last FLOW minus its own count,      *)
(* may send FLOWs of its own accord and answers each drain by giving its   *)
(* remaining credit back.  The transport is TCP: FIFO and without loss.    *)
(*                                                                         *)
(* delivery_count is kept unwrapped; the 32 bit value of the code is       *)
(* delivery_count % Modulus and the one comparison the code makes between  *)
(* counts, SerialDiff, is taken modulo Modulus.                            *)
(***************************************************************************)
EXTENDS Integers, Sequences

CONSTANTS
    Modulus,        \* 2^32: the width of delivery_count and link credit
    MaxLinkCredit,  \* max_link_credit, the automatic allowance
    Grants,         \* the credits callers pass to link_set_receiver_credit
    InitialCounts,  \* initial-delivery-count values the peer may announce
    MayRevoke,      \* whether callers also replace credit by less credit
    MaxCount,       \* bound: counts beyond it are neither granted nor sent
    MaxChannel      \* bound: frames in the channels before a new request

ASSUME ModulusAssumption == Modulus \in Nat \ {0}
ASSUME GrantsAssumption == Grants \subseteq 0 .. (Modulus - 1)
ASSUME MaxLinkCreditAssumption == MaxLinkCredit \in 0 .. (Modulus - 1)
ASSUME InitialCountsAssumption == InitialCounts \subseteq Nat
ASSUME MayRevokeAssumption == MayRevoke \in BOOLEAN
ASSUME BoundsAssumption == MaxCount \in Nat /\ MaxChannel \in Nat

VARIABLES
    link_state,             \* the states of LINK_STATE a receiver passes through
    delivery_count,
    current_link_credit,
    receiver_credit_manual,
    receiver_drain,
    receiver_drain_complete,
    peerCount,              \* the sender's delivery-count
    peerCredit,             \* the sender's link-credit
    peerDrain,              \* a drain request the sender has not answered
    peerSending,            \* the sender is between two frames of a delivery
    toPeer,                 \* FLOW frames on their way to the sender
    toReceiver,             \* TRANSFER and FLOW frames on their way back
    authorised              \* history: highest count the caller (or, before any
                            \* explicit credit, automatic mode) has allowed

receiverVars == <<link_state, delivery_count, current_link_credit,
                  receiver_credit_manual, receiver_drain, receiver_drain_complete>>
peerVars == <<peerCount, peerCredit, peerDrain, peerSending>>
vars == <<receiverVars, peerVars, toPeer, toReceiver, authorised>>

-----------------------------------------------------------------------------
(* Frames.  A TRANSFER carries the count of its delivery; "more" is its flag. *)

Flows == [kind: {"flow"}, count: Nat, credit: Nat, drain: BOOLEAN]
Transfers == [kind: {"transfer"}, count: Nat, more: BOOLEAN]
Frames == Flows \cup Transfers

Flow(n, c, d) == [kind |-> "flow", count |-> n, credit |-> c, drain |-> d]
Transfer(n, m) == [kind |-> "transfer", count |-> n, more |-> m]

\* The higher of two counts.
Later(m, n) == IF m < n THEN n ELSE m

-----------------------------------------------------------------------------
TypeOK == /\ link_state \in {"HALF_ATTACHED_ATTACH_SENT", "ATTACHED"}
          /\ delivery_count \in Nat
          /\ current_link_credit \in 0 .. (Modulus - 1)
          /\ receiver_credit_manual \in BOOLEAN
          /\ receiver_drain \in BOOLEAN
          /\ receiver_drain_complete \in BOOLEAN
          /\ peerCount \in Nat
          /\ peerCredit \in Nat
          /\ peerDrain \in BOOLEAN
          /\ peerSending \in BOOLEAN
          /\ toPeer \in Seq(Flows)
          /\ toReceiver \in Seq(Frames)
          /\ authorised \in Nat

\* link_create and link_attach are done; the peer's ATTACH is awaited.
Init == /\ link_state = "HALF_ATTACHED_ATTACH_SENT"
        /\ delivery_count = 0
        /\ current_link_credit = 0
        /\ receiver_credit_manual = FALSE
        /\ receiver_drain = FALSE
        /\ receiver_drain_complete = FALSE
        /\ peerCount \in InitialCounts
        /\ peerCredit = 0
        /\ peerDrain = FALSE
        /\ peerSending = FALSE
        /\ toPeer = <<>>
        /\ toReceiver = <<>>
        /\ authorised = peerCount

-----------------------------------------------------------------------------
(* The caller's operations. *)

DrainPending == receiver_drain /\ ~receiver_drain_complete

\* The pending check of link_set_receiver_credit left out.
NeverPending == FALSE
RefusedWhile == DrainPending

\* The count deliveries continue from: delivery_count once the peer has
\* announced its own.
BaseCount == IF link_state = "ATTACHED" THEN delivery_count ELSE peerCount

\* link_set_receiver_credit.  The last conjunct but one is the caller's
\* discipline, MaxCount and MaxChannel are bounds.
SetReceiverCredit(n) ==
    /\ ~RefusedWhile
    /\ MayRevoke \/ n >= current_link_credit
    /\ BaseCount + n <= MaxCount
    /\ Len(toPeer) + Len(toReceiver) < MaxChannel
    /\ receiver_credit_manual' = TRUE
    /\ receiver_drain' = FALSE
    /\ receiver_drain_complete' = FALSE
    /\ current_link_credit' = n
    /\ toPeer' = IF link_state = "ATTACHED"
                 THEN Append(toPeer, Flow(delivery_count, n, FALSE))
                 ELSE toPeer
    /\ authorised' = Later(authorised, BaseCount + n)
    /\ UNCHANGED <<link_state, delivery_count, peerVars, toReceiver>>

\* A drain that leaves automatic replenishment on.
DrainKeepsMode == receiver_credit_manual
DrainMode == TRUE

\* The count a drain request announces without the credit it retains.
DrainFlowWithoutCredit == Flow(delivery_count, 0, TRUE)
DrainFlow == Flow(delivery_count, current_link_credit, TRUE)

\* link_drain.
LinkDrain ==
    /\ link_state = "ATTACHED"
    /\ Len(toPeer) + Len(toReceiver) < MaxChannel
    /\ receiver_credit_manual' = DrainMode
    /\ receiver_drain' = TRUE
    /\ receiver_drain_complete' = FALSE
    /\ toPeer' = Append(toPeer, DrainFlow)
    /\ UNCHANGED <<link_state, delivery_count, current_link_credit, peerVars,
                   toReceiver, authorised>>

-----------------------------------------------------------------------------
(* link_frame_received. *)

\* ATTACH: explicit credit is kept, otherwise the automatic allowance is
\* issued; either way a FLOW announces it.
ReceiveAttach ==
    /\ link_state = "HALF_ATTACHED_ATTACH_SENT"
    /\ link_state' = "ATTACHED"
    /\ delivery_count' = peerCount
    /\ current_link_credit' = IF receiver_credit_manual THEN current_link_credit
                                                        ELSE MaxLinkCredit
    /\ toPeer' = Append(toPeer, Flow(delivery_count', current_link_credit', receiver_drain))
    /\ authorised' = IF receiver_credit_manual THEN authorised
                     ELSE Later(authorised, peerCount + MaxLinkCredit)
    /\ UNCHANGED <<receiver_credit_manual, receiver_drain, receiver_drain_complete,
                   peerVars, toReceiver>>

\* uint32_t subtraction of delivery counts; wrong: of the numbers they stand for, in
\* a wider type.
PlainDiff(m, n) == (m % Modulus) - (n % Modulus)
SerialDiff(m, n) == (m - n) % Modulus

\* A FLOW of the peer matters only while a drain is on, when it says drain and
\* no credit, and when the credit it returns is credit this link has issued.
DrainAnswer(f) == /\ receiver_drain
                  /\ f.drain
                  /\ f.credit = 0
                  /\ SerialDiff(f.count, delivery_count) <= current_link_credit

\* The credit left when r units are given back; not what the FLOW says, which an
\* answer to an earlier drain says too.
CreditTakenFromFlow(c, r) == 0
CreditAfterReturn(c, r) == c - r

ReceiveFlow ==
    /\ link_state = "ATTACHED"
    /\ toReceiver # <<>>
    /\ LET f == Head(toReceiver)
           returned == SerialDiff(f.count, delivery_count)
       IN  /\ f.kind = "flow"
           /\ IF DrainAnswer(f)
              THEN /\ delivery_count' = delivery_count + returned
                   /\ current_link_credit' = CreditAfterReturn(current_link_credit, returned)
                   /\ receiver_drain_complete' = (current_link_credit' = 0)
              ELSE UNCHANGED <<delivery_count, current_link_credit,
                               receiver_drain_complete>>
    /\ toReceiver' = Tail(toReceiver)
    /\ UNCHANGED <<link_state, receiver_credit_manual, receiver_drain, peerVars,
                   toPeer, authorised>>

RECEIVER_MIN_LINK_CREDIT == 1

\* Automatic replenishment; without its first guard, and with a threshold one
\* too low.
RefillIgnoresManual == current_link_credit <= RECEIVER_MIN_LINK_CREDIT
RefillTooLate == /\ ~receiver_credit_manual
                 /\ ~receiver_drain
                 /\ current_link_credit < RECEIVER_MIN_LINK_CREDIT
RefillDue == /\ ~receiver_credit_manual
             /\ ~receiver_drain
             /\ current_link_credit <= RECEIVER_MIN_LINK_CREDIT

\* The last frame of a delivery consumes one credit, if there is any; without
\* that condition late deliveries make the credit underflow.
UnguardedCredit(c) == c - 1
CreditAfterDelivery(c) == IF c > 0 THEN c - 1 ELSE 0

\* A TRANSFER frame: replenish, then, on the last frame, consume and call back.
ReceiveTransfer ==
    /\ link_state = "ATTACHED"
    /\ toReceiver # <<>>
    /\ LET f == Head(toReceiver)
           credit == IF RefillDue THEN MaxLinkCredit ELSE current_link_credit
       IN  /\ f.kind = "transfer"
           /\ toPeer' = IF RefillDue
                        THEN Append(toPeer, Flow(delivery_count, credit, receiver_drain))
                        ELSE toPeer
           /\ IF f.more
              THEN /\ current_link_credit' = credit
                   /\ delivery_count' = delivery_count
              ELSE /\ current_link_credit' = CreditAfterDelivery(credit)
                   /\ delivery_count' = delivery_count + 1
    /\ toReceiver' = Tail(toReceiver)
    /\ authorised' = IF receiver_credit_manual THEN authorised
                     ELSE Later(authorised, delivery_count + MaxLinkCredit)
    /\ UNCHANGED <<link_state, receiver_credit_manual, receiver_drain,
                   receiver_drain_complete, peerVars>>

-----------------------------------------------------------------------------
(* The peer: an AMQP 1.0 sender. *)

\* A FLOW replaces the sender's credit; credit already spent leaves none.
PeerReceiveFlow ==
    /\ toPeer # <<>>
    /\ LET f == Head(toPeer)
       IN  /\ peerCredit' = Later(0, (f.count + f.credit) - peerCount)
           /\ peerDrain' = f.drain
    /\ toPeer' = Tail(toPeer)
    /\ UNCHANGED <<receiverVars, peerCount, peerSending, toReceiver, authorised>>

\* The last frame of a delivery, which may be its only one.
PeerSendLast ==
    /\ peerSending \/ peerCredit > 0
    /\ peerCount < MaxCount
    /\ toReceiver' = Append(toReceiver, Transfer(peerCount, FALSE))
    /\ peerCount' = peerCount + 1
    /\ peerCredit' = Later(0, peerCredit - 1)
    /\ peerSending' = FALSE
    /\ UNCHANGED <<receiverVars, peerDrain, toPeer, authorised>>

\* The first frame of a delivery of two frames.
PeerSendFirst ==
    /\ ~peerSending
    /\ peerCredit > 0
    /\ peerCount < MaxCount
    /\ toReceiver' = Append(toReceiver, Transfer(peerCount, TRUE))
    /\ peerSending' = TRUE
    /\ UNCHANGED <<receiverVars, peerCount, peerCredit, peerDrain, toPeer, authorised>>

\* The answer to a drain: the remaining credit is given back.
PeerReturnCredit ==
    /\ peerDrain
    /\ ~peerSending
    /\ peerCount' = peerCount + peerCredit
    /\ peerCredit' = 0
    /\ peerDrain' = FALSE
    /\ toReceiver' = Append(toReceiver, Flow(peerCount', 0, TRUE))
    /\ UNCHANGED <<receiverVars, peerSending, toPeer, authorised>>

\* A FLOW the peer sends of its own accord, between two deliveries.
PeerEcho ==
    /\ link_state = "ATTACHED"
    /\ ~peerSending
    /\ Len(toPeer) + Len(toReceiver) < MaxChannel
    /\ toReceiver' = Append(toReceiver, Flow(peerCount, peerCredit, peerDrain))
    /\ UNCHANGED <<receiverVars, peerVars, toPeer, authorised>>

-----------------------------------------------------------------------------
Next == \/ \E n \in Grants : SetReceiverCredit(n)
        \/ LinkDrain
        \/ ReceiveAttach
        \/ ReceiveFlow
        \/ ReceiveTransfer
        \/ PeerReceiveFlow
        \/ PeerSendLast
        \/ PeerSendFirst
        \/ PeerReturnCredit
        \/ PeerEcho

\* The caller keeps dispatching I/O and the peer answers; neither has to make a
\* request, grant credit, start a delivery or send a FLOW of its own accord.
Fairness == /\ WF_vars(ReceiveAttach)
            /\ WF_vars(ReceiveFlow)
            /\ WF_vars(ReceiveTransfer)
            /\ WF_vars(PeerReceiveFlow)
            /\ WF_vars(peerSending /\ PeerSendLast)
            /\ WF_vars(PeerReturnCredit)

Spec == Init /\ [][Next]_vars /\ Fairness
-----------------------------------------------------------------------------
(* Properties.  CreditCoversPeer, DrainQuiescent and KeepsAccount are about *)
(* callers that never replace credit by less credit, as Consumer.cpp does   *)
(* not; the others are about every caller.                                  *)

\* The sender never holds more credit than the receiver still accounts for, and
\* the receiver never counts deliveries the sender has not accounted for: the
\* clamped decrement and the count taken from a drain answer (the transfer and
\* flow branches of the patch) keep the two sides' books together.
CreditCoversPeer ==
    /\ BaseCount <= peerCount
    /\ peerCount + peerCredit <= BaseCount + current_link_credit

\* When link_get_drain_complete reports completion nothing is under way any
\* more: the sender has no credit, no transfer is in flight, and no FLOW on its
\* way to the sender will give it credit.  Consumer::close destroys the link on
\* the strength of this.
DrainQuiescent ==
    receiver_drain_complete =>
        /\ peerCredit = 0
        /\ ~peerSending
        /\ \A i \in DOMAIN toReceiver : toReceiver[i].kind = "flow"
        /\ \A i \in DOMAIN toPeer : toPeer[i].count + toPeer[i].credit <= delivery_count

\* Deliveries made, in flight or given back never exceed what the caller's
\* grants (before any explicit grant: the automatic allowance) have allowed,
\* whatever the order of grants, revocations, drains and transfers: credit is
\* never refilled implicitly.
NeverBeyondGrant == peerCount <= authorised

\* When no frame is in flight and no delivery is half sent, both ends agree on
\* the delivery count and the credit left: no order of revocations, late
\* transfers, drains and spontaneous FLOWs makes the books drift apart.
AgreeAtRest ==
    /\ link_state = "ATTACHED"
    /\ toPeer = <<>>
    /\ toReceiver = <<>>
    /\ ~peerSending
    => delivery_count = peerCount /\ current_link_credit = peerCredit

\* Callers of the automatic mode are not starved by the patch: with an allowance
\* above the threshold the sender has credit whenever nothing is in flight.
AutomaticNeverStarves ==
    /\ link_state = "ATTACHED"
    /\ ~receiver_credit_manual
    /\ MaxLinkCredit > RECEIVER_MIN_LINK_CREDIT
    /\ toPeer = <<>>
    /\ toReceiver = <<>>
    => peerCredit > 0

\* A drain that was asked for completes as long as I/O is dispatched and the
\* peer answers, however deliveries and spontaneous FLOWs cross the request.
DrainCompletes == DrainPending ~> receiver_drain_complete

\* The link keeps the promise of CreditAccount.
Account == INSTANCE CreditAccount WITH
               used <- BaseCount,
               limit <- BaseCount + current_link_credit,
               manual <- receiver_credit_manual,
               draining <- receiver_drain,
               drained <- receiver_drain_complete
KeepsAccount == Account!Spec
=============================================================================
