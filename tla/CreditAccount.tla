---------------------------- MODULE CreditAccount ----------------------------
(***************************************************************************)
(* What explicit receiver credit promises to its caller, without the       *)
(* network: an account of deliveries.  "used" counts the deliveries that   *)
(* have consumed credit or whose credit the sender gave back, "limit" is   *)
(* the most that "used" may ever become.  A delivery never passes the      *)
(* limit, nothing but an explicit grant raises the limit once the caller   *)
(* has taken credit into its own hands ("manual"), no credit is granted    *)
(* while a drain is pending, and a drain is over exactly when the limit is *)
(* reached.  LinkCredit is the link that keeps this promise; Receiver is   *)
(* the consumer that relies on it.                                         *)
(***************************************************************************)
EXTENDS Integers

VARIABLES used, limit, manual, draining, drained

account == <<used, limit, manual, draining, drained>>

TypeOK == /\ used \in Nat
          /\ limit \in Nat
          /\ manual \in BOOLEAN
          /\ draining \in BOOLEAN
          /\ drained \in BOOLEAN

\* used = start: the count the sender announced when the link attached.
Init == /\ used \in Nat
        /\ limit = used
        /\ manual = FALSE
        /\ draining = FALSE
        /\ drained = FALSE

DrainPending == draining /\ ~drained

\* link_set_receiver_credit: "replaces the remaining allowance", here by one
\* that is not smaller.
Grant(n) == /\ ~DrainPending
            /\ used + n >= limit
            /\ limit' = used + n
            /\ manual' = TRUE
            /\ draining' = FALSE
            /\ drained' = FALSE
            /\ used' = used

\* Automatic mode only: the library extends the limit on its own.
Refill == /\ ~manual
          /\ limit' \in Nat
          /\ limit' >= limit
          /\ UNCHANGED <<used, manual, draining, drained>>

\* One delivery; in automatic mode the same step may extend the limit.
Deliver == /\ used < limit
           /\ used' = used + 1
           /\ limit' \in Nat
           /\ IF manual THEN limit' = limit ELSE limit' >= limit
           /\ UNCHANGED <<manual, draining, drained>>

\* link_drain: the unused credit is to be consumed or returned.
Drain == /\ manual' = TRUE
         /\ draining' = TRUE
         /\ drained' = FALSE
         /\ UNCHANGED <<used, limit>>

\* The sender gives r units of credit back.
Return(r) == /\ draining
             /\ r \in 0 .. (limit - used)
             /\ used' = used + r
             /\ drained' = (used' = limit)
             /\ UNCHANGED <<limit, manual, draining>>

Next == \/ Grant(limit' - used)
        \/ Refill
        \/ Deliver
        \/ Drain
        \/ Return(used' - used)

Spec == Init /\ [][Next]_account
=============================================================================
