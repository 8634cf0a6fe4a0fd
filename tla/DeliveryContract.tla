-------------------------- MODULE DeliveryContract --------------------------
(***************************************************************************)
(* What a receiving run promises the broker and the PHP callback: the      *)
(* callback gets one message at a time and none once a stop was asked for, *)
(* every message gets one disposition, in the order of arrival, accepted   *)
(* or abandoned if the callback had it and released otherwise, and the run *)
(* stops by itself at a failure or at the end of its batch.  Receiver      *)
(* implements it.                                                          *)
(***************************************************************************)
EXTENDS Naturals, Sequences

VARIABLES batch,    \* messages asked for, 0 for no limit
          stopped,
          handling, \* the callback has a message
          outcomes  \* dispositions, in order

vars == <<batch, stopped, handling, outcomes>>

Init == batch = 0 /\ ~stopped /\ ~handling /\ outcomes = <<>>

Start ==
    /\ outcomes = <<>> /\ ~stopped /\ ~handling
    /\ batch' \in Nat
    /\ stopped' \in BOOLEAN \* it may fail at once
    /\ UNCHANGED <<handling, outcomes>>

Hand ==
    /\ ~stopped /\ ~handling
    /\ handling' = TRUE
    /\ UNCHANGED <<batch, stopped, outcomes>>

Accept ==
    /\ handling
    /\ handling' = FALSE
    /\ outcomes' = Append(outcomes, "accepted")
    /\ stopped' \in {TRUE, stopped \/ Len(outcomes') = batch}
    /\ UNCHANGED batch

Abandon ==
    /\ handling
    /\ handling' = FALSE
    /\ outcomes' = Append(outcomes, "modified")
    /\ stopped' = TRUE
    /\ UNCHANGED batch

Release ==
    /\ stopped /\ ~handling
    /\ outcomes' = Append(outcomes, "released")
    /\ UNCHANGED <<batch, stopped, handling>>

Stop == stopped' = TRUE /\ UNCHANGED <<batch, handling, outcomes>>

Next == \/ Start
        \/ Hand
        \/ Accept
        \/ Abandon
        \/ Release
        \/ Stop

Spec == Init /\ [][Next]_vars
=============================================================================
