----------------------------- MODULE MCReceiver ------------------------------
(* Receiver for batches of 2 and 3 and for the continuous mode. *)
EXTENDS Receiver

MCBatches == {0, 2, 3}
=============================================================================
