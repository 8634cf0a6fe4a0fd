--------------------------- MODULE MCDebugReceiver --------------------------
(* One to three messages wanted, five to be had. *)
EXTENDS DebugReceiver

MCCounts == 1 .. 3
=============================================================================
