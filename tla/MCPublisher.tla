---------------------------- MODULE MCPublisher -----------------------------
(* Publisher needs no bounds: its state is finite over any number of calls. *)
EXTENDS Publisher
=============================================================================
