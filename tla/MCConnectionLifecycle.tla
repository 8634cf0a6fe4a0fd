------------------------ MODULE MCConnectionLifecycle ------------------------
(* ConnectionLifecycle needs no bounds: its state is finite. *)
EXTENDS ConnectionLifecycle
=============================================================================
