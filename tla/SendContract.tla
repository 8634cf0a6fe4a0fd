---------------------------- MODULE SendContract ----------------------------
(***************************************************************************)
(* What Connection::publish promises its caller: a call is judged by what  *)
(* was reported to that call alone.  It returns only after the sender has  *)
(* reported its message complete and without a DETACH of the peer; it      *)
(* throws only after a DETACH, after an I/O failure, or without having     *)
(* sent anything.  Publisher implements it.                                *)
(***************************************************************************)
VARIABLES stage,    \* "idle", "waiting" or "unwound"
          seen,     \* what was reported to this call
          result    \* of the last call

Reports == {"completed", "detached", "ioFailed"}

Init == stage = "idle" /\ seen = {} /\ result = "none"

Begin == stage = "idle" /\ stage' = "waiting" /\ seen' = {} /\ result' = "none"

Refuse == stage = "idle" /\ stage' = "idle" /\ seen' = {} /\ result' = "threw"

Report(what) == stage = "waiting" /\ seen' = seen \cup {what} /\ UNCHANGED <<stage, result>>

Return ==
    /\ stage = "waiting"
    /\ "completed" \in seen /\ "detached" \notin seen
    /\ stage' = "idle" /\ result' = "returned"
    /\ UNCHANGED seen

Throw ==
    /\ stage = "waiting"
    /\ seen \cap {"detached", "ioFailed"} # {}
    /\ stage' = "idle" /\ result' = "threw"
    /\ UNCHANGED seen

\* A callback of the native library throws; nothing is promised from then on.
Unwind == stage = "waiting" /\ stage' = "unwound" /\ UNCHANGED <<seen, result>>

Next == \/ Begin
        \/ Refuse
        \/ \E what \in Reports : Report(what)
        \/ Return
        \/ Throw
        \/ Unwind

Spec == Init /\ [][Next]_<<stage, seen, result>>
=============================================================================
