---------------------------- MODULE DebugReceiver ---------------------------
(***************************************************************************)
(* The run of the debugging consumer after its options are known           *)
(* (debugging/subscription_consumer.cpp, main and its callbacks): the      *)
(* objects it makes one after the other, the receive loop, the teardown    *)
(* and the exit status.                                                    *)
(***************************************************************************)
EXTENDS Naturals, Sequences, SequencesExt

CONSTANTS
    Counts,     \* values of --count
    MaxMessages \* bound: messages the broker has

\* parseOptions refuses a count that is not positive.
ASSUME CountsAssumption == Counts \subseteq Nat \ {0}
ASSUME MaxMessagesAssumption == MaxMessages \in Nat

VARIABLES
    phase,      \* "setup", "loop", "dispatch", "destroy" or "exited"
    valid,      \* parseOptions has succeeded
    count,
    held,       \* the objects that exist
    step,       \* the next step of the setup, or of the teardown
    state,      \* the callbacks' State
    late,       \* the deadline has passed
    status      \* the exit status; Unknown before it is set

vars == <<phase, valid, count, held, step, state, late, status>>

Unknown == 3

\* What main makes.
Setup == <<"logger", "platform", "tls_io", "sasl_mechanism", "sasl_io", "connection", "session",
           "link", "receiver">>

\* destroyResources.
Teardown == <<"receiver", "link", "session", "connection", "sasl_io", "tls_io", "sasl_mechanism",
              "platform">>

TypeOK ==
    /\ phase \in {"setup", "loop", "dispatch", "destroy", "exited"}
    /\ valid \in BOOLEAN /\ late \in BOOLEAN
    /\ count \in Counts
    /\ held \subseteq Range(Setup)
    /\ step \in 1 .. Len(Setup) + 1
    /\ state \in [received : 0 .. MaxMessages, stopped : BOOLEAN, ioError : BOOLEAN,
                  linkError : BOOLEAN]
    /\ status \in {Unknown, 0, 1, 2}
    /\ state.stopped <=> state.received >= count

Init ==
    /\ phase \in {"setup", "exited"}
    /\ valid = (phase = "setup")
    /\ status = IF valid THEN Unknown ELSE 2
    /\ count \in Counts
    /\ held = {} /\ step = 1 /\ late = FALSE
    /\ state = [received |-> 0, stopped |-> FALSE, ioError |-> FALSE, linkError |-> FALSE]

-----------------------------------------------------------------------------
Make ==
    /\ phase = "setup" /\ step <= Len(Setup)
    /\ held' = held \cup {Setup[step]}
    /\ step' = step + 1
    /\ UNCHANGED <<phase, valid, count, state, late, status>>

\* A step fails, messagereceiver_open included: main throws, and nothing is destroyed.
MakeFails ==
    /\ phase = "setup"
    /\ phase' = "exited" /\ status' = 2
    /\ UNCHANGED <<valid, count, held, step, state, late>>

Open ==
    /\ phase = "setup" /\ step > Len(Setup)
    /\ phase' = "loop"
    /\ UNCHANGED <<valid, count, held, step, state, late, status>>

\* The condition of the loop; wrong: the deadline does not end it.
GoesOnLate == ~state.stopped /\ state.received < count /\ ~state.ioError /\ ~state.linkError
GoesOn == ~state.stopped /\ state.received < count /\ ~state.ioError /\ ~state.linkError /\ ~late

DoWork ==
    /\ phase = "loop" /\ GoesOn
    /\ phase' = "dispatch"
    /\ UNCHANGED <<valid, count, held, step, state, late, status>>

DispatchEnds ==
    /\ phase = "dispatch"
    /\ phase' = "loop"
    /\ UNCHANGED <<valid, count, held, step, state, late, status>>

\* What onMessage stops at.
StopsAt(received) == received >= count

\* onMessage, which accepts every message, those after the last one wanted too.
OnMessage ==
    /\ phase = "dispatch" /\ state.received < MaxMessages
    /\ state' = [state EXCEPT !.received = @ + 1, !.stopped = @ \/ StopsAt(state.received + 1)]
    /\ UNCHANGED <<phase, valid, count, held, step, late, status>>

OnFailure(flag) ==
    /\ phase = "dispatch"
    /\ state' = [state EXCEPT ![flag] = TRUE]
    /\ UNCHANGED <<phase, valid, count, held, step, late, status>>

DeadlinePasses ==
    /\ phase \in {"loop", "dispatch"}
    /\ ~late /\ late' = TRUE
    /\ UNCHANGED <<phase, valid, count, held, step, state, status>>

\* The status; wrong: taken from the failure, not from the count.
StatusOfFailure == IF state.ioError \/ state.linkError THEN 1 ELSE 0
StatusOfCount == IF state.received < count THEN 1 ELSE 0

LoopEnds ==
    /\ phase = "loop" /\ ~GoesOn
    /\ status' = StatusOfCount
    /\ phase' = "destroy" /\ step' = 1
    /\ UNCHANGED <<valid, count, held, state, late>>

Destroy ==
    /\ phase = "destroy" /\ step <= Len(Teardown)
    /\ held' = held \ {Teardown[step]}
    /\ step' = step + 1
    /\ UNCHANGED <<phase, valid, count, state, late, status>>

Exit ==
    /\ phase = "destroy" /\ step > Len(Teardown)
    /\ phase' = "exited"
    /\ UNCHANGED <<valid, count, held, step, state, late, status>>

Exited == phase = "exited" /\ UNCHANGED vars

Next == \/ Make
        \/ MakeFails
        \/ Open
        \/ DoWork
        \/ DispatchEnds
        \/ OnMessage
        \/ \E flag \in {"ioError", "linkError"} : OnFailure(flag)
        \/ DeadlinePasses
        \/ LoopEnds
        \/ Destroy
        \/ Exit
        \/ Exited

\* The program runs on, connection_dowork returns, and the clock does not stop.
Fairness == /\ WF_vars(Make \/ MakeFails \/ Open \/ DoWork \/ DispatchEnds \/ LoopEnds \/ Destroy \/ Exit)
            /\ WF_vars(DeadlinePasses)

Spec == Init /\ [][Next]_vars /\ Fairness

-----------------------------------------------------------------------------
(* Properties. *)

\* "Exit status 0 means the requested messages were consumed, 1 means a receive or
\* transport failure occurred before the requested count" (docs/INSTALL.md), where the
\* timeout counts as a failure to receive: also when message, failure and deadline
\* come in one dispatch.
StatusTellsOutcome ==
    /\ status = 0 => state.received >= count
    /\ status = 1 => /\ state.received < count
                     /\ state.ioError \/ state.linkError \/ late

\* The program ends, at the deadline if nothing else comes; an open connection that
\* stays silent does not hold it.
AlwaysExits == <>(phase = "exited")
=============================================================================
