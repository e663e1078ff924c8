--------------------------- MODULE SessionOutcome ----------------------------
(***************************************************************************)
(* What a session promises to the application, whatever its protocol: it   *)
(* finishes once, or fails once and then requests the exit of the whole    *)
(* application; after it has finished only what was already queued, its    *)
(* timer or a signal, can still make it fail; and once the exit is         *)
(* requested its outcome is settled.                                       *)
(***************************************************************************)
EXTENDS Error

VARIABLES
    outcome,        \* how far the session is, and its failure
    exit_requested

vars == <<outcome, exit_requested>>

\* A session is finished when on_finish() has closed its socket, and idle when no
\* handler of it is left to call.
Outcome == [status : {"active", "finished", "idle"}, failure : ErrorCode]

TypeOK == outcome \in Outcome /\ exit_requested \in BOOLEAN

Unfinished == [status |-> "active", failure |-> "success"]

\* What is reported of a timer or a signal.
Interruption ==
    {"test_timeout", "user_interrupt", "program_termination", "unknown_signal"}

\* The outcomes that one handler can turn `o' into: without failure,
advances(o) ==
    {n \in {[o EXCEPT !.status = "finished"], [o EXCEPT !.status = "idle"]} :
        <<o.status, n.status>> \in {<<"active", "finished">>, <<"finished", "idle">>}}

\* and by abort().  A UDP session whose last datagram mismatches also finishes in
\* the same handler.
aborts(o) ==
    CASE o.status = "active" ->
            [status : {"active"},
             failure : ErrorCode \ {"success", "operation_aborted", "eof"}]
                \cup [status : {"finished"}, failure : {"data_mismatch"}]
      [] o.status = "finished" ->
            [status : {"finished", "idle"}, failure : Interruption]
      [] o.status = "idle" -> {}

Init == outcome = Unfinished /\ exit_requested = FALSE

Advances ==
    /\ ~exit_requested
    /\ outcome' \in advances(outcome)
    /\ UNCHANGED exit_requested

Aborts ==
    /\ ~exit_requested
    /\ outcome' \in aborts(outcome)
    /\ exit_requested' = TRUE

ExitRequestedElsewhere ==
    /\ ~exit_requested
    /\ exit_requested' = TRUE
    /\ UNCHANGED outcome

Next == Advances \/ Aborts \/ ExitRequestedElsewhere

Spec == Init /\ [][Next]_vars
=============================================================================
