---------------------------- MODULE MCApplication ----------------------------
(* Instances of Application for TLC.                                       *)
EXTENDS Application

R(count, ids, lacking) ==
    [sessions |-> count, cores |-> ids, missing |-> lacking]

\* Sessions that share a thread, more threads than sessions, no session, and a core
\* that the host lacks.
MCThreads ==
    {R(3, 2, {}), R(2, 0, {}), R(1, 2, {}), R(0, 0, {}), R(2, 2, {2})}

MCEarly == {R(2, 0, {})}

\* The timer, or an error of the data.
MCFailures == {"test_timeout", "data_mismatch"}
=============================================================================
