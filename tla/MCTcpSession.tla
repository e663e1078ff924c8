---------------------------- MODULE MCTcpSession -----------------------------
(* Instances of TcpSession for TLC.                                        *)
EXTENDS TcpSession

AcceptedOf(verifies, directions, sizes, send_slices, receive_slices) ==
    {c \in [verify : verifies, direction : directions,
            shutdown_policy : ShutdownPolicy, size : sizes,
            send_slice : send_slices, receive_slice : receive_slices] :
        Accepted(c)}

\* Both directions, with slices below and above the size.
MCTransfer == AcceptedOf({"NONE"}, Direction, {2}, {1, 3}, {1, 3})

\* All ways to verify chunks of one and of several bytes; sends that end at a
\* slice, at the end of the buffer or at the size; and a bandwidth below the
\* sampling frequency, which grants no byte.
MCData ==
    {c \in AcceptedOf(Verify, {"RX"}, {3}, {1}, {2, 4}) :
        c.shutdown_policy = "WAIT_FOR_PEER"}
        \cup AcceptedOf({"NONE"}, {"TX"}, {5}, {2, 5}, {1})
        \cup AcceptedOf({"ALL"}, Direction, {1}, {0}, {0, 1})
        \cup AcceptedOf({"ALL"}, {"TX", "BOTH"}, {1}, {1}, {0})
=============================================================================
