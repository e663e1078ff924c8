------------------------------ MODULE MCProcess ------------------------------
(* Instances of Process for TLC.                                           *)
EXTENDS Process

Conf(direction, policy) ==
    [verify |-> "NONE", direction |-> direction, shutdown_policy |-> policy,
     size |-> 1, send_slice |-> 1, receive_slice |-> 1]

T(first, second, ids) == [tcp |-> first, udp |-> second, cores |-> ids]

\* A receiver and a sender, on two threads and on one.
MCTests ==
    {T(Conf("RX", "WAIT_FOR_PEER"), Conf("TX", "SEND_COMPLETE"), 2),
     T(Conf("TX", "SEND_COMPLETE"), Conf("RX", "WAIT_FOR_PEER"), 0)}

MCDatagramSizes == {1}
MCDatagrams == {<<0>>}
=============================================================================
