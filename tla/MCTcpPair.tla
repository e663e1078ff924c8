------------------------------ MODULE MCTcpPair ------------------------------
(* Instances of TcpPair for TLC.                                           *)
EXTENDS TcpPair

End(direction, policy, size, slice) ==
    [verify |-> "ALL", direction |-> direction, shutdown_policy |-> policy,
     size |-> size, send_slice |-> slice, receive_slice |-> 3]

BothWays(policies, c) ==
    {<<End("BOTH", p[1], 2, 3), End("BOTH", p[2], 2, 1), c>> : p \in policies}

OneWay(size, conditions) ==
    {<<End("RX", a, 2, 3), End("TX", b, size, 3), c>> :
        a \in {"WAIT_FOR_PEER", "RECEIVE_COMPLETE"},
        b \in {"WAIT_FOR_PEER", "SEND_COMPLETE"}, c \in conditions}

\* The pairs of policies of two ends that both send and receive.  The command line
\* accepts all, which end has which makes no difference here.
Policies ==
    {<<p, p>> : p \in ShutdownPolicy}
        \cup {<<"WAIT_FOR_PEER", "SEND_COMPLETE">>,
              <<"SEND_COMPLETE", "RECEIVE_COMPLETE">>,
              <<"RECEIVE_COMPLETE", "WAIT_FOR_PEER">>}

\* Any policies and any sizes, disturbed, and in calm those that fit.
MCTests ==
    BothWays(Policies, "disturbed")
        \cup BothWays({<<"SEND_COMPLETE", "SEND_COMPLETE">>}, "calm")
        \cup OneWay(2, {"calm", "disturbed"})
        \cup OneWay(1, {"disturbed"}) \cup OneWay(3, {"disturbed"})
=============================================================================
