------------------------------ MODULE MCUdpPair ------------------------------
(* Instances of UdpPair for TLC.                                           *)
EXTENDS UdpPair

End(checks, direction, size, send_slice, receive_slice) ==
    [verify |-> checks, direction |-> direction,
     shutdown_policy |-> "WAIT_FOR_PEER", size |-> size,
     send_slice |-> send_slice, receive_slice |-> receive_slice]

\* Slices that fit and slices that do not, and both ways to verify.
OneWay ==
    {<<End("NONE", "TX", 3, s, 1), End(v, "RX", 3, 1, r), n>> :
        v \in {"FIRST", "ALL"}, s \in {1, 2}, r \in {1, 3, 4},
        n \in {"ideal", "lossy", "repeating"}}

BothWays ==
    {<<End("FIRST", "BOTH", 3, 2, 3), End("ALL", "BOTH", 3, 3, 2), "ideal">>}

\* A sender that was told more than its receiver, or less.
Unequal ==
    {<<End("NONE", "TX", size, 2, 1), End("FIRST", "RX", 3, 1, 2), n>> :
        size \in {2, 4}, n \in {"ideal", "lossy"}}

MCTests == OneWay \cup BothWays \cup Unequal
MCDatagramSizes == {1, 2}
=============================================================================
