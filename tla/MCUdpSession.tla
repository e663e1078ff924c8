---------------------------- MODULE MCUdpSession -----------------------------
(* Instances of UdpSession for TLC.                                        *)
EXTENDS UdpSession

\* The shutdown policy is for TCP.  Slices below and above the size, and what one
\* direction alone does not read of its configuration left at one value.
MCConfigurations ==
    {c \in [verify : Verify, direction : Direction,
            shutdown_policy : {"WAIT_FOR_PEER"}, size : {2},
            send_slice : {1, 3}, receive_slice : {1, 3}] :
        CASE c.direction = "TX" -> c.verify = "NONE" /\ c.receive_slice = 1
          [] c.direction = "RX" -> c.send_slice = 1
          [] c.direction = "BOTH" -> c.send_slice # c.receive_slice /\ c.verify # "NONE"}

MCDatagramSizes == {0, 1, 2}

\* Datagrams with right and wrong bytes, one that exceeds the buffer,
\* and an empty one.
MCDatagrams == {<<0>>, <<1, 0>>, <<0, 1, 0, 1>>, <<>>}
=============================================================================
