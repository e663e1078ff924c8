----------------------------- MODULE MCTimedPair -----------------------------
(* Instances of TimedPair for TLC.                                         *)
EXTENDS TimedPair

Conf(tx, rx, frequency, extra) ==
    [send_bandwidth |-> tx, receive_bandwidth |-> rx,
     sampling_frequency |-> frequency, duration_margin |-> extra]

\* Ends with the same bandwidth and with different ones, of both directions of one
\* end and of both ends; slices of one byte and more, and a rounded bandwidth.
Bandwidths == {<<4, 4>>, <<4, 2>>, <<2, 4>>, <<10, 10>>}

\* Ends with the same slices and with different ones, and slices of nothing; and the
\* clock set back or forward, by less than what a prompt test has to spare and by more,
\* on hosts that are prompt and on others.
MCTests ==
    {[size |-> bytes, sender |-> Conf(a[1], a[2], f, m), receiver |-> Conf(b[2], b[1], f, m),
      prompt |-> TRUE, adjustments |-> {}] :
        bytes \in {1, 12}, a \in Bandwidths, b \in Bandwidths, f \in {2},
        m \in {<<>>, <<6>>}}
        \cup
    {[size |-> 9, sender |-> Conf(a, a, f[1], <<0>>), receiver |-> Conf(b, b, f[2], <<0>>),
      prompt |-> TRUE, adjustments |-> {}] :
        a \in {4, 10}, b \in {7, 10}, f \in {<<2, 10>>, <<5, 2>>}}
        \cup
    {[size |-> 7, sender |-> Conf(4, 4, 2, <<0>>), receiver |-> Conf(4, 4, 2, <<0>>),
      prompt |-> TRUE, adjustments |-> {-6, 2, 3}]}
        \cup
    {[size |-> 3, sender |-> Conf(4, 4, 2, <<>>), receiver |-> Conf(7, 4, 2, <<>>),
      prompt |-> FALSE, adjustments |-> {-4, 4}]}

\* 3 bytes per second in two slices per second, of one byte each.
MCTruncated ==
    {[size |-> 15, sender |-> Conf(3, 3, f, <<>>), receiver |-> Conf(3, 30, f, <<>>),
      prompt |-> TRUE, adjustments |-> {}] : f \in {1, 2}}

MCLaunches == {0, 2, 4, 9, 12}
MCNoLater == {0}
=============================================================================
