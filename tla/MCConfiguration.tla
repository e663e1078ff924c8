--------------------------- MODULE MCConfiguration ---------------------------
(* Instances of Configuration for TLC.                                     *)
EXTENDS Configuration

R(low, high) == [low |-> low, high |-> high]

\* Pairs of ranges, among them a backward one and one without text, three ranges in
\* order, and no option.
Texts == {<< <<2>> >>, << <<>> >>, << <<0>>, <<1>> >>, << <<1>>, <<3>> >>,
          << <<3>>, <<1>> >>}
MCCoreOptions ==
    {<<>>, << << <<0>>, <<1>> >>, << <<1>>, <<2>> >>, << <<2>>, <<3>> >> >>}
        \cup {<<a, b>> : a, b \in Texts}

S(count, power, i, unit) == [count |-> count, power |-> power, i |-> i, unit |-> unit]

\* Two names of one address, another address of this host, and the wildcard; a port by
\* its name and by its number, and one that the system chooses.
MCHostOf ==
    "localhost" :> LOOPBACK @@ "127.0.0.1" :> LOOPBACK @@ "0.0.0.0" :> ANY
        @@ "here" :> "10.0.0.1"
MCPortOf ==
    [protocol \in {"TCP", "UDP"} |-> "0" :> 0 @@ "7" :> 7 @@ "echo" :> 7 @@ "8" :> 8]
MCTaken == {Address("10.0.0.1", 8)}

\* An endpoint as most have it, one with a local part, and its mirror image.
Remote == <<"localhost", "7">>
Local == <<"here", "8">>

\* Endpoints that mean one another under other names, the mirror image of one of them,
\* an endpoint as in tests/TestNetTester.cpp, and a port left to the system.
Own == <<"127.0.0.1", "8">>
Wildcard == <<"0.0.0.0", "echo">>
Mirrored == <<"localhost", "echo">> \o Own
AsTested == <<"127.0.0.1", "0", "localhost", "7">>
AnyPort == <<"localhost", "0">>

\* Lines that set everything or nearly nothing, and lines that are rejected: by the
\* parser, for what they lack or contradict, and for a size that wraps to 0; and a
\* number that is too large for std::atoll.
MCLines ==
    {[connect |-> Remote, size |-> S(8, 1, TRUE, "B")],
     [connect |-> Local \o Remote, size |-> S(1, 0, FALSE, "B"), protocol |-> "udp"],
     [connect |-> <<"7">> \o Local, size |-> S(1, 0, FALSE, "B")],
     [connect |-> <<"here">>, size |-> S(1, 0, FALSE, "B")],
     [connect |-> <<"nowhere", "7">>, size |-> S(1, 0, FALSE, "B")],
     [listen |-> Remote, size |-> S(1, 0, FALSE, "B"), protocol |-> "udp"],
     [listen |-> Local \o Remote, size |-> S(3, 1, FALSE, "b"), mode |-> "rx",
      shutdown_policy |-> "wait_for_peer"],
     [connect |-> Remote \o Local, size |-> S(9, 0, FALSE, "bit"), mode |-> "tx",
      verify |-> "all", protocol |-> "udp", tx_bandwidth |-> S(4, 1, FALSE, "B"),
      rx_bandwidth |-> S(0, 0, FALSE, "B"), windows |-> S(1, 1, TRUE, "bit"),
      bandwidth_sampling_frequency |-> 10, duration_margin |-> "10s",
      max_datagram_size |-> R(64, 128)],
     [listen |-> Local, size |-> S(1, 0, FALSE, "B"), verify |-> "first",
      shutdown_policy |-> "receive_complete"],
     [listen |-> Wildcard, size |-> S(1, 0, FALSE, "B")],
     [connect |-> Wildcard, size |-> S(2000000, 0, FALSE, "B")],
     [connect |-> Own \o <<"localhost", "echo">>, size |-> S(1, 0, FALSE, "B")],
     [listen |-> Mirrored, size |-> S(1, 0, FALSE, "B")],
     [connect |-> AsTested, size |-> S(1, 0, FALSE, "B")],
     [listen |-> AnyPort, size |-> S(1, 0, FALSE, "B")],
     [listen |-> Remote],
     [connect |-> Remote, listen |-> Remote, size |-> S(1, 0, FALSE, "B")],
     [size |-> S(1, 0, FALSE, "B")],
     [connect |-> Remote, size |-> S(1, 2, TRUE, "B")],
     [connect |-> Remote, size |-> S(1, 1, TRUE, "b")],
     [connect |-> Remote, size |-> S(1, 0, FALSE, "B"), mode |-> "rx"],
     [connect |-> Remote, size |-> S(1, 0, FALSE, "B"), mode |-> "tx",
      shutdown_policy |-> "receive_complete"],
     [connect |-> Remote, size |-> S(1, 0, FALSE, "B"), verify |-> "some"],
     [connect |-> Remote, size |-> S(1, 0, FALSE, "B"),
      bandwidth_sampling_frequency |-> 0]}
=============================================================================
