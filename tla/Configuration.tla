---------------------------- MODULE Configuration ----------------------------
(***************************************************************************)
(* From the command line to the sockets: the cores that the threads are    *)
(* pinned to and the file with one session per line (src/Executable.cpp),  *)
(* and the addresses that each session then uses (src/Socket.hpp).         *)
(* The text of an option is a token: a word, a size as [count, power, i,   *)
(* unit] (`8KiB' is [8, 1, TRUE, "B"]), a pair of them for a range, or the *)
(* parts of an endpoint between its colons.                                *)
(***************************************************************************)
EXTENDS Integers, FiniteSets, Sequences, SequencesExt

CONSTANTS
    SIZE_VALUES,    \* number of values of a uint64_t
    CORE_VALUES,    \* number of values of a CpuCoreId, a uint32_t
    CoreOptions,    \* texts of --cpu-cores: sequences of ranges
    Lines,          \* lines that a file may hold, functions from options to tokens
    MAX_LINES,
    INT_VALUES,     \* number of values of an int
    HostOf,         \* the address that the resolver finds first for a host,
    PortOf,         \* the port of a service, by the protocol,
    EPHEMERAL,      \* the ports that the system chooses from,
    Taken           \* and the addresses that other programs listen on

VARIABLES
    state,          \* of Executable::run
    cores,          \* what --cpu-cores asks for, and the ids made of it
    lines,          \* the lines read so far
    c,              \* the one object that every line is parsed into
    configurations, \* what became of each,
    sockets         \* and the sockets opened for them so far

configVars == <<state, cores, lines, c, configurations, sockets>>

Core == 0 .. CORE_VALUES - 1

-----------------------------------------------------------------------------
(* Sizes, words and ranges                                                 *)

\* The text that the regular expressions of parse_size match: a number, a prefix
\* (of power 0 when there is none), and a unit.
SizeText == [count : Nat, power : 0 .. 6, i : BOOLEAN, unit : {"B", "b", "bit"}]
matches_iec(t) == (t.power = 0 <=> ~t.i) /\ t.unit \in {"B", "bit"}
matches_si(t) == ~t.i
is_size(t) == t \in SizeText /\ (matches_iec(t) \/ matches_si(t))

\* std::atoll knows no number above that of a long long.
atoll(count) ==
    IF count < SIZE_VALUES \div 2 THEN count ELSE (SIZE_VALUES \div 2) - 1

parse_size(t) ==
    LET factor == IF matches_iec(t) THEN 1024 ELSE 1000
        size == (atoll(t.count) * factor^t.power) % SIZE_VALUES
    IN  IF t.unit = "B" THEN size ELSE size \div 8

VerifyOf == [none |-> "NONE", first |-> "FIRST", all |-> "ALL"]
DirectionOf == [tx |-> "TX", rx |-> "RX", both |-> "BOTH"]
ShutdownPolicyOf == [wait_for_peer |-> "WAIT_FOR_PEER",
                     send_complete |-> "SEND_COMPLETE",
                     receive_complete |-> "RECEIVE_COMPLETE"]
ProtocolOf == [tcp |-> "TCP", udp |-> "UDP"]

\* The ids of a range.  Counting up from the lower bound ends at the upper one,
\* wherever that is.  Nothing is read into a bound whose text is empty, and its
\* value is then any.
as_sequence(range) ==
    [k \in 1 .. (((range.high - range.low) % CORE_VALUES) + 1) |->
        (range.low + k - 1) % CORE_VALUES]

\* The text of a range is one bound, or two: <<id>>, or <<>> when it is empty.
reads(text, id) == text = <<>> \/ text = <<id>>
readings(text) ==
    {range \in [low : Core, high : Core] :
        /\ reads(text[1], range.low)
        /\ IF Len(text) = 1 THEN range.high = range.low
                            ELSE reads(text[2], range.high)}

\* Faulty variant: no id is removed.
unique_nothing(sequence) == sequence

\* std::unique
unique(sequence) ==
    FoldLeft(LAMBDA kept, id : IF kept # <<>> /\ Last(kept) = id
                               THEN kept ELSE Append(kept, id),
             <<>>, sequence)

to_cpu_core_list(ranges) ==
    unique(FlattenSeq([r \in DOMAIN ranges |-> as_sequence(ranges[r])]))

-----------------------------------------------------------------------------
(* One line                                                                *)

given(line, option) == option \in DOMAIN line
value(line, option, default) ==
    IF given(line, option) THEN line[option] ELSE default

SizeOptions == {"size", "tx_bandwidth", "rx_bandwidth", "windows"}
WordOptions == [verify |-> DOMAIN VerifyOf, mode |-> DOMAIN DirectionOf,
                shutdown_policy |-> DOMAIN ShutdownPolicyOf,
                protocol |-> DOMAIN ProtocolOf]
OtherOptions == {"connect", "listen", "bandwidth_sampling_frequency",
                 "duration_margin", "max_datagram_size"}

\* An endpoint has at least one part, if only an empty one.
ASSUME LinesAssumption ==
    \A line \in Lines : \A option \in {"connect", "listen"} :
        given(line, option) => line[option] \in Seq(STRING) \ {<<>>}

\* What the parser of program_options accepts.
parses(line) ==
    /\ DOMAIN line \subseteq SizeOptions \cup DOMAIN WordOptions \cup OtherOptions
    /\ \A option \in SizeOptions : given(line, option) => is_size(line[option])
    /\ \A option \in DOMAIN WordOptions :
            given(line, option) => line[option] \in WordOptions[option]

size_of(line, option, default) ==
    IF given(line, option) THEN parse_size(line[option]) ELSE default

DEFAULT_BANDWIDTH == 128 * 1000 * 1000
DEFAULT_DATAGRAM == 65472

\* po::notify stores the options of the line, and the default of the others that
\* have one.
notify(conf, line) ==
    [conf EXCEPT
        !.endpoint = value(line, "connect", value(line, "listen", @)),
        !.size = size_of(line, "size", @),
        !.protocol = ProtocolOf[value(line, "protocol", "tcp")],
        !.send_bandwidth = size_of(line, "tx_bandwidth", DEFAULT_BANDWIDTH),
        !.receive_bandwidth = size_of(line, "rx_bandwidth", DEFAULT_BANDWIDTH),
        !.bandwidth_sampling_frequency =
            value(line, "bandwidth_sampling_frequency", 1000),
        !.verify = VerifyOf[value(line, "verify", "none")],
        !.direction = DirectionOf[value(line, "mode", "both")],
        !.windows = size_of(line, "windows", 0),
        !.duration_margin = value(line, "duration_margin", "not_a_date_time"),
        !.packet_size = value(line, "max_datagram_size",
                              [low |-> DEFAULT_DATAGRAM, high |-> DEFAULT_DATAGRAM]),
        !.shutdown_policy =
            ShutdownPolicyOf[value(line, "shutdown_policy", "send_complete")]]

\* Faulty variant: a receiver may wait for the end of what it does not send.
accepts_rx_send_complete(conf, line) ==
    /\ ~(given(line, "connect") /\ given(line, "listen"))
    /\ conf.bandwidth_sampling_frequency # 0
    /\ given(line, "size") /\ conf.size # 0
    /\ ~(conf.direction = "TX" /\ conf.shutdown_policy = "RECEIVE_COMPLETE")
    /\ given(line, "connect") \/ given(line, "listen")

\* Faulty variant: any size will do, that of the line before included.
accepts_size_of_before(conf, line) ==
    /\ ~(given(line, "connect") /\ given(line, "listen"))
    /\ conf.bandwidth_sampling_frequency # 0
    /\ conf.size # 0
    /\ ~(conf.direction = "TX" /\ conf.shutdown_policy = "RECEIVE_COMPLETE")
    /\ ~(conf.direction = "RX" /\ conf.shutdown_policy = "SEND_COMPLETE")
    /\ given(line, "connect") \/ given(line, "listen")

accepts(conf, line) ==
    /\ ~(given(line, "connect") /\ given(line, "listen"))
    /\ conf.bandwidth_sampling_frequency # 0
    /\ given(line, "size") /\ conf.size # 0
    /\ ~(conf.direction = "TX" /\ conf.shutdown_policy = "RECEIVE_COMPLETE")
    /\ ~(conf.direction = "RX" /\ conf.shutdown_policy = "SEND_COMPLETE")
    /\ given(line, "connect") \/ given(line, "listen")

fill_configuration(conf, line) ==
    [notify(conf, line) EXCEPT
        !.mode = IF given(line, "connect") THEN "CLIENT" ELSE "SERVER"]

\* SessionConfiguration c{}, and what a move leaves of it.
ZERO ==
    [mode |-> "CLIENT", verify |-> "NONE", direction |-> "RX", endpoint |-> <<>>,
     send_bandwidth |-> 0, receive_bandwidth |-> 0,
     bandwidth_sampling_frequency |-> 0, windows |-> 0, size |-> 0,
     packet_size |-> [low |-> 0, high |-> 0],
     duration_margin |-> "zero", shutdown_policy |-> "WAIT_FOR_PEER",
     protocol |-> "UDP"]

moved_from(conf) == [conf EXCEPT !.endpoint = <<>>]

-----------------------------------------------------------------------------
(* Endpoints and sockets                                                   *)

\* Hosts and services may have several names, and none is empty.
ASSUME ResolverAssumption ==
    /\ HostOf \in [DOMAIN HostOf -> STRING] /\ "" \notin DOMAIN HostOf
    /\ \A protocol \in {"TCP", "UDP"} :
            /\ PortOf[protocol] \in [DOMAIN PortOf[protocol] -> Nat]
            /\ "" \notin DOMAIN PortOf[protocol]
    /\ EPHEMERAL \subseteq Nat \ {0}

ANY == "0.0.0.0"
Address(host, port) == [host |-> host, port |-> port]

\* An endpoint is `remote host:port', after a local port, or a local host and port.
resolves(protocol, endpoint) ==
    LET n == Len(endpoint)
    IN  /\ n \in 2 .. 4
        /\ \A k \in {n, n - 2} \cap 1 .. n : endpoint[k] \in DOMAIN PortOf[protocol]
        /\ \A k \in {n - 1, n - 3} \cap 1 .. n : endpoint[k] \in DOMAIN HostOf

\* A local port that is not given is one that the system chooses, and a local host
\* that is not given is any address of this one.
resolve(protocol, endpoint) ==
    LET n == Len(endpoint)
        port(service) == PortOf[protocol][service]
    IN  [local |->
            CASE n = 2 -> Address(ANY, 0)
              [] n = 3 -> Address(ANY, port(endpoint[1]))
              [] n = 4 -> Address(HostOf[endpoint[1]], port(endpoint[2])),
         remote |-> Address(HostOf[endpoint[n - 1]], port(endpoint[n]))]

ends(conf) == resolve(conf.protocol, conf.endpoint)

\* An int of the size asked for, of any size.
to_int(size) ==
    LET low == size % INT_VALUES
    IN  IF low < INT_VALUES \div 2 THEN low ELSE low - INT_VALUES

\* Faulty variant: a listener listens on its local part.
bound_locally(conf) == ends(conf).local

\* A client binds the local part, and a listener the remote one: what it has of a
\* local part is ignored.
bound(conf) == IF conf.mode = "SERVER" THEN ends(conf).remote ELSE ends(conf).local

\* The system chooses the port of an address that has none.
ports(address) == IF address.port = 0 THEN EPHEMERAL ELSE {address.port}

open(conf, port) ==
    [protocol |-> conf.protocol,
     listens |-> conf.mode = "SERVER",
     bound |-> Address(bound(conf).host, port),
     peer |-> IF conf.mode = "SERVER" THEN <<>> ELSE <<ends(conf).remote>>,
     buffers |-> IF conf.windows = 0 THEN <<>> ELSE <<to_int(conf.windows)>>]

\* Addresses are reused (SO_REUSEADDR), except for those that somebody listens on.
overlap(a, b) == a.port = b.port /\ (a.host = b.host \/ ANY \in {a.host, b.host})

listened(protocol, address) ==
    /\ protocol = "TCP"
    /\ \/ \E a \in Taken : overlap(a, address)
       \/ \E n \in DOMAIN sockets :
            sockets[n].listens /\ overlap(sockets[n].bound, address)

opens(conf) ==
    /\ resolves(conf.protocol, conf.endpoint)
    /\ ~(conf.protocol = "UDP" /\ conf.mode = "SERVER")

free(conf) ==
    {port \in ports(bound(conf)) :
        ~listened(conf.protocol, Address(bound(conf).host, port))}

-----------------------------------------------------------------------------

ConfigInit ==
    /\ state = "options"
    /\ cores = [ranges |-> <<>>, ids |-> <<>>]
    /\ lines = <<>>
    /\ c = ZERO
    /\ configurations = <<>>
    /\ sockets = <<>>

ParsesOptions ==
    /\ state = "options"
    /\ state' = "lines"
    /\ \E text \in CoreOptions :
        \E ranges \in [DOMAIN text -> [low : Core, high : Core]] :
            /\ \A r \in DOMAIN text : ranges[r] \in readings(text[r])
            /\ cores' = [ranges |-> ranges, ids |-> to_cpu_core_list(ranges)]
    /\ UNCHANGED <<lines, c, configurations, sockets>>

\* --help, which also ends in an exception, or anything that is no option.
RefusesOptions ==
    /\ state = "options"
    /\ state' = "exception"
    /\ UNCHANGED <<cores, lines, c, configurations, sockets>>

\* A line that is rejected, with an exception, ends the program before any session
\* is created.
ReadsLine ==
    /\ state = "lines"
    /\ Len(lines) < MAX_LINES
    /\ \E line \in Lines :
        /\ lines' = Append(lines, line)
        /\ IF parses(line) /\ accepts(notify(c, line), line)
           THEN /\ configurations' =
                        Append(configurations, fill_configuration(c, line))
                /\ c' = moved_from(fill_configuration(c, line))
                /\ UNCHANGED state
           ELSE /\ state' = "exception"
                /\ UNCHANGED <<c, configurations>>
    /\ UNCHANGED <<cores, sockets>>

\* Application::run follows; at once when the file cannot be opened.
EndsOfFile ==
    /\ state = "lines"
    /\ state' = "run"
    /\ UNCHANGED <<cores, lines, c, configurations, sockets>>

\* The sessions are created in the order of the lines.  What cannot be opened ends the
\* program with an exception; for the system may have its own reasons to refuse,
\* as for an address of another host, this may happen to any of them.
OpensSocket ==
    /\ state = "run"
    /\ Len(sockets) < Len(configurations)
    /\ LET conf == configurations[Len(sockets) + 1]
       IN  \/ /\ opens(conf)
              /\ \E port \in free(conf) : sockets' = Append(sockets, open(conf, port))
              /\ UNCHANGED state
           \/ state' = "exception" /\ UNCHANGED sockets
    /\ UNCHANGED <<cores, lines, c, configurations>>

ConfigNext == ParsesOptions \/ RefusesOptions \/ ReadsLine \/ EndsOfFile \/ OpensSocket

ConfigSpec == ConfigInit /\ [][ConfigNext]_configVars

-----------------------------------------------------------------------------
(* Properties                                                              *)

\* Although all lines are parsed into one object, which each of them leaves moved
\* from, a session is what its own line says: nothing of a line before it remains.
LinesIndependent ==
    state # "exception" =>
        /\ Len(configurations) = Len(lines)
        /\ \A n \in DOMAIN lines :
                configurations[n] = fill_configuration(ZERO, lines[n])

\* Every session that is created, whatever was left to its defaults, has what the
\* sessions are written for: the configurations that Session.tla calls accepted,
\* and a frequency that the throttles can divide by.
Sessions == INSTANCE Session WITH BYTE_VALUES <- 256, BUFFER_SIZE <- 128 * 1024

SessionsAccepted ==
    \A n \in DOMAIN configurations :
        /\ Sessions!Accepted(configurations[n])
        /\ configurations[n].bandwidth_sampling_frequency # 0
        /\ configurations[n].endpoint # <<>>

\* Where a client sends to.  From an address of this host to any is to that one.
LOOPBACK == "127.0.0.1"
Destination(socket) ==
    [socket.peer[1] EXCEPT !.host =
        IF @ # ANY THEN @
        ELSE IF socket.bound.host # ANY THEN socket.bound.host ELSE LOOPBACK]

Answers(address, destination) ==
    address.port = destination.port /\ address.host \in {destination.host, ANY}

\* What n sends arrives at m.  Over TCP it asks at once, and who listens by then answers.
Reaches(n, m) ==
    /\ ~sockets[n].listens /\ sockets[m].protocol = sockets[n].protocol
    /\ Answers(sockets[m].bound, Destination(sockets[n]))
    /\ sockets[n].protocol = "TCP" => sockets[m].listens /\ m < n

SameEnd(a, b) == SubSeq(a, Len(a) - 1, Len(a)) = SubSeq(b, Len(b) - 1, Len(b))
Mirrors(a, b) == Len(a) = 4 /\ b = SubSeq(a, 3, 4) \o SubSeq(a, 1, 2)

\* The sessions of a file that are meant for each other find each other, whatever names
\* their addresses have.  A client reaches the listener before it whose endpoint
\* ends like its own, and it reaches nobody else, in this program or in others.
ListenersFound ==
    \A m, n \in DOMAIN sockets :
        LET a == configurations[m]  b == configurations[n]
        IN  (/\ m < n /\ sockets[m].listens
             /\ ~sockets[n].listens /\ sockets[n].protocol = "TCP"
             /\ SameEnd(a.endpoint, b.endpoint) /\ ends(a).remote.port # 0)
            => Reaches(n, m)

NobodyElse ==
    \A n \in DOMAIN sockets :
        sockets[n].protocol = "TCP" =>
            \A m \in DOMAIN sockets :
                Reaches(n, m) =>
                    /\ \A k \in DOMAIN sockets : Reaches(n, k) => k = m
                    /\ \A a \in Taken : ~Answers(a, Destination(sockets[n]))

\* Of two endpoints of four parts each, one with its halves exchanged, the sessions
\* send their datagrams to one another; but over TCP the one that listens is not the
\* other one's peer: it listens on the very address that the other one binds.
MirrorsMeet ==
    \A m, n \in DOMAIN sockets :
        LET a == configurations[m]  b == configurations[n]
        IN  (/\ Mirrors(a.endpoint, b.endpoint) /\ a.protocol = b.protocol
             /\ ends(a).remote.port # 0 /\ ends(a).local.port # 0)
            => IF a.protocol = "UDP" THEN Reaches(m, n) /\ Reaches(n, m)
               ELSE ~Reaches(m, n) /\ ~Reaches(n, m)

EndpointsMeet == ListenersFound /\ NobodyElse /\ MirrorsMeet

\* A core is listed once for each range that has it, whatever the order of the ranges
\* and also where they overlap, less once for each range that starts with it where the
\* one before ends ("Remove duplicate", Ranges.ipp:84, removes no others).
Has(range, id) ==
    (id - range.low) % CORE_VALUES <= (range.high - range.low) % CORE_VALUES

CoresListed ==
    LET ranges == cores.ranges
    IN  \A id \in Core :
            Cardinality({k \in DOMAIN cores.ids : cores.ids[k] = id})
                = Cardinality({r \in DOMAIN ranges : Has(ranges[r], id)})
                    - Cardinality({r \in DOMAIN ranges \ {1} :
                            ranges[r - 1].high = id /\ ranges[r].low = id})
=============================================================================
