------------------------------- MODULE Process -------------------------------
(***************************************************************************)
(* One process with two lines in its file, a TCP session and a UDP session *)
(* after it, on one thread or on a thread each: Application.tla with the   *)
(* handlers of the sessions themselves in place of their outcomes.  The    *)
(* peer of the one and the network of the other are as free as they are in *)
(* TcpSession and UdpSession.                                              *)
(*                                                                         *)
(* What a session calls exit_requested is here that its handlers are not   *)
(* called any more: it has aborted, or its thread has seen the flag.       *)
(***************************************************************************)
EXTENDS Session

CONSTANTS
    Tests,              \* the two sessions, and how many ids --cpu-cores has
    ROOM, EXCESS,       \* as in TcpSession
    DatagramSizes, Datagrams, RECEIVE_BUFFER, SEND_BUFFER   \* as in UdpSession

ASSUME TestsAssumption ==
    \A t \in Tests :
        /\ t.cores \in Nat
        /\ \A c \in {t.tcp, t.udp} : c \in SessionConfiguration /\ Accepted(c)
ASSUME EnvironmentAssumption == ROOM \in Nat /\ EXCESS \in Nat
ASSUME DatagramsAssumption ==
    /\ DatagramSizes # {}
    /\ \A size \in DatagramSizes :
            size \in Nat /\ size + BYTE_VALUES - 1 <= BUFFER_SIZE
    /\ Datagrams \subseteq Seq(Byte)
    /\ RECEIVE_BUFFER \in Nat /\ SEND_BUFFER \in Nat

VARIABLES
    test,               \* the one of Tests that the program runs with
    main, exit_requested, threads, io_stopped, exit_status, \* as in Application
    created,            \* how many of the sessions exist
    tcp, inbound, outbound, peer,                           \* the TCP session
    udp, arrived, outgoing, head, strange                   \* and the UDP session

program == <<main, exit_requested, threads, io_stopped, exit_status, created>>
ofTcp == <<tcp, inbound, outbound, peer>>
ofUdp == <<udp, arrived, outgoing, head, strange>>
vars == <<test, program, ofTcp, ofUdp>>

Tcp == INSTANCE TcpSession WITH
            session <- tcp, Configurations <- {t.tcp : t \in Tests}
Udp == INSTANCE UdpSession WITH
            session <- udp, Configurations <- {t.udp : t \in Tests}

\* What Application.tla knows of the sessions: the outcomes of those that exist,
\* and which of them have a signal in their queue.
Signalled(st) ==
    \E c \in Queued(st) : c.op = "signal" /\ c.failure = "success"

application(t) == [sessions |-> 2, cores |-> t.cores, missing |-> {}]

App == INSTANCE Application WITH
            Configurations <- {application(t) : t \in Tests},
            configuration <- application(test),
            Failures <- ErrorCode \ {"success", "user_interrupt",
                                     "program_termination", "unknown_signal"},
            sessions <- SubSeq(<<Tcp!OutcomeOf(tcp), Udp!OutcomeOf(udp)>>, 1, created),
            signalled <- {s \in 1 .. created : Signalled(<<tcp, udp>>[s])}

Init ==
    /\ test \in Tests
    /\ main = "creating"
    /\ exit_requested = FALSE
    /\ threads = [t \in App!Thread |-> "none"]
    /\ io_stopped = {}
    /\ exit_status = App!NoStatus
    /\ created = 0
    /\ tcp \in Tcp!initialize(test.tcp)
    /\ inbound = <<>> /\ outbound = <<>>
    /\ peer = [sent |-> 0, corrupted |-> {}, end |-> "open"]
    /\ udp = Udp!initialize(test.udp)
    /\ arrived = <<>> /\ outgoing = <<>> /\ head = 0 /\ strange = {}

Alive == main # "ended"
RunsTcp(t) == App!io_service(1) = t
RunsUdp(t) == App!io_service(2) = t

-----------------------------------------------------------------------------
(* The main thread.                                                        *)

CreatesSession ==
    /\ main = "creating"
    /\ created < 2
    /\ created' = created + 1
    /\ UNCHANGED <<test, main, exit_requested, threads, io_stopped, exit_status,
                   ofTcp, ofUdp>>

Main ==
    \/ CreatesSession
    \/ /\ UNCHANGED <<test, created, ofTcp, ofUdp>>
       /\ \/ App!CreationThrows \/ App!Joins
          \/ \E t \in App!Thread : App!StartsThread(t) \/ App!ThreadThrows(t)

-----------------------------------------------------------------------------
(* A thread.                                                               *)

\* Faulty variant: a session that has failed does not tell the others.
request_exit_not_if(aborted) == UNCHANGED exit_requested

request_exit_if(aborted) == exit_requested' = (exit_requested \/ aborted)

Pins(t) ==
    /\ UNCHANGED <<test, created, ofTcp, ofUdp>>
    /\ App!Pins(t)

leaves(t) == ~App!goes_on(t)

\* The thread that sees the flag calls no handler of its sessions any more.
Checks(t) ==
    /\ Alive
    /\ threads[t] = "check"
    /\ threads' = [threads EXCEPT ![t] = IF leaves(t) THEN "ended" ELSE "poll"]
    /\ tcp' = [tcp EXCEPT !.exit_requested =
                    @ \/ (exit_requested /\ leaves(t) /\ RunsTcp(t))]
    /\ udp' = [udp EXCEPT !.exit_requested =
                    @ \/ (exit_requested /\ leaves(t) /\ RunsUdp(t))]
    /\ UNCHANGED <<test, main, exit_requested, io_stopped, exit_status, created,
                   inbound, outbound, peer, arrived, outgoing, head, strange>>

\* Faulty variant: the io_service stops when there is nothing to do now.
out_of_work_now(t) == TRUE

out_of_work(t) ==
    (RunsTcp(t) => stopped(tcp)) /\ (RunsUdp(t) => stopped(udp))

\* poll_one() calls one handler of either session,
Handles(t) ==
    /\ Alive
    /\ threads[t] = "poll"
    /\ \/ RunsTcp(t) /\ Tcp!Handle /\ request_exit_if(tcp'.exit_requested)
                     /\ UNCHANGED ofUdp
       \/ RunsUdp(t) /\ Udp!Handle /\ request_exit_if(udp'.exit_requested)
                     /\ UNCHANGED ofTcp
    /\ threads' = [threads EXCEPT ![t] = "check"]
    /\ UNCHANGED <<test, main, io_stopped, exit_status, created>>

\* or finds none.
PollsNothing(t) ==
    /\ Alive
    /\ threads[t] = "poll"
    /\ RunsTcp(t) => tcp.ready = <<>>
    /\ RunsUdp(t) => udp.ready = <<>>
    /\ threads' = [threads EXCEPT ![t] = "check"]
    /\ io_stopped' = IF out_of_work(t) THEN io_stopped \cup {t} ELSE io_stopped
    /\ UNCHANGED <<test, main, exit_requested, exit_status, created, ofTcp, ofUdp>>

Run(t) == Pins(t) \/ Checks(t) \/ Handles(t) \/ PollsNothing(t)

-----------------------------------------------------------------------------
(* Signals, the peer and the network.                                      *)

queues_signal(st) ==
    IF "signal" \in st.waiting
    THEN complete(st, done("signal", "success", <<SIGINT>>)) ELSE st

SignalsSessions ==
    /\ Alive
    /\ created > 0
    /\ tcp' = queues_signal(tcp)
    /\ udp' = IF created = 2 THEN queues_signal(udp) ELSE udp
    /\ UNCHANGED <<test, program, inbound, outbound, peer,
                   arrived, outgoing, head, strange>>

SignalsProgram ==
    /\ UNCHANGED <<test, created, ofTcp, ofUdp>>
    /\ App!SignalsProgram

\* What was sent stays where it is: a send may take any time to complete, so that
\* nothing else depends on the room for it.
OutsideTcp ==
    /\ Alive /\ created >= 1
    /\ \/ Tcp!ConnectSucceeds \/ Tcp!ConnectFails
       \/ Tcp!ReceivesData("receive") \/ Tcp!ReceiveFails("receive")
       \/ Tcp!ReceivesData("eof") \/ Tcp!ReceiveFails("eof")
       \/ Tcp!SendsData \/ Tcp!SendFails
       \/ Tcp!TimerExpires("receive_throttle") \/ Tcp!TimerExpires("send_throttle")
       \/ \E byte \in Byte : Tcp!PeerSends(byte)
       \/ Tcp!PeerShutsDown \/ Tcp!PeerResets
    /\ UNCHANGED <<test, program, ofUdp>>

OutsideUdp ==
    /\ Alive /\ created = 2
    /\ \/ Udp!ReceivesDatagram \/ Udp!SendsDatagram \/ Udp!SendFails
       \/ Udp!TimerExpires("receive_throttle") \/ Udp!TimerExpires("send_throttle")
       \/ \E datagram \in Datagrams : Udp!Arrives(datagram)
    /\ UNCHANGED <<test, program, ofTcp>>

\* The timers that the sessions started.
Timeouts ==
    /\ Alive
    /\ \/ Tcp!TimerExpires("timeout") /\ UNCHANGED ofUdp
       \/ Udp!TimerExpires("timeout") /\ UNCHANGED ofTcp
    /\ UNCHANGED <<test, program>>

Next ==
    \/ Main
    \/ \E t \in App!Thread : Run(t)
    \/ SignalsProgram \/ SignalsSessions
    \/ OutsideTcp \/ OutsideUdp \/ Timeouts

Spec == Init /\ [][Next]_vars

\* The threads run and time passes: nothing is assumed of the peer, the network and
\* the throttles.  The main thread and the timers take finitely many steps, so that
\* fairness of either is fairness of each.
Fairness ==
    /\ WF_vars(Main \/ Timeouts)
    /\ \A t \in App!AnyThread : WF_vars(t \in App!Thread /\ Run(t))

FairSpec == Spec /\ Fairness

-----------------------------------------------------------------------------
(* Properties                                                              *)

\* The handlers of two sessions that share a process do together what
\* Application.tla says of it: what it shows of any number of sessions with nothing
\* but outcomes it shows of real ones.
ImplementsApplication == App!Spec

\* A program that is not interrupted before it has sessions, and returns 0, has sent
\* and received the size of every line of its file.
Transferred(st) ==
    /\ st.socket = "closed"
    /\ st.configuration.direction # "RX" => st.sent = st.configuration.size
    /\ st.configuration.direction # "TX" => st.received >= st.configuration.size
ZeroMeansTransferred ==
    (exit_status = "success" /\ ~exit_requested) => Transferred(tcp) /\ Transferred(udp)

\* The program ends by itself whatever its peers do: every session has a timer, and
\* the failure of one session ends the other, whose thread may be another one.
AlwaysEnds == <>(main = "ended")
=============================================================================
