------------------------------- MODULE TcpPair -------------------------------
(***************************************************************************)
(* Two testers, each its own process, at the two ends of one TCP           *)
(* connection: what one session sends is what the other receives, and the  *)
(* peer that TcpSession leaves free is here another TcpSession.  It is how *)
(* the program is meant to be used, one end with --listen and the other    *)
(* with --connect.  The network neither loses nor changes a byte.          *)
(***************************************************************************)
EXTENDS Session

CONSTANTS
    Tests,          \* the configurations of the two ends, and the conditions
    ROOM,           \* bytes in flight in each direction
    EXCESS          \* at least the difference of the sizes of two ends

\* Two ends that both send and receive, or a receiver and a sender.
ASSUME TestsAssumption ==
    \A test \in Tests :
        /\ \A c \in {test[1], test[2]} : c \in SessionConfiguration /\ Accepted(c)
        /\ <<test[1].direction, test[2].direction>>
                \in {<<"BOTH", "BOTH">>, <<"RX", "TX">>, <<"TX", "RX">>}
ASSUME NetworkAssumption == ROOM \in Nat /\ EXCESS \in Nat

VARIABLES
    sessionA, inboundA, outboundA, peerA,
    sessionB, inboundB, outboundB, peerB,
    condition       \* "calm" or "disturbed"

endA == <<sessionA, inboundA, outboundA, peerA>>
endB == <<sessionB, inboundB, outboundB, peerB>>
vars == <<endA, endB, condition>>

Configurations == {test[1] : test \in Tests} \cup {test[2] : test \in Tests}

A == INSTANCE TcpSession WITH
        session <- sessionA, inbound <- inboundA,
        outbound <- outboundA, peer <- peerA
B == INSTANCE TcpSession WITH
        session <- sessionB, inbound <- inboundB,
        outbound <- outboundB, peer <- peerB

\* One end listens before the other connects, and the connection is made.
Init ==
    /\ \E test \in Tests :
        /\ sessionA \in A!initialize(test[1])
        /\ sessionB \in B!initialize(test[2])
        /\ condition = test[3]
    /\ sessionA.socket # "unconnected" /\ sessionB.socket # "unconnected"
    /\ inboundA = <<>> /\ outboundA = <<>>
    /\ inboundB = <<>> /\ outboundB = <<>>
    /\ peerA = [sent |-> 0, corrupted |-> {}, end |-> "open"]
    /\ peerB = peerA

-----------------------------------------------------------------------------
(* Each end: its completions and handlers, as in TcpSession.               *)

StepA ==
    /\ \/ A!ConnectSucceeds \/ A!Handle
       \/ A!ReceivesData("receive") \/ A!ReceiveFails("receive")
       \/ A!ReceivesData("eof") \/ A!ReceiveFails("eof")
       \/ A!SendsData \/ A!SendFails
       \/ A!TimerExpires("receive_throttle") \/ A!TimerExpires("send_throttle")
    /\ UNCHANGED <<endB, condition>>

StepB ==
    /\ \/ B!ConnectSucceeds \/ B!Handle
       \/ B!ReceivesData("receive") \/ B!ReceiveFails("receive")
       \/ B!ReceivesData("eof") \/ B!ReceiveFails("eof")
       \/ B!SendsData \/ B!SendFails
       \/ B!TimerExpires("receive_throttle") \/ B!TimerExpires("send_throttle")
    /\ UNCHANGED <<endA, condition>>

-----------------------------------------------------------------------------
(* The network.                                                            *)

DeliversToB ==
    /\ outboundA # <<>>
    /\ A!PeerReads
    /\ B!PeerSends(Head(outboundA))
    /\ UNCHANGED condition
DeliversToA ==
    /\ outboundB # <<>>
    /\ B!PeerReads
    /\ A!PeerSends(Head(outboundB))
    /\ UNCHANGED condition

\* The end of a stream follows its last byte.  A process that exits closes its
\* socket, whatever the session was doing with it.
Ended(st) == st.socket \in {"shutdown", "closed"} \/ st.exit_requested

EndsToB ==
    /\ Ended(sessionA)
    /\ outboundA = <<>>
    /\ B!PeerShutsDown
    /\ UNCHANGED <<endA, condition>>
EndsToA ==
    /\ Ended(sessionB)
    /\ outboundB = <<>>
    /\ A!PeerShutsDown
    /\ UNCHANGED <<endB, condition>>

\* A process that exits before it read everything resets the connection, and so
\* does the arrival of a byte for a process that is gone.
ResetsB ==
    /\ sessionA.exit_requested
    /\ inboundA # <<>> \/ outboundB # <<>>
    /\ B!PeerResets
    /\ UNCHANGED <<endA, condition>>
ResetsA ==
    /\ sessionB.exit_requested
    /\ inboundB # <<>> \/ outboundA # <<>>
    /\ A!PeerResets
    /\ UNCHANGED <<endB, condition>>

Network == DeliversToB \/ DeliversToA \/ EndsToB \/ EndsToA \/ ResetsB \/ ResetsA

\* What ends a test early: the timer of one end.  A signal or another session of
\* the same process would have the same effect on the other end.
Interruption ==
    /\ condition = "disturbed"
    /\ \/ A!TimerExpires("timeout") /\ UNCHANGED endB
       \/ B!TimerExpires("timeout") /\ UNCHANGED endA
    /\ UNCHANGED condition

Transfer == StepA \/ StepB \/ Network
Next == Transfer \/ Interruption

Spec == Init /\ [][Next]_vars

\* Threads poll, throttles expire and the network delivers: as long as one of the
\* three can, one of them does.
Fairness == WF_vars(Transfer)

FairSpec == Spec /\ Fairness

-----------------------------------------------------------------------------
(* Properties.  Nothing tells one end the size of the other one.           *)

Policy(st) == st.configuration.shutdown_policy
Size(st) == st.configuration.size
Succeeded(st) == stopped(st) /\ ~st.exit_requested

\* The two ends agree on the stream: whatever the slices, the partial reads and
\* writes and the ends of the buffers, neither sees a wrong byte, or one too many
\* unless the other end was told to send more.
Agrees(st, other) ==
    /\ st.failure # "data_mismatch"
    /\ st.failure = "unexpected_data" => Size(other) > Size(st)
StreamsAgree == Agrees(sessionA, sessionB) /\ Agrees(sessionB, sessionA)

\* What the success of an end says of the other one.  An end that receives has read
\* all that the other end will ever have sent, bytes beyond its own size included.
\* And unless the other end shut down because it had sent everything, it received
\* all that was sent to it, if it was told the same size.  (An end that exits early
\* also ends its stream, so it has to be alive.)
Complete(st, accepted) ==
    (Succeeded(st) /\ st.configuration.direction # "TX") =>
        st.received = accepted /\ accepted >= Size(st)
Confirms(st, other) ==
    (/\ Succeeded(st) /\ ~other.exit_requested
     /\ Policy(other) # "SEND_COMPLETE" /\ Size(st) = Size(other)) =>
        other.received = st.sent
SuccessConfirmed ==
    /\ Complete(sessionA, B!BytesAccepted)
    /\ Complete(sessionB, A!BytesAccepted)
    /\ Confirms(sessionA, sessionB) /\ Confirms(sessionB, sessionA)

\* The only ends that ever stop sending too early are one that sends and receives,
\* and shuts down because of what it received, as WAIT_FOR_PEER and RECEIVE_COMPLETE
\* do not look at what is still to be sent (TcpSession.cpp:84, 106), and one that
\* was told to send more than the other end receives.  It fails with broken_pipe and
\* the other end with unexpected_eof; everything else that an end observes follows
\* from the other process having gone.
ShutsDownEarly(st, other) ==
    /\ Policy(st) # "SEND_COMPLETE"
    /\ st.configuration.direction = "BOTH" \/ Size(other) < Size(st)
Explained(st, other) ==
    /\ st.failure = "broken_pipe" =>
            other.exit_requested \/ ShutsDownEarly(st, other)
    /\ st.failure = "unexpected_eof" =>
            \/ other.exit_requested \/ ShutsDownEarly(other, st)
            \/ Size(other) < Size(st)
    /\ st.failure = "connection_reset" => other.exit_requested
FailuresExplained == Explained(sessionA, sessionB) /\ Explained(sessionB, sessionA)

\* Two ends that both wait for their peer wait for each other: neither completes
\* while the other one runs.
BothWaitForPeer ==
    (Policy(sessionA) = "WAIT_FOR_PEER" /\ Policy(sessionB) = "WAIT_FOR_PEER") =>
        /\ sessionA.is_receive_complete => sessionB.exit_requested
        /\ sessionB.is_receive_complete => sessionA.exit_requested

\* Policies that fit together bring a transfer to its end at both ends and without
\* their timers, when its time suffices and nobody interrupts it.  An end that
\* sends and receives must not shut down because of what it received, and a sender
\* must not wait for a receiver that waits for it.
Fits ==
    /\ condition = "calm"
    /\ Size(sessionA) = Size(sessionB)
    /\ ~ShutsDownEarly(sessionA, sessionB) /\ ~ShutsDownEarly(sessionB, sessionA)
    /\ {Policy(sessionA), Policy(sessionB)} # {"WAIT_FOR_PEER"}
BothSucceed == Fits ~> (Succeeded(sessionA) /\ Succeeded(sessionB))
=============================================================================
