------------------------------- MODULE UdpPair -------------------------------
(***************************************************************************)
(* Two testers that exchange datagrams over a network that may lose,       *)
(* reorder and repeat them: what one session sends is what reaches the     *)
(* other.                                                                  *)
(***************************************************************************)
EXTENDS Session, SequencesExt, FiniteSets

CONSTANTS
    Tests,          \* the configurations of the two ends, and the network
    DatagramSizes,  \* of both ends
    RECEIVE_BUFFER, \* datagrams that the system keeps for a socket,
    SEND_BUFFER     \* and those of one end that may be in the network

ASSUME TestsAssumption ==
    \A test \in Tests :
        \A c \in {test[1], test[2]} : c \in SessionConfiguration /\ Accepted(c)

\* A datagram fits the buffer at every offset, as async_send asserts.
ASSUME SizesAssumption ==
    /\ DatagramSizes # {}
    /\ \A size \in DatagramSizes :
            size \in Nat /\ size + BYTE_VALUES - 1 <= BUFFER_SIZE
    /\ RECEIVE_BUFFER \in Nat /\ SEND_BUFFER \in Nat

VARIABLES
    sessionA, arrivedA, outgoingA, headA, strangeA,
    sessionB, arrivedB, outgoingB, headB, strangeB,
    network         \* "ideal", "lossy" or "repeating"

endA == <<sessionA, arrivedA, outgoingA, headA, strangeA>>
endB == <<sessionB, arrivedB, outgoingB, headB, strangeB>>
vars == <<endA, endB, network>>

Configurations == {test[1] : test \in Tests} \cup {test[2] : test \in Tests}
Datagrams == {}

A == INSTANCE UdpSession WITH
        session <- sessionA, arrived <- arrivedA, outgoing <- outgoingA,
        head <- headA, strange <- strangeA
B == INSTANCE UdpSession WITH
        session <- sessionB, arrived <- arrivedB, outgoing <- outgoingB,
        head <- headB, strange <- strangeB

Init ==
    /\ \E test \in Tests :
        /\ sessionA = A!initialize(test[1])
        /\ sessionB = B!initialize(test[2])
        /\ network = test[3]
    /\ arrivedA = <<>> /\ outgoingA = <<>> /\ headA = 0 /\ strangeA = {}
    /\ arrivedB = <<>> /\ outgoingB = <<>> /\ headB = 0 /\ strangeB = {}

-----------------------------------------------------------------------------
(* Each end: its completions and handlers, as in UdpSession.               *)

StepA ==
    /\ \/ A!Handle \/ A!ReceivesDatagram \/ A!SendsDatagram
       \/ A!TimerExpires("receive_throttle") \/ A!TimerExpires("send_throttle")
    /\ UNCHANGED <<endB, network>>

StepB ==
    /\ \/ B!Handle \/ B!ReceivesDatagram \/ B!SendsDatagram
       \/ B!TimerExpires("receive_throttle") \/ B!TimerExpires("send_throttle")
    /\ UNCHANGED <<endA, network>>

-----------------------------------------------------------------------------
(* The network.                                                            *)

\* The datagram that the network delivers or loses next.
Deliverable(outgoing) == IF network = "ideal" THEN {1} \cap DOMAIN outgoing
                   ELSE DOMAIN outgoing

DeliversToB ==
    \E i \in Deliverable(outgoingA) :
        /\ B!Arrives(outgoingA[i])
        /\ outgoingA' = RemoveAt(outgoingA, i)
        /\ UNCHANGED <<sessionA, arrivedA, headA, strangeA, network>>

DeliversToA ==
    \E i \in Deliverable(outgoingB) :
        /\ A!Arrives(outgoingB[i])
        /\ outgoingB' = RemoveAt(outgoingB, i)
        /\ UNCHANGED <<sessionB, arrivedB, headB, strangeB, network>>

\* In the network, for want of room in the socket, or because the other end is not
\* there yet or no longer.
Loses ==
    /\ network # "ideal"
    /\ \/ \E i \in Deliverable(outgoingA) :
            outgoingA' = RemoveAt(outgoingA, i) /\ UNCHANGED outgoingB
       \/ \E i \in Deliverable(outgoingB) :
            outgoingB' = RemoveAt(outgoingB, i) /\ UNCHANGED outgoingA
    /\ UNCHANGED <<sessionA, arrivedA, headA, strangeA,
                   sessionB, arrivedB, headB, strangeB, network>>

Repeats ==
    /\ network = "repeating"
    /\ \/ \E i \in Deliverable(outgoingA) : B!Arrives(outgoingA[i]) /\ UNCHANGED endA
       \/ \E i \in Deliverable(outgoingB) : A!Arrives(outgoingB[i]) /\ UNCHANGED endB
    /\ UNCHANGED network

Network == DeliversToB \/ DeliversToA \/ Loses \/ Repeats

\* The timer of an end, when something disturbs the test.
Interruption ==
    /\ network # "ideal"
    /\ \/ A!TimerExpires("timeout") /\ UNCHANGED endB
       \/ B!TimerExpires("timeout") /\ UNCHANGED endA
    /\ UNCHANGED network

Next == StepA \/ StepB \/ Network \/ Interruption

Spec == Init /\ [][Next]_vars

\* Threads poll, throttles expire, and the network delivers.
Fairness ==
    /\ WF_vars(StepA) /\ WF_vars(StepB)
    /\ WF_vars(DeliversToA) /\ WF_vars(DeliversToB)

FairSpec == Spec /\ Fairness

-----------------------------------------------------------------------------
(* Properties                                                              *)

Receives(st) == st.configuration.direction # "TX"
Sends(st) == st.configuration.direction # "RX"
Succeeded(st) == stopped(st) /\ ~st.exit_requested

\* Bytes in a direction of the session `st', those of a completion whose handler
\* has not run yet included, and bytes of datagrams.
Bytes(datagrams) ==
    Cardinality(UNION {{i} \X DOMAIN datagrams[i] : i \in DOMAIN datagrams})
Completed(st, op) ==
    Bytes([i \in DOMAIN st.ready |->
            IF st.ready[i].op = op THEN st.ready[i].data ELSE <<>>])
Sent(st) == st.sent + Completed(st, "send")
Received(st) == st.received + Completed(st, "receive")

\* Of what testers send, `--verify first' finds whatever `--verify all' would, unless
\* they send datagrams without a byte: a datagram is consecutive bytes of the
\* pattern, however it was cut, so that its first byte is right or all are wrong.
\* And no byte in its place is reported.
Detects(st, strange) ==
    st.configuration.verify # "NONE" =>
        /\ st.failure = "data_mismatch" => "wrong" \in strange
        /\ ("wrong" \in strange /\ ~st.exit_requested) =>
                \E c \in Queued(st) : c.op = "receive"
FirstSuffices ==
    0 \notin DatagramSizes =>
        Detects(sessionA, strangeA) /\ Detects(sessionB, strangeB)

\* The rest of its slice is all the room that a receive gives to a datagram.
\* Nothing is cut off when each slice that one end receives is a whole number of
\* the slices that the other end sends: datagrams do not cross their bounds.
Aligned(sender, receiver) ==
    /\ sender.configuration.send_slice > 0
    /\ receiver.configuration.receive_slice > 0
    /\ receiver.configuration.receive_slice % sender.configuration.send_slice = 0

\* On an ideal network such ends lose nothing by themselves: every byte that was
\* sent is received, waits in the socket or is on its way, and is verified.
Conserved(sender, receiver, outgoing, arrived, strange) ==
    (network = "ideal" /\ Aligned(sender, receiver)) =>
        /\ Sent(sender) = Received(receiver) + Bytes(arrived) + Bytes(outgoing)
        /\ "wrong" \notin strange
NothingCutOff ==
    /\ Conserved(sessionA, sessionB, outgoingA, arrivedB, strangeB)
    /\ Conserved(sessionB, sessionA, outgoingB, arrivedA, strangeA)

\* Unless the network repeats datagrams, an end that succeeds has received its size,
\* and nothing that its peer did not send: if both were told the same size, exactly
\* that, and its peer has sent everything.
SuccessExact(st, other) ==
    (network # "repeating" /\ Succeeded(st) /\ Receives(st)) =>
        /\ st.configuration.size <= st.received
        /\ st.received <= Sent(other)
        /\ Sent(other) <= other.configuration.size
SuccessIsExact ==
    SuccessExact(sessionA, sessionB) /\ SuccessExact(sessionB, sessionA)

\* A test that nothing disturbs comes to its end at both ends, when the slices fit
\* and both were told the same size.
Fits ==
    /\ network = "ideal"
    /\ sessionA.configuration.size = sessionB.configuration.size
    /\ Sends(sessionA) /\ Receives(sessionB) => Aligned(sessionA, sessionB)
    /\ Sends(sessionB) /\ Receives(sessionA) => Aligned(sessionB, sessionA)
BothSucceed == Fits ~> (Succeeded(sessionA) /\ Succeeded(sessionB))
=============================================================================
