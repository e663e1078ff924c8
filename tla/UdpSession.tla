----------------------------- MODULE UdpSession ------------------------------
(***************************************************************************)
(* One UDP session (src/UdpSession.cpp over src/UdpSocket.cpp).  Its       *)
(* socket is not connected: datagrams of any source and any content reach  *)
(* it, and nothing tells it what becomes of those that it sends.  There is *)
(* no end of the stream to wait for: a direction is complete as soon as it *)
(* has transferred its size.                                               *)
(***************************************************************************)
EXTENDS Session

CONSTANTS
    Configurations,     \* the configurations to start from
    DatagramSizes,      \* what packet_size, a range, allows a datagram to hold
    Datagrams,          \* the datagrams that may arrive
    RECEIVE_BUFFER,     \* datagrams that the system keeps for the socket,
    SEND_BUFFER         \* and those that it takes before a send blocks

ASSUME ConfigurationsAssumption ==
    \A c \in Configurations : c \in SessionConfiguration /\ Accepted(c)

\* A datagram fits the buffer at every offset, as async_send asserts.  It may be
\* empty: nothing keeps a range of sizes from containing 0.
ASSUME DatagramsAssumption ==
    /\ DatagramSizes # {}
    /\ \A size \in DatagramSizes :
            size \in Nat /\ size + BYTE_VALUES - 1 <= BUFFER_SIZE
    /\ Datagrams \subseteq Seq(Byte)
    /\ RECEIVE_BUFFER \in Nat /\ SEND_BUFFER \in Nat

VARIABLES
    session,    \* the session, a SessionState
    arrived,    \* datagrams that the socket holds, in order of arrival
    outgoing,   \* datagrams handed to the network
    head,       \* receive_buffer_[0]
    strange     \* whether a byte out of its place was received, or an empty datagram

vars == <<session, arrived, outgoing, head, strange>>

TypeOK ==
    /\ session \in SessionState
    /\ arrived \in Seq(Seq(Byte))
    /\ outgoing \in Seq(Seq(Byte))
    /\ head \in Byte
    /\ strange \subseteq {"wrong", "empty"}

-----------------------------------------------------------------------------
(* Receiving                                                               *)

async_receive(st, slice_remaining_size) ==
    IF slice_remaining_size = 0
    THEN begin(st, "receive_throttle")
    ELSE begin([st EXCEPT !.receive_slice = slice_remaining_size], "receive")

finish_receive(st) == on_receive_complete(st)

\* Session::verify: FIRST looks at the first byte of the buffer also when the
\* datagram had none, and finds what an earlier one left there.
verify_datagram(st, data) ==
    IF data # <<>> THEN verify(st, data)
    ELSE IF st.configuration.verify = "FIRST" THEN verify(st, <<head>>) ELSE st

\* Faulty variant: one byte too few.
on_receive_short(st, c) ==
    IF c.failure # "success" THEN abort(st, c.failure)
    ELSE LET verified == received(verify_datagram(st, c.data), c.data)
         IN  IF verified.received + 1 < st.configuration.size
             THEN async_receive(verified, st.receive_slice - Len(c.data))
             ELSE finish_receive(verified)

\* Faulty variant: counted before it is verified.
on_receive_counting_first(st, c) ==
    IF c.failure # "success" THEN abort(st, c.failure)
    ELSE LET verified == verify_datagram(received(st, c.data), c.data)
         IN  IF verified.received < st.configuration.size
             THEN async_receive(verified, st.receive_slice - Len(c.data))
             ELSE finish_receive(verified)

\* Session::on_receive: a mismatch does not keep the session from finishing.
on_receive(st, c) ==
    CASE c.failure = "operation_aborted" -> st
      [] c.failure \notin {"success", "operation_aborted"} ->
            abort(st, c.failure)
      [] c.failure = "success" ->
            LET verified == received(verify_datagram(st, c.data), c.data)
            IN  IF verified.received < st.configuration.size
                THEN async_receive(verified, st.receive_slice - Len(c.data))
                ELSE finish_receive(verified)

-----------------------------------------------------------------------------
(* Sending                                                                 *)

async_send(st, slice_remaining_size) ==
    IF slice_remaining_size = 0
    THEN begin(st, "send_throttle")
    ELSE begin([st EXCEPT !.send_slice =
                    Least(slice_remaining_size, st.configuration.size - st.sent)],
               "send")

\* Faulty variant: every datagram starts with the first byte of the buffer.
send_offset_of_buffer(st) == 0

send_offset(st) == st.sent % BYTE_VALUES

\* One of them is drawn for each datagram.
get_max_datagram_size == DatagramSizes

datagrams_to_send(st) ==
    {BytesToSend(send_offset(st), Least(st.send_slice, max)) :
        max \in get_max_datagram_size}

\* Faulty variant: the method of the base class, which completes nothing.
finish_send_of_base(st) == st

finish_send(st) == on_send_complete(st)

\* Session::on_send
on_send(st, c) ==
    CASE c.failure = "operation_aborted" -> st
      [] c.failure \notin {"success", "operation_aborted"} ->
            abort(st, c.failure)
      [] c.failure = "success" ->
            LET sending == sent(st, c.data)
            IN  IF sending.sent < st.configuration.size
                THEN async_send(sending, st.send_slice - Len(c.data))
                ELSE finish_send(sending)

\* The handlers of BandwidthThrottle::delay.
on_receive_slice(st, c) ==
    IF c.failure # "success" THEN st
    ELSE async_receive(st, st.configuration.receive_slice)

on_send_slice(st, c) ==
    IF c.failure # "success" THEN st
    ELSE async_send(st, st.configuration.send_slice)

start_receiving(st) ==
    IF st.configuration.direction = "TX" THEN finish_receive(st)
    ELSE async_receive(st, 0)

start_sending(st) ==
    IF st.configuration.direction = "RX" THEN finish_send(st)
    ELSE async_send(st, 0)

start_transfer(st) == start_sending(start_receiving(st))

-----------------------------------------------------------------------------
\* The constructor, which opens the socket, and UdpSession::initialize.
new(c) ==
    [configuration |-> c, socket |-> "connected",
     waiting |-> {"signal"}, ready |-> <<>>,
     memory |-> [m \in HandlerMemory |-> 0],
     receive_slice |-> 0, send_slice |-> 0, received |-> 0, sent |-> 0,
     is_receive_complete |-> FALSE, is_send_complete |-> FALSE,
     failure |-> "success", exit_requested |-> FALSE]

initialize(c) == post(new(c), done("start", "success", <<>>))

Init ==
    /\ \E c \in Configurations : session = initialize(c)
    /\ arrived = <<>>
    /\ outgoing = <<>>
    /\ head = 0
    /\ strange = {}

Running == ~session.exit_requested
Waits(op) == Running /\ op \in session.waiting

-----------------------------------------------------------------------------
(* Completions, which the thread's polling finds.                          *)

\* What exceeds the buffer that the receive was given, the rest of its slice, is
\* cut off the datagram and lost.
receive_size == Least(session.receive_slice, BUFFER_SIZE)

oddities(st, data) ==
    {oddity \in {"wrong", "empty"} :
        CASE oddity = "wrong" ->
                \E i \in DOMAIN data : data[i] # Pattern(st.received + i - 1)
          [] oddity = "empty" -> data = <<>>}

ReceivesDatagram ==
    /\ Waits("receive")
    /\ arrived # <<>>
    /\ LET datagram == Head(arrived)
           taken == SubSeq(datagram, 1, Least(receive_size, Len(datagram)))
       IN  /\ session' = complete(session, done("receive", "success", taken))
           /\ head' = IF taken = <<>> THEN head ELSE taken[1]
           /\ strange' = strange \cup oddities(session, taken)
    /\ arrived' = Tail(arrived)
    /\ UNCHANGED outgoing

SendsDatagram ==
    /\ Waits("send")
    /\ Len(outgoing) < SEND_BUFFER
    /\ \E datagram \in datagrams_to_send(session) :
        /\ session' = complete(session, done("send", "success", datagram))
        /\ outgoing' = Append(outgoing, datagram)
    /\ UNCHANGED <<arrived, head, strange>>

SendFails ==
    /\ Waits("send")
    /\ session' = complete(session, done("send", "network_unreachable", <<>>))
    /\ UNCHANGED <<arrived, outgoing, head, strange>>

TimerExpires(op) ==
    /\ Waits(op)
    /\ session' = complete(session, done(op, "success", <<>>))
    /\ UNCHANGED <<arrived, outgoing, head, strange>>

SignalArrives(number) ==
    /\ Waits("signal")
    /\ session' = complete(session, done("signal", "success", <<number>>))
    /\ UNCHANGED <<arrived, outgoing, head, strange>>

-----------------------------------------------------------------------------
(* Handlers                                                                *)

Dispatches(op) == Running /\ session.ready # <<>> /\ Head(session.ready).op = op

HandleStart ==
    /\ Dispatches("start")
    /\ session' = start_transfer(start_timer(dispatch(session)))
    /\ UNCHANGED <<arrived, outgoing, head, strange>>

HandleReceiveThrottle ==
    /\ Dispatches("receive_throttle")
    /\ session' = on_receive_slice(dispatch(session), Head(session.ready))
    /\ UNCHANGED <<arrived, outgoing, head, strange>>

HandleReceive ==
    /\ Dispatches("receive")
    /\ session' = on_receive(dispatch(session), Head(session.ready))
    /\ UNCHANGED <<arrived, outgoing, head, strange>>

HandleSendThrottle ==
    /\ Dispatches("send_throttle")
    /\ session' = on_send_slice(dispatch(session), Head(session.ready))
    /\ UNCHANGED <<arrived, outgoing, head, strange>>

HandleSend ==
    /\ Dispatches("send")
    /\ session' = on_send(dispatch(session), Head(session.ready))
    /\ UNCHANGED <<arrived, outgoing, head, strange>>

HandleTimeout ==
    /\ Dispatches("timeout")
    /\ session' = on_timeout(dispatch(session), Head(session.ready))
    /\ UNCHANGED <<arrived, outgoing, head, strange>>

HandleSignal ==
    /\ Dispatches("signal")
    /\ session' = on_signal(dispatch(session), Head(session.ready))
    /\ UNCHANGED <<arrived, outgoing, head, strange>>

Handle ==
    \/ HandleStart
    \/ HandleReceiveThrottle \/ HandleReceive
    \/ HandleSendThrottle \/ HandleSend
    \/ HandleTimeout \/ HandleSignal

-----------------------------------------------------------------------------
(* The network, and the other sessions of the application.                 *)

Arrives(datagram) ==
    /\ Running
    /\ session.socket = "connected"
    /\ Len(arrived) < RECEIVE_BUFFER
    /\ arrived' = Append(arrived, datagram)
    /\ UNCHANGED <<session, outgoing, head, strange>>

Departs ==
    /\ outgoing # <<>>
    /\ outgoing' = Tail(outgoing)
    /\ UNCHANGED <<session, arrived, head, strange>>

ExitRequestedElsewhere ==
    /\ Running
    /\ session' = [session EXCEPT !.exit_requested = TRUE]
    /\ UNCHANGED <<arrived, outgoing, head, strange>>

Complete ==
    \/ ReceivesDatagram \/ SendsDatagram \/ SendFails
    \/ TimerExpires("receive_throttle") \/ TimerExpires("send_throttle")
    \/ TimerExpires("timeout")
    \/ \E number \in Signal : SignalArrives(number)

Environment ==
    \/ \E datagram \in Datagrams : Arrives(datagram)
    \/ Departs \/ ExitRequestedElsewhere

Next == Complete \/ Handle \/ Environment

Spec == Init /\ [][Next]_vars

\* A thread polls while the session has work, and time passes.
Fairness ==
    /\ WF_vars(Handle)
    /\ WF_vars(TimerExpires("timeout"))

FairSpec == Spec /\ Fairness

-----------------------------------------------------------------------------
(* Properties                                                              *)

ReceiveLane == {"start", "receive_throttle", "receive"}
SendLane == {"start", "send_throttle", "send"}
Free(st, lane) == Outstanding(st) \cap lane = {}

\* Each direction has one operation outstanding at most, and none that only a
\* connection has.  The timer is started by the handler that starts the transfer.
LaneInv(st) ==
    /\ {"connect", "eof"} \cap Outstanding(st) = {}
    /\ \A lane \in {ReceiveLane, SendLane} :
            \A a, b \in Outstanding(st) \cap lane : a = b
    /\ "start" \in Outstanding(st) => "timeout" \notin Outstanding(st)

\* A session is closed when both directions are complete, and then nothing of it
\* waits any more: the timer that start_timer() started before the transfer is
\* cancelled with the rest.
CompleteInv(st) ==
    /\ st.is_receive_complete => Free(st, ReceiveLane)
    /\ st.is_send_complete => Free(st, SendLane)
    /\ st.socket = "closed" <=> st.is_receive_complete /\ st.is_send_complete
    /\ st.socket = "closed" => st.waiting = {}

\* Only a session that closes its socket cancels, and only its timer and its signal;
\* only a send fails.
AbortedInv(st) ==
    /\ st.failure \notin {"operation_aborted", "eof"}
    /\ \A c \in Queued(st) :
            /\ c.failure = "operation_aborted" =>
                    c.op \in {"signal", "timeout"} /\ st.socket = "closed"
            /\ c.failure = "network_unreachable" => c.op = "send"
            /\ c.failure \in {"success", "operation_aborted", "network_unreachable"}

\* Slices and counters.  A send never exceeds the size, a receive may.
SizeInv(st) ==
    /\ \A c \in Queued(st) :
            /\ c.op = "receive" => Len(c.data) <= st.receive_slice
            /\ c.op = "send" => Len(c.data) <= st.send_slice
    /\ st.sent <= st.configuration.size
    /\ "send" \in Outstanding(st) =>
            st.sent + st.send_slice <= st.configuration.size
    /\ st.is_receive_complete =>
            \/ st.configuration.direction = "TX"
            \/ st.received >= st.configuration.size
    /\ st.is_send_complete =>
            \/ st.configuration.direction = "RX"
            \/ st.sent = st.configuration.size

\* Until the exit is requested each direction is complete or under way, and until the
\* session is closed it waits for a signal.
ProgressInv(st) ==
    /\ st.failure # "success" => st.exit_requested
    /\ \/ st.exit_requested
       \/ /\ st.is_receive_complete \/ ~Free(st, ReceiveLane)
          /\ st.is_send_complete \/ ~Free(st, SendLane)
          /\ st.socket = "closed" \/ "signal" \in Outstanding(st)

CoreInv(st) ==
    /\ st \in SessionState
    /\ QueueInv(st)
    /\ MemoryInv(st)
    /\ LaneInv(st)
    /\ CompleteInv(st)
    /\ AbortedInv(st)
    /\ SizeInv(st)

ControlInv ==
    /\ TypeOK
    /\ CoreInv(session)
    /\ ProgressInv(session)

\* Verification of datagrams is exact but for one case: a mismatch that FIRST reports
\* of a datagram without a byte is about a byte that was received before.
VerificationExact ==
    /\ session.failure = "data_mismatch" =>
            \/ session.configuration.verify # "NONE" /\ "wrong" \in strange
            \/ session.configuration.verify = "FIRST" /\ "empty" \in strange
    /\ (session.configuration.verify = "ALL" /\ "wrong" \in strange /\ Running) =>
            \E c \in Queued(session) : c.op = "receive"

\* A UDP session keeps the same promise to the application as a TCP session,
\* although a mismatch in its last datagram makes it fail and finish at once.
OutcomeOf(st) ==
    [status |-> IF st.socket # "closed" THEN "active"
                ELSE IF stopped(st) THEN "idle" ELSE "finished",
     failure |-> st.failure]

Promise == INSTANCE SessionOutcome WITH
                outcome <- OutcomeOf(session),
                exit_requested <- session.exit_requested

KeepsPromise == Promise!Spec

\* Whatever arrives and whatever becomes of what it sends, the session comes to an
\* end, by its timer if nothing else: also when it sends nothing but empty
\* datagrams, or when an empty datagram leaves it as it was.
EventuallyEnds == <>(stopped(session) \/ session.exit_requested)
=============================================================================
