----------------------------- MODULE TcpSession ------------------------------
(***************************************************************************)
(* One TCP session (src/TcpSession.cpp over src/TcpSocket.cpp) connected   *)
(* to any peer at all: the peer sends right or wrong bytes, too few or too *)
(* many of them, shuts its side down, resets the connection, or is silent. *)
(* Time is abstracted: a timer expires at any moment once it is started.   *)
(***************************************************************************)
EXTENDS Session

CONSTANTS
    Configurations, \* the configurations to start from
    ROOM,           \* bytes the peer leaves unread before a send blocks
    EXCESS          \* bound on what the peer sends beyond the size

ASSUME ConfigurationsAssumption ==
    \A c \in Configurations : c \in SessionConfiguration /\ Accepted(c)
ASSUME EnvironmentAssumption == ROOM \in Nat /\ EXCESS \in Nat

VARIABLES
    session,    \* the session, a SessionState
    inbound,    \* bytes on their way from the peer, in order
    outbound,   \* bytes accepted from the session, not yet read by the peer
    peer        \* the peer: bytes sent so far, the positions of the wrong
                \* ones among them, and how its sending side ended

vars == <<session, inbound, outbound, peer>>

TypeOK ==
    /\ session \in SessionState
    /\ inbound \in Seq(Byte)
    /\ outbound \in Seq(Byte)
    /\ peer \in [sent : Nat, corrupted : SUBSET Nat,
                 end : {"open", "fin", "reset"}]

-----------------------------------------------------------------------------
(* TcpSocket                                                               *)

\* An error of shutdown() is ignored.
shutdown_send(st) ==
    IF st.socket = "connected" THEN [st EXCEPT !.socket = "shutdown"] ELSE st

-----------------------------------------------------------------------------
(* Receiving                                                               *)

\* A slice that is used up waits for the throttle, which grants the next one.
async_receive(st, slice_remaining_size) ==
    IF slice_remaining_size = 0
    THEN begin(st, "receive_throttle")
    ELSE begin([st EXCEPT !.receive_slice = slice_remaining_size], "receive")

\* Faulty variant: the end of the peer's stream is not awaited.
finish_receive_without_eof(st) ==
    on_receive_complete(IF st.configuration.shutdown_policy = "RECEIVE_COMPLETE"
                        THEN shutdown_send(st) ELSE st)

\* What the peer sends beyond `size' completes the receive of one byte that is
\* left here to detect the end of its stream.
finish_receive(st) ==
    begin(IF st.configuration.shutdown_policy = "RECEIVE_COMPLETE"
          THEN shutdown_send(st) ELSE st, "eof")

\* Faulty variants: one byte too few, and counted before it is verified.
on_receive_short(st, c) ==
    IF c.failure # "success" THEN abort(st, c.failure)
    ELSE LET verified == received(verify(st, c.data), c.data)
         IN  IF verified.received + 1 < st.configuration.size
             THEN async_receive(verified, st.receive_slice - Len(c.data))
             ELSE finish_receive(verified)

on_receive_counting_first(st, c) ==
    IF c.failure # "success" THEN abort(st, c.failure)
    ELSE LET verified == verify(received(st, c.data), c.data)
         IN  IF verified.received < st.configuration.size
             THEN async_receive(verified, st.receive_slice - Len(c.data))
             ELSE finish_receive(verified)

on_receive(st, c) ==
    CASE c.failure = "operation_aborted" -> st
      [] c.failure = "eof" -> abort(st, "unexpected_eof")
      [] c.failure \notin {"success", "operation_aborted", "eof"} ->
            abort(st, c.failure)
      [] c.failure = "success" ->
            LET verified == received(verify(st, c.data), c.data)
            IN  IF verified.received < st.configuration.size
                THEN async_receive(verified, st.receive_slice - Len(c.data))
                ELSE finish_receive(verified)

on_eof(st, c) ==
    LET answered == IF st.configuration.shutdown_policy = "WAIT_FOR_PEER"
                    THEN shutdown_send(st) ELSE st
    IN  CASE c.failure = "eof"     -> on_receive_complete(answered)
          [] c.failure = "success" -> abort(answered, "unexpected_data")
          [] OTHER                 -> abort(answered, c.failure)

-----------------------------------------------------------------------------
(* Sending                                                                 *)

async_send(st, slice_remaining_size) ==
    IF slice_remaining_size = 0
    THEN begin(st, "send_throttle")
    ELSE begin([st EXCEPT !.send_slice =
                    Least(slice_remaining_size, st.configuration.size - st.sent)],
               "send")

\* Faulty variant: the offset does not follow the pattern.
send_offset_in_buffer(st) == st.sent % BUFFER_SIZE

\* The part of send_buffer_ that async_send hands to the socket.
send_offset(st) == st.sent % BYTE_VALUES
send_size(st) == Least(st.send_slice, BUFFER_SIZE - send_offset(st))

\* Faulty variant: the method of the base class, which completes nothing.
finish_send_of_base(st) ==
    IF st.configuration.shutdown_policy = "SEND_COMPLETE"
    THEN shutdown_send(st) ELSE st

\* Faulty variant: only RECEIVE_COMPLETE keeps the sending side open.
finish_send_eager(st) ==
    on_send_complete(IF st.configuration.shutdown_policy # "RECEIVE_COMPLETE"
                     THEN shutdown_send(st) ELSE st)

finish_send(st) ==
    on_send_complete(IF st.configuration.shutdown_policy = "SEND_COMPLETE"
                     THEN shutdown_send(st) ELSE st)

\* Faulty variant: a failure does not keep the handler from going on.
on_send_past_failure(st, c) ==
    LET checked == IF c.failure = "success" THEN st ELSE abort(st, c.failure)
        sending == sent(checked, c.data)
    IN  IF c.failure = "success" /\ sending.sent < st.configuration.size
        THEN async_send(sending, st.send_slice - Len(c.data))
        ELSE finish_send(sending)

\* Faulty variant: sending ends one byte early.
on_send_short(st, c) ==
    IF c.failure # "success" THEN abort(st, c.failure)
    ELSE LET sending == sent(st, c.data)
         IN  IF sending.sent + 1 < st.configuration.size
             THEN async_send(sending, st.send_slice - Len(c.data))
             ELSE finish_send(sending)

on_send(st, c) ==
    CASE c.failure = "operation_aborted" -> st
      [] c.failure \notin {"success", "operation_aborted"} ->
            abort(st, c.failure)
      [] c.failure = "success" ->
            LET sending == sent(st, c.data)
            IN  IF sending.sent < st.configuration.size
                THEN async_send(sending, st.send_slice - Len(c.data))
                ELSE finish_send(sending)

\* The handlers of BandwidthThrottle::delay.
on_receive_slice(st, c) ==
    IF c.failure # "success" THEN st
    ELSE async_receive(st, st.configuration.receive_slice)

on_send_slice(st, c) ==
    IF c.failure # "success" THEN st
    ELSE async_send(st, st.configuration.send_slice)

start_receiving(st) ==
    IF st.configuration.direction = "TX" THEN finish_receive(st)
    ELSE async_receive(st, 0)

start_sending(st) ==
    IF st.configuration.direction = "RX" THEN finish_send(st)
    ELSE async_send(st, 0)

\* The handlers of async_connect and async_accept ignore their error.
start_transfer(st) == start_sending(start_receiving(st))

-----------------------------------------------------------------------------
\* TcpSession::initialize waits for a signal, opens the socket, which may find
\* the outcome of the connection at once, and posts the start of the timer.
new(c) ==
    [configuration |-> c, socket |-> "connecting",
     waiting |-> {"signal", "connect"}, ready |-> <<>>,
     memory |-> [m \in HandlerMemory |-> 0],
     receive_slice |-> 0, send_slice |-> 0, received |-> 0, sent |-> 0,
     is_receive_complete |-> FALSE, is_send_complete |-> FALSE,
     failure |-> "success", exit_requested |-> FALSE]

connected(st) ==
    [complete(st, done("connect", "success", <<>>)) EXCEPT !.socket = "connected"]

refused(st) ==
    [complete(st, done("connect", "connection_refused", <<>>))
        EXCEPT !.socket = "unconnected"]

initialize(c) ==
    {post(opened, done("start", "success", <<>>)) :
        opened \in {new(c), connected(new(c)), refused(new(c))}}

Init ==
    /\ \E c \in Configurations : session \in initialize(c)
    /\ inbound = <<>>
    /\ outbound = <<>>
    /\ peer = [sent |-> 0, corrupted |-> {}, end |-> "open"]

Running == ~session.exit_requested
Waits(op) == Running /\ op \in session.waiting

-----------------------------------------------------------------------------
(* Completions, which the thread's polling finds.                          *)

ConnectSucceeds ==
    /\ Waits("connect")
    /\ session' = connected(session)
    /\ UNCHANGED <<inbound, outbound, peer>>

ConnectFails ==
    /\ Waits("connect")
    /\ session' = refused(session)
    /\ UNCHANGED <<inbound, outbound, peer>>

\* A receive takes what has arrived, up to the buffer it was given.
receive_size(op) ==
    IF op = "eof" THEN 1 ELSE Least(session.receive_slice, BUFFER_SIZE)

ReceivesData(op) ==
    /\ Waits(op)
    /\ session.socket \in {"connected", "shutdown"}
    /\ \E n \in 1 .. Least(receive_size(op), Len(inbound)) :
        /\ session' = complete(session,
                               done(op, "success", SubSeq(inbound, 1, n)))
        /\ inbound' = SubSeq(inbound, n + 1, Len(inbound))
    /\ UNCHANGED <<outbound, peer>>

ReceiveFails(op) ==
    /\ Waits(op)
    /\ \E failure \in {"eof", "connection_reset", "not_connected"} :
        /\ \/ /\ session.socket \in {"connected", "shutdown"}
              /\ \/ failure = "eof" /\ peer.end = "fin" /\ inbound = <<>>
                 \/ failure = "connection_reset" /\ peer.end = "reset"
           \/ session.socket = "unconnected" /\ failure # "connection_reset"
        /\ session' = complete(session, done(op, failure, <<>>))
    /\ UNCHANGED <<inbound, outbound, peer>>

SendsData ==
    /\ Waits("send")
    /\ session.socket = "connected"
    /\ peer.end # "reset"
    /\ \E n \in 1 .. Least(send_size(session), ROOM - Len(outbound)) :
        LET data == BytesToSend(send_offset(session), n)
        IN  /\ session' = complete(session, done("send", "success", data))
            /\ outbound' = outbound \o data
    /\ UNCHANGED <<inbound, peer>>

SendFails ==
    /\ Waits("send")
    /\ \E failure \in {"broken_pipe", "connection_reset"} :
        /\ \/ failure = "broken_pipe" /\ session.socket \in {"shutdown", "unconnected"}
           \/ peer.end = "reset"
        /\ session' = complete(session, done("send", failure, <<>>))
    /\ UNCHANGED <<inbound, outbound, peer>>

TimerExpires(op) ==
    /\ Waits(op)
    /\ session' = complete(session, done(op, "success", <<>>))
    /\ UNCHANGED <<inbound, outbound, peer>>

SignalArrives(number) ==
    /\ Waits("signal")
    /\ session' = complete(session, done("signal", "success", <<number>>))
    /\ UNCHANGED <<inbound, outbound, peer>>

-----------------------------------------------------------------------------
(* Handlers: io_service::poll_one dispatches the first completion.         *)

\* Faulty variant: the thread polls until its io_service stops.
Dispatches_after_exit(op) == session.ready # <<>> /\ Head(session.ready).op = op

Dispatches(op) == Running /\ session.ready # <<>> /\ Head(session.ready).op = op

HandleStart ==
    /\ Dispatches("start")
    /\ session' = start_timer(dispatch(session))
    /\ UNCHANGED <<inbound, outbound, peer>>

HandleConnect ==
    /\ Dispatches("connect")
    /\ session' = start_transfer(dispatch(session))
    /\ UNCHANGED <<inbound, outbound, peer>>

HandleReceiveThrottle ==
    /\ Dispatches("receive_throttle")
    /\ session' = on_receive_slice(dispatch(session), Head(session.ready))
    /\ UNCHANGED <<inbound, outbound, peer>>

HandleReceive ==
    /\ Dispatches("receive")
    /\ session' = on_receive(dispatch(session), Head(session.ready))
    /\ UNCHANGED <<inbound, outbound, peer>>

HandleEof ==
    /\ Dispatches("eof")
    /\ session' = on_eof(dispatch(session), Head(session.ready))
    /\ UNCHANGED <<inbound, outbound, peer>>

HandleSendThrottle ==
    /\ Dispatches("send_throttle")
    /\ session' = on_send_slice(dispatch(session), Head(session.ready))
    /\ UNCHANGED <<inbound, outbound, peer>>

HandleSend ==
    /\ Dispatches("send")
    /\ session' = on_send(dispatch(session), Head(session.ready))
    /\ UNCHANGED <<inbound, outbound, peer>>

HandleTimeout ==
    /\ Dispatches("timeout")
    /\ session' = on_timeout(dispatch(session), Head(session.ready))
    /\ UNCHANGED <<inbound, outbound, peer>>

HandleSignal ==
    /\ Dispatches("signal")
    /\ session' = on_signal(dispatch(session), Head(session.ready))
    /\ UNCHANGED <<inbound, outbound, peer>>

Handle ==
    \/ HandleStart \/ HandleConnect
    \/ HandleReceiveThrottle \/ HandleReceive \/ HandleEof
    \/ HandleSendThrottle \/ HandleSend
    \/ HandleTimeout \/ HandleSignal

-----------------------------------------------------------------------------
(* The peer, and the other sessions of the application.  What happens to   *)
(* the connection once the exit is requested no longer reaches the session. *)

expected_of_peer(st) ==
    IF st.configuration.direction = "TX" THEN 0 ELSE st.configuration.size

PeerSends(byte) ==
    /\ Running
    /\ session.socket \notin {"connecting", "unconnected"}
    /\ peer.end = "open"
    /\ peer.sent < expected_of_peer(session) + EXCESS
    /\ inbound' = Append(inbound, byte)
    /\ peer' = [peer EXCEPT
                    !.sent = @ + 1,
                    !.corrupted = IF byte = Pattern(peer.sent)
                                  THEN @ ELSE @ \cup {peer.sent}]
    /\ UNCHANGED <<session, outbound>>

PeerShutsDown ==
    /\ Running
    /\ session.socket \notin {"connecting", "unconnected"}
    /\ peer.end = "open"
    /\ peer' = [peer EXCEPT !.end = "fin"]
    /\ UNCHANGED <<session, inbound, outbound>>

\* What is in flight may be lost with the connection, or may have arrived.
PeerResets ==
    /\ Running
    /\ session.socket \notin {"connecting", "unconnected"}
    /\ peer.end # "reset"
    /\ peer' = [peer EXCEPT !.end = "reset"]
    /\ UNCHANGED <<session, inbound, outbound>>

PeerReads ==
    /\ outbound # <<>>
    /\ outbound' = Tail(outbound)
    /\ UNCHANGED <<session, inbound, peer>>

\* The abort of another session, or a signal that reached one first.
ExitRequestedElsewhere ==
    /\ Running
    /\ session' = [session EXCEPT !.exit_requested = TRUE]
    /\ UNCHANGED <<inbound, outbound, peer>>

Complete ==
    \/ ConnectSucceeds \/ ConnectFails
    \/ ReceivesData("receive") \/ ReceiveFails("receive")
    \/ ReceivesData("eof") \/ ReceiveFails("eof")
    \/ SendsData \/ SendFails
    \/ TimerExpires("receive_throttle") \/ TimerExpires("send_throttle")
    \/ TimerExpires("timeout")
    \/ \E number \in Signal : SignalArrives(number)

Environment ==
    \/ \E byte \in Byte : PeerSends(byte)
    \/ PeerShutsDown \/ PeerResets \/ PeerReads
    \/ ExitRequestedElsewhere

Next == Complete \/ Handle \/ Environment

Spec == Init /\ [][Next]_vars

\* A thread polls while the session has work, and time passes; nothing says
\* that the peer ever acts or that a signal arrives.
Fairness ==
    /\ WF_vars(Handle)
    /\ WF_vars(TimerExpires("timeout"))

FairSpec == Spec /\ Fairness

-----------------------------------------------------------------------------
(* Properties                                                              *)

ReceiveLane == {"connect", "receive_throttle", "receive", "eof"}
SendLane == {"connect", "send_throttle", "send"}


\* The buffers and the handler memory of a direction serve one operation at a
\* time: receive_buffer_, send_buffer_ and each HandlerMemory are never shared by
\* two outstanding operations (HandlerAllocator.hpp:43 asserts it with a flag
\* that nothing sets).
HandlerMemoryExclusive ==
    /\ \A m \in HandlerMemory : session.memory[m] \in 0 .. 1
    /\ \A lane \in {ReceiveLane, SendLane} :
            \A a, b \in Outstanding(session) \cap lane : a = b

\* Closing the socket, at the end of both directions, never cancels an operation
\* of the session's own on it, whose handler would then report the cancellation
\* as the result of the test: on_eof, unlike on_receive and on_send, does not
\* look for operation_aborted.
NeverAbortsItself ==
    /\ session.failure # "operation_aborted"
    /\ \A c \in Queued(session) :
            c.failure = "operation_aborted" => c.op \in {"signal", "timeout"}

\* A session that finished leaves nothing behind that keeps its io_service, and
\* the thread that joins on it, alive: on_finish runs after start_timer, whose
\* timer it cancels.
FinishedLeavesNothing ==
    session.socket = "closed" =>
        /\ session.waiting = {}
        /\ \A c \in Queued(session) : c.op \in {"signal", "timeout"}

\* The thread stops because the session ran out of work, with the status
\* "Success", only when both directions went to their end.
SuccessMeansTransferred ==
    (stopped(session) /\ Running) =>
        /\ session.failure = "success"
        /\ session.socket = "closed"
        /\ session.configuration.direction # "RX" =>
                session.sent = session.configuration.size
        /\ session.configuration.direction # "TX" =>
                session.received >= session.configuration.size

\* A session that finished has received exactly what the peer ever sent, up to
\* the end of the peer's stream: no byte was dropped between two receives.
FinishedReceivedAll ==
    session.socket = "closed" =>
        session.received = peer.sent /\ inbound = <<>> /\ peer.end # "open"

\* Verification is exact.  With ALL, no wrong byte is received without a failure;
\* data_mismatch is never reported of a stream without one; NONE never does.
VerificationExact ==
    LET mismatch == {p \in peer.corrupted : p < session.received}
    IN  /\ session.configuration.verify = "ALL" /\ mismatch # {} =>
                session.failure = "data_mismatch"
        /\ session.failure = "data_mismatch" =>
                mismatch # {} /\ session.configuration.verify # "NONE"

\* Bytes that the socket accepted, those of a completed send whose handler has
\* not run yet included.
BytesAccepted ==
    session.sent + IF \E c \in Queued(session) : c.op = "send"
                   THEN Len((CHOOSE c \in Queued(session) : c.op = "send").data)
                   ELSE 0

\* However sends are split by slices, by the end of send_buffer_ and by partial
\* writes, the peer reads one unbroken pattern that never exceeds the size.
SendsPattern ==
    LET first == BytesAccepted - Len(outbound)
    IN  /\ \A i \in DOMAIN outbound : outbound[i] = Pattern(first + i - 1)
        /\ BytesAccepted <= session.configuration.size

\* The first failure of a session is the one that it reports: the handlers that
\* were queued behind it do not run.
FailureIsFinal ==
    [][session.failure # "success" => session'.failure = session.failure]_vars

\* What the application sees of the session, and that it is what SessionOutcome
\* promises.
OutcomeOf(st) ==
    [status |-> IF st.socket # "closed" THEN "active"
                ELSE IF stopped(st) THEN "idle" ELSE "finished",
     failure |-> st.failure]

Promise == INSTANCE SessionOutcome WITH
                outcome <- OutcomeOf(session),
                exit_requested <- session.exit_requested

KeepsPromise == Promise!Spec

\* Whatever the peer does or leaves undone, the session comes to an end: it runs
\* out of work, or the exit of the application is requested.
EventuallyEnds == <>(stopped(session) \/ session.exit_requested)

-----------------------------------------------------------------------------
(* The inductive invariant.  Its parts speak of a session record, so that  *)
(* they can be stated between the method calls of one handler too.         *)

Free(st, lane) == Outstanding(st) \cap lane = {}

\* Only the connection may be handled before the timer is started.
StartInv(st) ==
    /\ "start" \notin st.waiting
    /\ "start" \in Outstanding(st) => "timeout" \notin Outstanding(st)
    /\ \A i, j \in DOMAIN st.ready :
            (st.ready[i].op = "start" /\ j < i) => st.ready[j].op = "connect"

LaneInv(st) ==
    /\ \A a, b \in Outstanding(st) \cap ReceiveLane : a = b
    /\ \A a, b \in Outstanding(st) \cap SendLane : a = b

\* Only a session that closes its socket cancels, and only its signal and its timer;
\* only a receive finds the end of the stream.
AbortedInv(st) ==
    /\ st.failure \notin {"operation_aborted", "eof"}
    /\ \A c \in Queued(st) :
            /\ c.failure = "operation_aborted" =>
                    c.op \in {"signal", "timeout"} /\ st.socket = "closed"
            /\ c.failure = "eof" => c.op \in {"receive", "eof"}
            /\ c.op \in ThrottleOps => c.failure = "success"
            /\ c.op \in {"signal", "timeout"} =>
                    c.failure \in {"success", "operation_aborted"}

\* A direction is complete when nothing more is outstanding in its lane; when
\* both are, the session is closed and nothing at all waits.
CompleteInv(st) ==
    /\ st.is_receive_complete => Free(st, ReceiveLane)
    /\ st.is_send_complete => Free(st, SendLane)
    /\ st.socket = "closed" <=> st.is_receive_complete /\ st.is_send_complete
    /\ st.socket = "closed" => st.waiting = {} /\ "start" \notin Outstanding(st)

\* What slices, counters and the bytes of completed operations add up to.
ReceiveSizeInv(st) ==
    /\ \A c \in Queued(st) : c.op = "receive" => Len(c.data) <= st.receive_slice
    /\ (st.is_receive_complete \/ "eof" \in Outstanding(st)) =>
            \/ st.configuration.direction = "TX"
            \/ st.received >= st.configuration.size

SendSizeInv(st) ==
    /\ st.sent <= st.configuration.size
    /\ \A c \in Queued(st) : c.op = "send" => Len(c.data) <= st.send_slice
    /\ "send" \in Outstanding(st) =>
            st.sent + st.send_slice <= st.configuration.size
    /\ st.is_send_complete =>
            \/ st.configuration.direction = "RX"
            \/ st.sent = st.configuration.size

\* Until the exit is requested each direction is complete or under way, and until the
\* session is closed it waits for a signal.
ProgressInv(st) ==
    /\ st.failure # "success" => st.exit_requested
    /\ \/ st.exit_requested
       \/ /\ st.is_receive_complete \/ ~Free(st, ReceiveLane)
          /\ st.is_send_complete \/ ~Free(st, SendLane)
          /\ st.socket = "closed" \/ "signal" \in Outstanding(st)

CoreInv(st) ==
    /\ st \in SessionState
    /\ QueueInv(st)
    /\ StartInv(st)
    /\ LaneInv(st)
    /\ MemoryInv(st)
    /\ AbortedInv(st)
    /\ CompleteInv(st)
    /\ ReceiveSizeInv(st)
    /\ SendSizeInv(st)

ControlInv ==
    /\ TypeOK
    /\ CoreInv(session)
    /\ ProgressInv(session)

-----------------------------------------------------------------------------
(* The inductive invariant of the bytes, beside that of the control: where *)
(* in the streams of both directions everything that is on its way is.     *)

\* What has been received or sent, and waits for its handler.
InHand(st, ops) == {c \in Queued(st) : c.op \in ops}

Linked(st) == st.socket \notin {"connecting", "unconnected"}

\* The bytes from a position of the peer's stream on are wrong where it made them so.
Marked(bytes, first) ==
    \A i \in DOMAIN bytes :
        bytes[i] = Pattern(first + i - 1) <=> first + i - 1 \notin peer.corrupted

\* Only a transfer that succeeded holds bytes, and it holds some.
ResultInv ==
    \A c \in Queued(session) :
        /\ c.failure \in SystemError \cup {"success"}
        /\ c.op \in {"receive", "eof", "send"} => (c.failure = "success" <=> c.data # <<>>)

\* The peer's stream: what is received, what is in hand, and what is on its way.
StreamInv ==
    /\ \A p \in peer.corrupted : p < peer.sent
    /\ Marked(inbound, peer.sent - Len(inbound))
    /\ Running => \A c \in InHand(session, {"receive", "eof"}) :
            /\ session.received + Len(c.data) + Len(inbound) = peer.sent
            /\ Marked(c.data, session.received)
    /\ (Running \/ session.is_receive_complete) /\ InHand(session, {"receive", "eof"}) = {} =>
            session.received + Len(inbound) = peer.sent

\* Nothing is transferred without a connection, and an empty transfer is refused: no
\* session is closed before it was connected.
LinkInv ==
    /\ session.configuration.size # 0
    /\ "connect" \in session.waiting => session.socket = "connecting"
    /\ ~Linked(session) =>
            /\ session.received = 0 /\ session.sent = 0
            /\ \A c \in InHand(session, {"receive", "eof", "send"}) : c.data = <<>>

\* Whoever has read the end of the stream has left nothing before it unread.
EndInv ==
    (Linked(session) /\ \/ session.is_receive_complete
                        \/ \E c \in InHand(session, {"eof"}) : c.failure = "eof") =>
        inbound = <<>> /\ peer.end # "open"

\* What the peer has still to read ends where the socket accepted the last byte.
Unbroken(accepted) ==
    \A i \in DOMAIN outbound :
        outbound[i] = Pattern(accepted - Len(outbound) + i - 1)

OutboundInv ==
    /\ \A c \in InHand(session, {"send"}) : Unbroken(session.sent + Len(c.data))
    /\ InHand(session, {"send"}) = {} => Unbroken(session.sent)

\* Nothing is lost, repeated or read twice between the peer, the socket and the
\* counters of the session, and verification is exact.
DataInv ==
    /\ ResultInv
    /\ StreamInv
    /\ LinkInv
    /\ EndInv
    /\ OutboundInv
    /\ VerificationExact

=============================================================================
