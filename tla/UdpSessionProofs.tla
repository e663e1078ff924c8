-------------------------- MODULE UdpSessionProofs ---------------------------
(***************************************************************************)
(* The control of a UDP session and its promise to the application, proved *)
(* for every set of configurations, every size of the buffers and whatever *)
(* datagrams arrive.                                                       *)
(*                                                                         *)
(* The lemmas follow the calls: asio's operations (Base), the methods that *)
(* start or complete a direction (Core), the handlers and the actions      *)
(* (Control).  A direction has no end of a stream to wait for, but one     *)
(* handler can both report a mismatch and close the session.               *)
(* Then the bytes of the datagrams (DatagramInv): what is in the buffer,   *)
(* counted or in a completed receive is known to be right or strange.      *)
(***************************************************************************)
EXTENDS UdpSession, SessionProofs

\* What is said of the queue and of the lanes of the operations in it.
Base(st) ==
    /\ st \in SessionState
    /\ QueueInv(st)
    /\ LaneInv(st)
    /\ MemoryInv(st)

\* What the core invariant says of the other fields.
Rest(st) == CompleteInv(st) /\ AbortedInv(st) /\ SizeInv(st)

\* The core invariant in two parts.
LEMMA CoreSplit ==
  ASSUME NEW st
  PROVE  CoreInv(st) <=> Base(st) /\ Rest(st)
BY DEF CoreInv, Base, Rest

\* A change of the other fields keeps what is said of the queue.
LEMMA FrameBase ==
  ASSUME NEW a, NEW b, Base(a), b \in SessionState, SameQueue(a, b)
  PROVE  Base(b) /\ Outstanding(b) = Outstanding(a) /\ Queued(b) = Queued(a)
<1>1. /\ Consistent(b)
      /\ Outstanding(b) = Outstanding(a) /\ Queued(b) = Queued(a)
  BY FrameConsistent DEF Base, Consistent
<1> QED BY <1>1 DEF Base, Consistent, LaneInv

\* Without the operation that waits for the end of a stream, no two operations of a
\* session share a HandlerMemory.
LEMMA NoClash ==
  ASSUME NEW a \in Operation \ {"eof"}, NEW b \in Operation \ {"eof"}, Clash(a, b)
  PROVE  a = b
BY DEF Clash, uses, MemoryOf, ThrottleOps, HandlerMemory

\* Initiating an operation whose lane is free.
LEMMA BeginBase ==
  ASSUME NEW st, Base(st), NEW op \in Operation \ {"start", "connect", "eof"},
         op \notin Outstanding(st),
         op \in ReceiveLane => Free(st, ReceiveLane),
         op \in SendLane => Free(st, SendLane),
         op = "timeout" => "start" \notin Outstanding(st)
  PROVE  /\ Base(begin(st, op))
         /\ Outstanding(begin(st, op)) = Outstanding(st) \cup {op}
         /\ Queued(begin(st, op)) = Queued(st)
         /\ begin(st, op).socket = st.socket
         /\ SameData(begin(st, op), st)
         /\ SameOutcome(begin(st, op), st)
<1> DEFINE b == begin(st, op)
<1>1. Consistent(st) /\ Outstanding(st) \subseteq Operation \ {"eof"}
  BY OutstandingType DEF Base, Consistent, LaneInv
<1>2. \A o \in Outstanding(st) : ~Clash(o, op)
  BY <1>1, NoClash
<1>3. /\ Consistent(b)
      /\ Outstanding(b) = Outstanding(st) \cup {op}
      /\ Queued(b) = Queued(st)
      /\ b.socket = st.socket
      /\ SameData(b, st) /\ SameOutcome(b, st)
  BY <1>1, <1>2, BeginConsistent
<1> HIDE DEF b
<1>4. LaneInv(b)
  BY <1>3 DEF Base, LaneInv, Free
<1> QED BY <1>3, <1>4 DEF Base, Consistent, b

\* A completion moves its operation from waiting to the end of the queue.
LEMMA CompleteBase ==
  ASSUME NEW st, Base(st), NEW c \in Completion, c.op \in st.waiting
  PROVE  /\ Base(complete(st, c))
         /\ Outstanding(complete(st, c)) = Outstanding(st)
         /\ Queued(complete(st, c)) = Queued(st) \cup {c}
         /\ complete(st, c).waiting = st.waiting \ {c.op}
         /\ complete(st, c).socket = st.socket
         /\ SameData(complete(st, c), st)
         /\ SameOutcome(complete(st, c), st)
<1> DEFINE b == complete(st, c)
<1>1. /\ Consistent(b)
      /\ Outstanding(b) = Outstanding(st)
      /\ Queued(b) = Queued(st) \cup {c}
      /\ b.waiting = st.waiting \ {c.op}
      /\ b.socket = st.socket
      /\ SameData(b, st) /\ SameOutcome(b, st)
  BY CompleteConsistent DEF Base, Consistent
<1> HIDE DEF b
<1> QED BY <1>1 DEF Base, Consistent, LaneInv, b

\* Dequeuing the next handler ends its operation.
LEMMA DispatchBase ==
  ASSUME NEW st, Base(st), st.ready # <<>>
  PROVE  LET c == Head(st.ready)
         IN  /\ Base(dispatch(st))
             /\ c \in Completion
             /\ c \in Queued(st)
             /\ c.op \in Outstanding(st)
             /\ Outstanding(dispatch(st)) = Outstanding(st) \ {c.op}
             /\ Queued(dispatch(st)) = Queued(st) \ {c}
             /\ dispatch(st).waiting = st.waiting
             /\ dispatch(st).socket = st.socket
             /\ SameData(dispatch(st), st)
             /\ SameOutcome(dispatch(st), st)
<1> DEFINE b == dispatch(st)
           c == Head(st.ready)
<1>1. Consistent(st) /\ Outstanding(st) \subseteq Operation \ {"eof"}
  BY OutstandingType DEF Base, Consistent, LaneInv
<1>2. c.op \in Outstanding(st)
  <2>1. st.ready \in Seq(Completion)
    BY DEF Base, SessionState
  <2>2. 1 \in DOMAIN st.ready /\ c = st.ready[1]
    BY <2>1
  <2> QED BY <2>2 DEF Queued, Outstanding
<1> HIDE DEF c
<1>3. \A o \in Outstanding(st) \ {c.op} : ~Clash(o, c.op)
  BY <1>1, <1>2, NoClash
<1>4. /\ Consistent(b)
      /\ c \in Completion /\ c \in Queued(st)
      /\ Outstanding(b) = Outstanding(st) \ {c.op}
      /\ Queued(b) = Queued(st) \ {c}
      /\ b.waiting = st.waiting
      /\ b.socket = st.socket
      /\ SameData(b, st) /\ SameOutcome(b, st)
  BY <1>1, <1>3, DispatchConsistent DEF c
<1> HIDE DEF b
<1>5. LaneInv(b)
  BY <1>4 DEF Base, LaneInv
<1> QED BY <1>2, <1>4, <1>5 DEF Base, Consistent, b, c

-----------------------------------------------------------------------------
(* The methods that report, start an operation or complete a direction.    *)

\* Session::abort keeps the core invariant and requests the exit.
LEMMA AbortCore ==
  ASSUME NEW st, CoreInv(st), NEW f \in Reported
  PROVE  /\ CoreInv(abort(st, f))
         /\ abort(st, f).exit_requested /\ abort(st, f).failure = f
         /\ abort(st, f).socket = st.socket
         /\ abort(st, f).is_receive_complete = st.is_receive_complete
         /\ abort(st, f).is_send_complete = st.is_send_complete
         /\ Outstanding(abort(st, f)) = Outstanding(st)
         /\ SameData(abort(st, f), st)
<1> DEFINE b == abort(st, f)
<1>1. st \in SessionState
  BY DEF CoreInv
<1>2. /\ b \in SessionState
      /\ SameQueue(st, b) /\ SameData(b, st) /\ b.socket = st.socket
      /\ b.is_receive_complete = st.is_receive_complete
      /\ b.is_send_complete = st.is_send_complete
      /\ b.failure = f /\ b.exit_requested
  BY <1>1 DEF Reported, abort, SessionState, SameQueue, SameData
<1> HIDE DEF b
<1>3. Base(b) /\ Outstanding(b) = Outstanding(st) /\ Queued(b) = Queued(st)
  BY <1>2, CoreSplit, FrameBase
<1>4. Rest(b)
  BY <1>2, <1>3 DEF Reported, CoreInv, Rest, AbortedInv, CompleteInv, SizeInv,
                    SameData, SameQueue, Free
<1> QED BY <1>2, <1>3, <1>4, CoreSplit DEF b

\* Any operation that starts while its direction is not complete.
LEMMA BeginCore ==
  ASSUME NEW st, CoreInv(st),
         NEW op \in {"receive", "receive_throttle", "send", "send_throttle", "timeout"},
         op \notin Outstanding(st),
         op \in ReceiveLane => Free(st, ReceiveLane) /\ ~st.is_receive_complete,
         op \in SendLane => Free(st, SendLane) /\ ~st.is_send_complete,
         op = "timeout" => "start" \notin Outstanding(st),
         ~(st.is_receive_complete /\ st.is_send_complete),
         op = "send" => st.sent + st.send_slice <= st.configuration.size
  PROVE  /\ CoreInv(begin(st, op))
         /\ Outstanding(begin(st, op)) = Outstanding(st) \cup {op}
         /\ begin(st, op).socket = st.socket
         /\ SameData(begin(st, op), st)
         /\ SameOutcome(begin(st, op), st)
<1> DEFINE b == begin(st, op)
<1>1. op \in Operation \ {"start", "connect", "eof"}
  BY DEF Operation, SocketOps, ThrottleOps
<1>2. /\ Base(b)
      /\ Outstanding(b) = Outstanding(st) \cup {op}
      /\ Queued(b) = Queued(st)
      /\ b.socket = st.socket
      /\ SameData(b, st) /\ SameOutcome(b, st)
  BY <1>1, CoreSplit, BeginBase
<1> HIDE DEF b
<1>3. AbortedInv(b)
  BY <1>2 DEF CoreInv, AbortedInv, SameOutcome
<1>4. CompleteInv(b)
  BY <1>2 DEF CoreInv, CompleteInv, SameOutcome, Free
<1>5. SizeInv(b)
  BY <1>2 DEF CoreInv, SizeInv, SameOutcome, SameData
<1> QED BY <1>2, <1>3, <1>4, <1>5, CoreSplit DEF Rest, b

\* The counters and the outcome of a session, which starting an operation of a
\* lane leaves alone.
SameCounts(a, b) ==
    /\ a.configuration = b.configuration
    /\ a.received = b.received
    /\ a.sent = b.sent
    /\ SameOutcome(a, b)

\* UdpSession::async_receive, with or without bytes left in the slice.
LEMMA AsyncReceiveCore ==
  ASSUME NEW st, CoreInv(st), Free(st, ReceiveLane), ~st.is_receive_complete,
         NEW n \in Nat
  PROVE  /\ CoreInv(async_receive(st, n))
         /\ \E op \in ReceiveLane \ SendLane :
                Outstanding(async_receive(st, n)) = Outstanding(st) \cup {op}
         /\ SameCounts(async_receive(st, n), st)
<1> DEFINE s == [st EXCEPT !.receive_slice = n]
<1>1. st \in SessionState
  BY DEF CoreInv
<1>2. /\ s \in SessionState
      /\ SameQueue(st, s) /\ SameCounts(s, st)
      /\ s.socket = st.socket /\ s.send_slice = st.send_slice
  BY <1>1 DEF SessionState, SameQueue, SameCounts, SameOutcome
<1> HIDE DEF s
<1>3. Base(s) /\ Outstanding(s) = Outstanding(st) /\ Queued(s) = Queued(st)
  BY <1>2, CoreSplit, FrameBase
<1>4. /\ {"receive", "receive_throttle"} \subseteq ReceiveLane \ SendLane
      /\ {"receive", "receive_throttle"} \cap Outstanding(st) = {}
  BY DEF Free, ReceiveLane, SendLane
<1>5. \A c \in Queued(s) : c.op # "receive"
  BY <1>3, <1>4 DEF Outstanding
<1>6. Rest(s)
  BY <1>2, <1>3, <1>5 DEF CoreInv, Rest, AbortedInv, CompleteInv, SizeInv,
        SameCounts, SameOutcome, SameQueue, Free
<1>7. CoreInv(s) /\ Free(s, ReceiveLane) /\ ~s.is_receive_complete
  BY <1>2, <1>3, <1>6, CoreSplit DEF Free, SameCounts, SameOutcome
<1>8. CASE n = 0
  <2>1. async_receive(st, n) = begin(st, "receive_throttle")
    BY <1>8 DEF async_receive
  <2> QED BY <1>4, <2>1, BeginCore DEF SameCounts, SameData
<1>9. CASE n # 0
  <2>1. async_receive(st, n) = begin(s, "receive")
    BY <1>9 DEF async_receive, s
  <2>2. /\ CoreInv(begin(s, "receive"))
        /\ Outstanding(begin(s, "receive")) = Outstanding(s) \cup {"receive"}
        /\ SameData(begin(s, "receive"), s)
        /\ SameOutcome(begin(s, "receive"), s)
    BY <1>3, <1>4, <1>7, BeginCore
  <2> QED BY <1>2, <1>3, <1>4, <2>1, <2>2 DEF SameCounts, SameData, SameOutcome
<1> QED BY <1>8, <1>9

\* UdpSession::async_send, with or without bytes left in the slice: what it starts
\* to send never exceeds what is left of the size.
LEMMA AsyncSendCore ==
  ASSUME NEW st, CoreInv(st), Free(st, SendLane), ~st.is_send_complete,
         NEW n \in Nat
  PROVE  /\ CoreInv(async_send(st, n))
         /\ \E op \in SendLane \ ReceiveLane :
                Outstanding(async_send(st, n)) = Outstanding(st) \cup {op}
         /\ SameCounts(async_send(st, n), st)
<1> DEFINE size == Least(n, st.configuration.size - st.sent)
           s == [st EXCEPT !.send_slice = size]
<1>1. st \in SessionState
  BY DEF CoreInv
<1>2. size \in Nat /\ st.sent + size <= st.configuration.size
  BY <1>1 DEF Least, SessionState, SessionConfiguration, CoreInv, SizeInv
<1> HIDE DEF size
<1>3. /\ s \in SessionState
      /\ SameQueue(st, s) /\ SameCounts(s, st)
      /\ s.socket = st.socket /\ s.receive_slice = st.receive_slice
      /\ s.send_slice = size
  BY <1>1, <1>2 DEF SessionState, SameQueue, SameCounts, SameOutcome
<1> HIDE DEF s
<1>4. Base(s) /\ Outstanding(s) = Outstanding(st) /\ Queued(s) = Queued(st)
  BY <1>3, CoreSplit, FrameBase
<1>5. /\ {"send", "send_throttle"} \subseteq SendLane \ ReceiveLane
      /\ {"send", "send_throttle"} \cap Outstanding(st) = {}
  BY DEF Free, ReceiveLane, SendLane
<1>6. \A c \in Queued(s) : c.op # "send"
  BY <1>4, <1>5 DEF Outstanding
<1>7. Rest(s)
  BY <1>3, <1>4, <1>5, <1>6 DEF CoreInv, Rest, AbortedInv, CompleteInv, SizeInv,
        SameCounts, SameOutcome, SameQueue, Free
<1>8. CoreInv(s) /\ Free(s, SendLane) /\ ~s.is_send_complete
  BY <1>3, <1>4, <1>7, CoreSplit DEF Free, SameCounts, SameOutcome
<1>9. CASE n = 0
  <2>1. async_send(st, n) = begin(st, "send_throttle")
    BY <1>9 DEF async_send
  <2> QED BY <1>5, <2>1, BeginCore DEF SameCounts, SameData
<1>10. CASE n # 0
  <2>1. async_send(st, n) = begin(s, "send")
    BY <1>10 DEF async_send, s, size
  <2>2. s.sent + s.send_slice <= s.configuration.size
    BY <1>2, <1>3 DEF SameCounts
  <2>3. /\ CoreInv(begin(s, "send"))
        /\ Outstanding(begin(s, "send")) = Outstanding(s) \cup {"send"}
        /\ SameData(begin(s, "send"), s)
        /\ SameOutcome(begin(s, "send"), s)
    BY <1>4, <1>5, <1>8, <2>2, BeginCore
  <2> QED BY <1>3, <1>4, <1>5, <2>1, <2>3 DEF SameCounts, SameData, SameOutcome
<1> QED BY <1>9, <1>10

\* Session::on_finish: nothing of the session's own is outstanding when it closes
\* the socket, so that only its signal and its timer are cancelled.
LEMMA OnFinishCore ==
  ASSUME NEW st, Base(st), AbortedInv(st), SizeInv(st),
         Free(st, ReceiveLane), Free(st, SendLane),
         st.is_receive_complete, st.is_send_complete
  PROVE  /\ CoreInv(on_finish(st))
         /\ Outstanding(on_finish(st)) = Outstanding(st)
         /\ SameData(on_finish(st), st)
         /\ SameOutcome(on_finish(st), st)
<1> DEFINE f == on_finish(st)
<1>1. Outstanding(st) \subseteq {"signal", "timeout"}
  <2>1. Outstanding(st) \subseteq Operation \ {"connect", "eof"}
    BY OutstandingType DEF Base, LaneInv
  <2> QED BY <2>1 DEF Free, ReceiveLane, SendLane, Operation, SocketOps, ThrottleOps
<1>2. /\ Consistent(f) /\ f.socket = "closed" /\ f.waiting = {}
      /\ Outstanding(f) = Outstanding(st)
      /\ \A c \in Queued(f) : \/ c \in Queued(st)
                              \/ c = done("signal", "operation_aborted", <<>>)
                              \/ c = done("timeout", "operation_aborted", <<>>)
      /\ SameData(f, st) /\ SameOutcome(f, st)
  BY <1>1, OnFinishConsistent DEF Base, Consistent
<1> HIDE DEF f
<1>3. Base(f)
  BY <1>2 DEF Base, Consistent, LaneInv
<1>4. AbortedInv(f)
  BY <1>2 DEF AbortedInv, SameOutcome, done
<1>5. CompleteInv(f)
  BY <1>2 DEF CompleteInv, SameOutcome, Free
<1>6. SizeInv(f)
  BY <1>2 DEF SizeInv, SameData, SameOutcome, done
<1> QED BY <1>2, <1>3, <1>4, <1>5, <1>6, CoreSplit DEF Rest, f

\* Session::on_receive_complete, which finishes when sending is complete.
LEMMA OnReceiveCompleteCore ==
  ASSUME NEW st, CoreInv(st), Free(st, ReceiveLane), ~st.is_receive_complete,
         \/ st.configuration.direction = "TX"
         \/ st.received >= st.configuration.size
  PROVE  /\ CoreInv(on_receive_complete(st))
         /\ on_receive_complete(st).is_receive_complete
         /\ on_receive_complete(st).is_send_complete = st.is_send_complete
         /\ on_receive_complete(st).failure = st.failure
         /\ on_receive_complete(st).exit_requested = st.exit_requested
         /\ SameData(on_receive_complete(st), st)
         /\ Outstanding(on_receive_complete(st)) = Outstanding(st)
<1> DEFINE s == [st EXCEPT !.is_receive_complete = TRUE]
<1>1. st \in SessionState
  BY DEF CoreInv
<1>2. /\ s \in SessionState /\ SameQueue(st, s) /\ SameData(s, st)
      /\ s.socket = st.socket /\ s.is_receive_complete
      /\ s.is_send_complete = st.is_send_complete
      /\ s.failure = st.failure /\ s.exit_requested = st.exit_requested
  BY <1>1 DEF SessionState, SameQueue, SameData
<1>3. on_receive_complete(st) = IF st.is_send_complete THEN on_finish(s) ELSE s
  BY DEF on_receive_complete
<1> HIDE DEF s
<1>4. Base(s) /\ Outstanding(s) = Outstanding(st) /\ Queued(s) = Queued(st)
  BY <1>2, CoreSplit, FrameBase
<1>5. AbortedInv(s)
  BY <1>2, <1>4 DEF CoreInv, AbortedInv
<1>6. SizeInv(s)
  BY <1>2, <1>4 DEF CoreInv, SizeInv, SameData
<1>7. CASE st.is_send_complete
  <2>1. Free(s, ReceiveLane) /\ Free(s, SendLane)
    BY <1>4, <1>7 DEF Free, CoreInv, CompleteInv
  <2>2. /\ CoreInv(on_finish(s)) /\ Outstanding(on_finish(s)) = Outstanding(s)
        /\ SameData(on_finish(s), s) /\ SameOutcome(on_finish(s), s)
    BY <1>2, <1>4, <1>5, <1>6, <1>7, <2>1, OnFinishCore
  <2> QED BY <1>2, <1>3, <1>4, <1>7, <2>2 DEF SameData, SameOutcome
<1>8. CASE ~st.is_send_complete
  <2>1. CompleteInv(s)
    BY <1>2, <1>4, <1>8 DEF CoreInv, CompleteInv, Free, SameQueue
  <2>2. CoreInv(s)
    BY <1>4, <1>5, <1>6, <2>1, CoreSplit DEF Rest
  <2> QED BY <1>2, <1>3, <1>4, <1>8, <2>2
<1> QED BY <1>7, <1>8

\* Session::on_send_complete, which finishes when receiving is complete.
LEMMA OnSendCompleteCore ==
  ASSUME NEW st, CoreInv(st), Free(st, SendLane), ~st.is_send_complete,
         \/ st.configuration.direction = "RX"
         \/ st.sent = st.configuration.size
  PROVE  /\ CoreInv(on_send_complete(st))
         /\ on_send_complete(st).is_send_complete
         /\ on_send_complete(st).is_receive_complete = st.is_receive_complete
         /\ on_send_complete(st).failure = st.failure
         /\ on_send_complete(st).exit_requested = st.exit_requested
         /\ SameData(on_send_complete(st), st)
         /\ Outstanding(on_send_complete(st)) = Outstanding(st)
<1> DEFINE s == [st EXCEPT !.is_send_complete = TRUE]
<1>1. st \in SessionState
  BY DEF CoreInv
<1>2. /\ s \in SessionState /\ SameQueue(st, s) /\ SameData(s, st)
      /\ s.socket = st.socket /\ s.is_send_complete
      /\ s.is_receive_complete = st.is_receive_complete
      /\ s.failure = st.failure /\ s.exit_requested = st.exit_requested
  BY <1>1 DEF SessionState, SameQueue, SameData
<1>3. on_send_complete(st) = IF st.is_receive_complete THEN on_finish(s) ELSE s
  BY DEF on_send_complete
<1> HIDE DEF s
<1>4. Base(s) /\ Outstanding(s) = Outstanding(st) /\ Queued(s) = Queued(st)
  BY <1>2, CoreSplit, FrameBase
<1>5. AbortedInv(s)
  BY <1>2, <1>4 DEF CoreInv, AbortedInv
<1>6. SizeInv(s)
  BY <1>2, <1>4 DEF CoreInv, SizeInv, SameData
<1>7. CASE st.is_receive_complete
  <2>1. Free(s, ReceiveLane) /\ Free(s, SendLane)
    BY <1>4, <1>7 DEF Free, CoreInv, CompleteInv
  <2>2. /\ CoreInv(on_finish(s)) /\ Outstanding(on_finish(s)) = Outstanding(s)
        /\ SameData(on_finish(s), s) /\ SameOutcome(on_finish(s), s)
    BY <1>2, <1>4, <1>5, <1>6, <1>7, <2>1, OnFinishCore
  <2> QED BY <1>2, <1>3, <1>4, <1>7, <2>2 DEF SameData, SameOutcome
<1>8. CASE ~st.is_receive_complete
  <2>1. CompleteInv(s)
    BY <1>2, <1>4, <1>8 DEF CoreInv, CompleteInv, Free, SameQueue
  <2>2. CoreInv(s)
    BY <1>4, <1>5, <1>6, <2>1, CoreSplit DEF Rest
  <2> QED BY <1>2, <1>3, <1>4, <1>8, <2>2
<1> QED BY <1>7, <1>8

-----------------------------------------------------------------------------
(* What the handlers of a datagram do with the session.                    *)

\* How a handler leaves the session that it was called with: no operation is given up,
\* and a request to exit comes with a failure, which may be that of the datagram with
\* which the session finishes.
Leaves(r, d) ==
    /\ Outstanding(d) \subseteq Outstanding(r)
    /\ r.exit_requested =>
            /\ r.failure \in {"data_mismatch", "network_unreachable"}
            /\ r.socket = "closed" => r.failure = "data_mismatch"

\* Each direction is complete or under way, unless the exit is requested.
ReceiveGoesOn(st) == st.is_receive_complete \/ ~Free(st, ReceiveLane)
SendGoesOn(st) == st.is_send_complete \/ ~Free(st, SendLane)

\* Session::verify does nothing but abort, whichever bytes it looks at.
LEMMA VerifyCore ==
  ASSUME NEW st, CoreInv(st), FailureStops(st), ~st.exit_requested, NEW data
  PROVE  LET v == verify_datagram(st, data)
         IN  /\ CoreInv(v) /\ FailureStops(v)
             /\ v.exit_requested => v.failure = "data_mismatch"
             /\ Outstanding(v) = Outstanding(st)
             /\ SameData(v, st)
             /\ v.is_receive_complete = st.is_receive_complete
             /\ v.is_send_complete = st.is_send_complete
<1> DEFINE b == abort(st, "data_mismatch")
<1>1. "data_mismatch" \in Reported
  BY DEF Reported, ErrorCode, Error
<1>2. /\ CoreInv(b) /\ b.exit_requested /\ b.failure = "data_mismatch"
      /\ Outstanding(b) = Outstanding(st) /\ SameData(b, st)
      /\ b.is_receive_complete = st.is_receive_complete
      /\ b.is_send_complete = st.is_send_complete
  BY <1>1, AbortCore
<1>3. verify_datagram(st, data) \in {b, st}
  BY DEF verify_datagram, verify
<1> HIDE DEF b
<1> QED BY <1>2, <1>3 DEF FailureStops, SameData

\* Counting received bytes between two operations of the lane.
LEMMA ReceivedCore ==
  ASSUME NEW st, CoreInv(st), NEW data \in Seq(Nat), Free(st, ReceiveLane),
         ~st.is_receive_complete
  PROVE  /\ CoreInv(received(st, data))
         /\ Outstanding(received(st, data)) = Outstanding(st)
         /\ received(st, data).configuration = st.configuration
         /\ SameOutcome(received(st, data), st)
<1> DEFINE s == received(st, data)
<1>1. st \in SessionState /\ st.received + Len(data) \in Nat
  BY DEF CoreInv, SessionState
<1>2. /\ s \in SessionState /\ SameQueue(st, s) /\ SameOutcome(s, st)
      /\ s.socket = st.socket /\ s.configuration = st.configuration
      /\ s.receive_slice = st.receive_slice /\ s.send_slice = st.send_slice
      /\ s.sent = st.sent
  BY <1>1 DEF received, SessionState, SameQueue, SameOutcome
<1> HIDE DEF s
<1>3. Base(s) /\ Outstanding(s) = Outstanding(st) /\ Queued(s) = Queued(st)
  BY <1>2, CoreSplit, FrameBase
<1>4. Rest(s)
  BY <1>2, <1>3 DEF CoreInv, Rest, AbortedInv, CompleteInv, SizeInv,
        SameOutcome, SameQueue, Free
<1> QED BY <1>2, <1>3, <1>4, CoreSplit DEF s

\* Counting sent bytes between two operations of the lane.
LEMMA SentCore ==
  ASSUME NEW st, CoreInv(st), NEW data \in Seq(Nat), Free(st, SendLane),
         ~st.is_send_complete, st.sent + Len(data) <= st.configuration.size
  PROVE  /\ CoreInv(sent(st, data))
         /\ Outstanding(sent(st, data)) = Outstanding(st)
         /\ sent(st, data).configuration = st.configuration
         /\ sent(st, data).sent = st.sent + Len(data)
         /\ SameOutcome(sent(st, data), st)
<1> DEFINE s == sent(st, data)
<1>1. st \in SessionState /\ st.sent + Len(data) \in Nat
  BY DEF CoreInv, SessionState
<1>2. /\ s \in SessionState /\ SameQueue(st, s) /\ SameOutcome(s, st)
      /\ s.socket = st.socket /\ s.configuration = st.configuration
      /\ s.receive_slice = st.receive_slice /\ s.send_slice = st.send_slice
      /\ s.received = st.received /\ s.sent = st.sent + Len(data)
  BY <1>1 DEF sent, SessionState, SameQueue, SameOutcome
<1> HIDE DEF s
<1>3. Base(s) /\ Outstanding(s) = Outstanding(st) /\ Queued(s) = Queued(st)
  BY <1>2, CoreSplit, FrameBase
<1>4. "send" \notin Outstanding(s)
  BY <1>3 DEF Free, SendLane
<1>5. Rest(s)
  BY <1>2, <1>3, <1>4 DEF CoreInv, Rest, AbortedInv, CompleteInv, SizeInv,
        SameOutcome, SameQueue, Free
<1> QED BY <1>2, <1>3, <1>5, CoreSplit DEF s

\* Session::on_receive reports a mismatch or not, and in both cases goes on to the
\* next datagram or completes the direction.
LEMMA OnReceiveCore ==
  ASSUME NEW st, CoreInv(st), FailureStops(st), ~st.exit_requested,
         Free(st, ReceiveLane), ~st.is_receive_complete,
         NEW c \in Completion, c.failure = "success",
         Len(c.data) <= st.receive_slice
  PROVE  LET r == on_receive(st, c)
         IN  /\ CoreInv(r) /\ FailureStops(r) /\ Leaves(r, st)
             /\ ReceiveGoesOn(r)
             /\ r.is_send_complete = st.is_send_complete
<1> DEFINE v == verify_datagram(st, c.data)
           s == received(v, c.data)
           n == st.receive_slice - Len(c.data)
<1>1. on_receive(st, c) = IF s.received < st.configuration.size
                          THEN async_receive(s, n) ELSE finish_receive(s)
  BY DEF on_receive
<1>2. c.data \in Seq(Nat) /\ n \in Nat
  BY DEF Completion, CoreInv, SessionState
<1>3. /\ CoreInv(v) /\ FailureStops(v)
      /\ v.exit_requested => v.failure = "data_mismatch"
      /\ Outstanding(v) = Outstanding(st)
      /\ SameData(v, st) /\ ~v.is_receive_complete
      /\ v.is_send_complete = st.is_send_complete
  BY VerifyCore
<1> HIDE DEF v
<1>4. /\ CoreInv(s) /\ FailureStops(s)
      /\ s.exit_requested => s.failure = "data_mismatch"
      /\ Outstanding(s) = Outstanding(st)
      /\ s.configuration = st.configuration /\ ~s.is_receive_complete
      /\ s.is_send_complete = st.is_send_complete
      /\ Free(s, ReceiveLane)
  BY <1>2, <1>3, ReceivedCore DEF Free, SameData, SameOutcome, FailureStops
<1> HIDE DEF s, n
<1>5. CASE s.received < st.configuration.size
  <2>1. on_receive(st, c) = async_receive(s, n)
    BY <1>1, <1>5
  <2> QED BY <1>2, <1>4, <2>1, AsyncReceiveCore
          DEF ReceiveGoesOn, Leaves, Free, SameCounts, SameOutcome, FailureStops
<1>6. CASE ~(s.received < st.configuration.size)
  <2>1. on_receive(st, c) = on_receive_complete(s)
    BY <1>1, <1>6 DEF finish_receive
  <2>2. s.received >= s.configuration.size
    BY <1>4, <1>6 DEF CoreInv, SessionState, SessionConfiguration
  <2> QED BY <1>4, <2>1, <2>2, OnReceiveCompleteCore
          DEF ReceiveGoesOn, Leaves, FailureStops
<1> QED BY <1>5, <1>6

\* Session::on_send aborts, goes on to the next datagram or completes the direction.
LEMMA OnSendCore ==
  ASSUME NEW st, CoreInv(st), FailureStops(st), ~st.exit_requested,
         Free(st, SendLane), ~st.is_send_complete,
         NEW c \in Completion, c.failure \in {"success", "network_unreachable"},
         Len(c.data) <= st.send_slice,
         st.sent + st.send_slice <= st.configuration.size
  PROVE  LET r == on_send(st, c)
         IN  /\ CoreInv(r) /\ FailureStops(r) /\ Leaves(r, st)
             /\ r.exit_requested \/ SendGoesOn(r)
             /\ r.is_receive_complete = st.is_receive_complete
<1>1. c.data \in Seq(Nat) /\ "network_unreachable" \in Reported
  BY DEF Completion, Reported, ErrorCode, Error, SystemError
<1>2. CASE c.failure # "success"
  <2>1. on_send(st, c) = abort(st, "network_unreachable")
    BY <1>2 DEF on_send
  <2>2. st.socket # "closed"
    BY DEF CoreInv, CompleteInv
  <2> QED BY <1>1, <2>1, <2>2, AbortCore DEF FailureStops, Leaves
<1>3. CASE c.failure = "success"
  <2> DEFINE s == sent(st, c.data)
             n == st.send_slice - Len(c.data)
  <2>1. on_send(st, c) = IF s.sent < st.configuration.size
                         THEN async_send(s, n) ELSE finish_send(s)
    BY <1>3 DEF on_send
  <2>2. /\ n \in Nat /\ Len(c.data) \in Nat
        /\ st.sent + Len(c.data) <= st.configuration.size
        /\ st.sent \in Nat /\ st.configuration.size \in Nat
    BY <1>1 DEF CoreInv, SessionState, SessionConfiguration
  <2>3. /\ CoreInv(s) /\ FailureStops(s) /\ ~s.exit_requested
        /\ Outstanding(s) = Outstanding(st)
        /\ s.configuration = st.configuration /\ s.sent = st.sent + Len(c.data)
        /\ ~s.is_send_complete
        /\ s.is_receive_complete = st.is_receive_complete
        /\ Free(s, SendLane)
    BY <1>1, <2>2, SentCore DEF Free, SameOutcome, FailureStops
  <2> HIDE DEF s, n
  <2>4. CASE s.sent < st.configuration.size
    <3>1. on_send(st, c) = async_send(s, n)
      BY <2>1, <2>4
    <3> DEFINE r == async_send(s, n)
    <3>2. /\ CoreInv(r) /\ ~Free(r, SendLane) /\ SameOutcome(r, s)
          /\ Outstanding(s) \subseteq Outstanding(r)
      BY <2>2, <2>3, <2>4, AsyncSendCore DEF Free, SameCounts
    <3> HIDE DEF r
    <3>3. /\ FailureStops(r) /\ Leaves(r, st) /\ SendGoesOn(r)
          /\ r.is_receive_complete = st.is_receive_complete
      BY <2>3, <3>2 DEF SendGoesOn, Leaves, SameOutcome, FailureStops
    <3> QED BY <3>1, <3>2, <3>3 DEF r
  <2>5. CASE ~(s.sent < st.configuration.size)
    <3>1. on_send(st, c) = on_send_complete(s)
      BY <2>1, <2>5 DEF finish_send
    <3>2. s.sent = s.configuration.size
      BY <2>2, <2>3, <2>5
    <3> QED BY <2>3, <3>1, <3>2, OnSendCompleteCore
            DEF SendGoesOn, Leaves, FailureStops
  <2> QED BY <2>4, <2>5
<1> QED BY <1>2, <1>3

\* Any completion of a waiting operation keeps the invariant.
LEMMA CompleteCore ==
  ASSUME NEW st, CoreInv(st), ProgressInv(st),
         NEW c \in Completion, c.op \in st.waiting,
         c.failure \in {"success", "network_unreachable"},
         c.failure = "network_unreachable" => c.op = "send",
         c.op = "receive" => Len(c.data) <= st.receive_slice,
         c.op = "send" => Len(c.data) <= st.send_slice
  PROVE  CoreInv(complete(st, c)) /\ ProgressInv(complete(st, c))
<1> DEFINE b == complete(st, c)
<1>1. /\ Base(b)
      /\ Outstanding(b) = Outstanding(st)
      /\ Queued(b) = Queued(st) \cup {c}
      /\ b.waiting = st.waiting \ {c.op}
      /\ b.socket = st.socket
      /\ SameData(b, st)
      /\ SameOutcome(b, st)
  BY CoreSplit, CompleteBase
<1> HIDE DEF b
<1>2. AbortedInv(b)
  BY <1>1 DEF CoreInv, AbortedInv, SameOutcome
<1>3. CompleteInv(b)
  BY <1>1 DEF CoreInv, CompleteInv, SameOutcome, Free
<1>4. SizeInv(b)
  BY <1>1 DEF CoreInv, SizeInv, SameOutcome, SameData
<1>5. ProgressInv(b)
  BY <1>1 DEF ProgressInv, SameOutcome, Free
<1> QED BY <1>1, <1>2, <1>3, <1>4, <1>5, CoreSplit DEF Rest, b

-----------------------------------------------------------------------------
(* The actions.                                                            *)

\* A session as its constructor leaves it, and the start that initialize() posts.
LEMMA InitializeCore ==
  ASSUME NEW c \in SessionConfiguration
  PROVE  CoreInv(initialize(c)) /\ ProgressInv(initialize(c))
<1> DEFINE e == done("start", "success", <<>>)
           b == initialize(c)
<1>1. /\ e \in Completion /\ e.op = "start" /\ e.failure = "success" /\ e.data = <<>>
      /\ "start" \in Operation /\ "signal" \in Operation /\ "success" \in ErrorCode
  BY DEF done, Completion, Operation, ErrorCode, Error
<1>2. new(c) \in SessionState
  BY DEF new, SessionState, Operation, SocketOps, ErrorCode, Error
<1>3. /\ b.configuration = c /\ b.socket = "connected"
      /\ b.waiting = {"signal"} /\ b.ready = Append(<<>>, e)
      /\ b.memory = [m \in HandlerMemory |-> 0] /\ b.sent = 0
      /\ b.is_receive_complete = FALSE /\ b.is_send_complete = FALSE
      /\ b.failure = "success" /\ b.exit_requested = FALSE
  BY DEF initialize, post, new
<1>4. b \in SessionState
  <2>1. Append(<<>>, e) \in Seq(Completion)
    BY <1>1
  <2> QED BY <1>2, <2>1 DEF initialize, post, new, SessionState
<1> HIDE DEF b, e
<1>5. b.ready = <<e>> /\ DOMAIN b.ready = {1} /\ b.ready[1] = e
  BY <1>3
<1>6. Queued(b) = {e} /\ Outstanding(b) = {"signal", "start"}
  BY <1>1, <1>3, <1>5 DEF Queued, Outstanding
<1>7. QueueInv(b)
  BY <1>1, <1>3, <1>5 DEF QueueInv
<1>8. LaneInv(b)
  BY <1>6 DEF LaneInv, ReceiveLane, SendLane
<1>9. MemoryInv(b)
  <2>1. \A m \in HandlerMemory : ~uses("signal", m) /\ ~uses("start", m)
    BY DEF uses, MemoryOf, ThrottleOps
  <2> QED BY <1>3, <1>6, <2>1 DEF MemoryInv
<1>10. AbortedInv(b) /\ CompleteInv(b)
  BY <1>1, <1>3, <1>6 DEF AbortedInv, CompleteInv
<1>11. SizeInv(b)
  BY <1>1, <1>3, <1>6 DEF SizeInv, SessionConfiguration
<1>12. ProgressInv(b)
  BY <1>3, <1>6 DEF ProgressInv, Free, ReceiveLane, SendLane
<1> QED BY <1>4, <1>7, <1>8, <1>9, <1>10, <1>11, <1>12 DEF CoreInv, b

\* The invariant holds initially.
LEMMA InitControl == Init => ControlInv
<1> SUFFICES ASSUME Init PROVE ControlInv
  OBVIOUS
<1>1. CoreInv(session) /\ ProgressInv(session)
  BY ConfigurationsAssumption, InitializeCore DEF Init
<1>2. 0 \in Byte
  BY BufferAssumption DEF Byte
<1>3. TypeOK
  BY <1>1, <1>2 DEF TypeOK, CoreInv, Init
<1> QED BY <1>1, <1>3 DEF ControlInv

\* A datagram is received: as much of it as the slice and the buffer take.
LEMMA ReceivesControl ==
  ASSUME ControlInv, ReceivesDatagram
  PROVE  ControlInv'
<1> DEFINE datagram == Head(arrived)
           n == Least(receive_size, Len(datagram))
           taken == SubSeq(datagram, 1, n)
           c == done("receive", "success", taken)
<1>1. /\ "receive" \in session.waiting /\ session' = complete(session, c)
      /\ head' = IF taken = <<>> THEN head ELSE taken[1]
      /\ strange' = strange \cup oddities(session, taken)
      /\ arrived' = Tail(arrived) /\ outgoing' = outgoing
  BY DEF ReceivesDatagram, Waits
<1>2. datagram \in Seq(Byte) /\ Tail(arrived) \in Seq(Seq(Byte))
  BY DEF ReceivesDatagram, ControlInv, TypeOK
<1>3. session.receive_slice \in Nat /\ BUFFER_SIZE \in Nat
  BY BufferAssumption DEF ControlInv, TypeOK, SessionState
<1> HIDE DEF datagram
<1>4. n \in 0 .. Len(datagram) /\ n <= session.receive_slice
  <2>1. Len(datagram) \in Nat
    BY <1>2
  <2> QED BY <1>3, <2>1 DEF receive_size, Least
<1> HIDE DEF n
<1>5. taken \in Seq(Byte) /\ Len(taken) = n
  BY <1>2, <1>4
<1> HIDE DEF taken
<1>6. head' \in Byte
  <2>1. taken # <<>> => taken[1] \in Byte
    BY <1>5
  <2> QED BY <1>1, <2>1 DEF ControlInv, TypeOK
<1>7. strange' \subseteq {"wrong", "empty"}
  <2>1. oddities(session, taken) \subseteq {"wrong", "empty"}
    BY DEF oddities
  <2> QED BY <1>1, <2>1 DEF ControlInv, TypeOK
<1>8. "receive" \in Operation /\ "success" \in ErrorCode
  BY DEF Operation, SocketOps, ErrorCode, Error
<1>9. c \in Completion /\ c.op = "receive" /\ c.failure = "success" /\ c.data = taken
  BY <1>5, <1>8, ByteSeq, DoneType
<1> HIDE DEF c
<1>10. CoreInv(session') /\ ProgressInv(session')
  BY <1>1, <1>4, <1>5, <1>9, CompleteCore DEF ControlInv
<1> QED BY <1>1, <1>2, <1>6, <1>7, <1>10 DEF ControlInv, TypeOK, CoreInv

\* A datagram is sent, which lies within the buffer.
LEMMA SendsControl ==
  ASSUME ControlInv, SendsDatagram
  PROVE  ControlInv'
<1>1. PICK max \in DatagramSizes :
        LET datagram == BytesToSend(send_offset(session), Least(session.send_slice, max))
        IN  /\ session' = complete(session, done("send", "success", datagram))
            /\ outgoing' = Append(outgoing, datagram)
  BY DEF SendsDatagram, datagrams_to_send, get_max_datagram_size
<1> DEFINE n == Least(session.send_slice, max)
           datagram == BytesToSend(send_offset(session), n)
           c == done("send", "success", datagram)
<1>2. session' = complete(session, c) /\ outgoing' = Append(outgoing, datagram)
  BY <1>1
<1>3. session.send_slice \in Nat /\ session.sent \in Nat
  BY DEF ControlInv, TypeOK, SessionState
<1>4. max \in Nat /\ max + BYTE_VALUES - 1 <= BUFFER_SIZE
  BY DatagramsAssumption
<1>5. n \in Nat /\ n <= session.send_slice /\ n <= max
  BY <1>3, <1>4 DEF Least
<1> HIDE DEF n
<1>6. n <= BUFFER_SIZE - (session.sent % BYTE_VALUES)
  <2>1. session.sent % BYTE_VALUES \in 0 .. BYTE_VALUES - 1
    BY <1>3, BufferAssumption
  <2> QED BY <1>4, <1>5, <2>1, BufferAssumption
<1>7. datagram \in Seq(Byte) /\ Len(datagram) = n
  BY <1>3, <1>5, <1>6, BytesToSendType DEF send_offset
<1> HIDE DEF datagram
<1>8. "send" \in Operation /\ "success" \in ErrorCode
  BY DEF Operation, SocketOps, ErrorCode, Error
<1>9. c \in Completion /\ c.op = "send" /\ c.failure = "success" /\ c.data = datagram
  BY <1>7, <1>8, ByteSeq, DoneType
<1> HIDE DEF c
<1>10. "send" \in session.waiting
  BY DEF SendsDatagram, Waits
<1>11. CoreInv(session') /\ ProgressInv(session')
  BY <1>2, <1>5, <1>7, <1>9, <1>10, CompleteCore DEF ControlInv
<1>12. outgoing' \in Seq(Seq(Byte))
  BY <1>2, <1>7 DEF ControlInv, TypeOK
<1> QED BY <1>11, <1>12 DEF ControlInv, TypeOK, CoreInv, SendsDatagram

\* Completions keep the invariant.
LEMMA CompleteControl ==
  ASSUME ControlInv, Complete
  PROVE  ControlInv'
<1>0. /\ {"send", "receive_throttle", "send_throttle", "timeout", "signal"}
            \subseteq Operation
      /\ {"success", "network_unreachable"} \subseteq ErrorCode
      /\ session.send_slice \in Nat
  BY DEF Operation, SocketOps, ThrottleOps, ErrorCode, Error, SystemError,
         ControlInv, TypeOK, SessionState
<1>1. CASE SendFails
  <2> DEFINE c == done("send", "network_unreachable", <<>>)
  <2>1. session' = complete(session, c) /\ "send" \in session.waiting
    BY <1>1 DEF SendFails, Waits
  <2>2. /\ c \in Completion /\ c.op = "send" /\ c.failure = "network_unreachable"
        /\ Len(c.data) = 0
    BY <1>0, DoneEmptyType
  <2> HIDE DEF c
  <2>3. CoreInv(session') /\ ProgressInv(session')
    BY <1>0, <2>1, <2>2, CompleteCore DEF ControlInv
  <2> QED BY <1>1, <2>3 DEF SendFails, ControlInv, TypeOK, CoreInv
<1>2. ASSUME NEW op \in {"receive_throttle", "send_throttle", "timeout"},
             TimerExpires(op)
      PROVE  ControlInv'
  <2> DEFINE c == done(op, "success", <<>>)
  <2>1. session' = complete(session, c) /\ op \in session.waiting
    BY <1>2 DEF TimerExpires, Waits
  <2>2. c \in Completion /\ c.op = op /\ c.failure = "success"
    BY <1>0, DoneEmptyType
  <2> HIDE DEF c
  <2>3. CoreInv(session') /\ ProgressInv(session')
    BY <1>2, <2>1, <2>2, CompleteCore DEF ControlInv
  <2> QED BY <1>2, <2>3 DEF TimerExpires, ControlInv, TypeOK, CoreInv
<1>3. ASSUME NEW number \in Signal, SignalArrives(number)
      PROVE  ControlInv'
  <2> DEFINE data == <<number>>
             c == done("signal", "success", data)
  <2>1. session' = complete(session, c) /\ "signal" \in session.waiting
    BY <1>3 DEF SignalArrives, Waits
  <2>2. data \in Seq(Nat)
    BY DEF Signal, SIGHUP, SIGINT, SIGTERM
  <2> HIDE DEF data
  <2>3. c \in Completion /\ c.op = "signal" /\ c.failure = "success"
    BY <1>0, <2>2, DoneType
  <2> HIDE DEF c
  <2>4. CoreInv(session') /\ ProgressInv(session')
    BY <2>1, <2>3, CompleteCore DEF ControlInv
  <2> QED BY <1>3, <2>4 DEF SignalArrives, ControlInv, TypeOK, CoreInv
<1> QED BY <1>1, <1>2, <1>3, ReceivesControl, SendsControl DEF Complete

\* What holds of the session from which a handler has been dequeued.
LEMMA DispatchControl ==
  ASSUME ControlInv, Running, session.ready # <<>>
  PROVE  LET c == Head(session.ready)
             d == dispatch(session)
         IN  /\ CoreInv(d) /\ FailureStops(d) /\ ~d.exit_requested
             /\ d.socket = session.socket
             /\ c.op # "signal" => d.socket = "closed" \/ "signal" \in Outstanding(d)
             /\ c \in Completion /\ c \in Queued(session)
             /\ c.op \in Outstanding(session)
             /\ Outstanding(d) = Outstanding(session) \ {c.op}
             /\ SameData(d, session) /\ SameOutcome(d, session)
             /\ c.op \in ReceiveLane =>
                    Free(d, ReceiveLane) /\ ~d.is_receive_complete
             /\ c.op \in SendLane => Free(d, SendLane) /\ ~d.is_send_complete
             /\ c.op \notin ReceiveLane => ReceiveGoesOn(d)
             /\ c.op \notin SendLane => SendGoesOn(d)
<1> DEFINE c == Head(session.ready)
           d == dispatch(session)
<1>1. /\ Base(d)
      /\ c \in Completion /\ c \in Queued(session) /\ c.op \in Outstanding(session)
      /\ Outstanding(d) = Outstanding(session) \ {c.op}
      /\ Queued(d) = Queued(session) \ {c}
      /\ d.waiting = session.waiting /\ d.socket = session.socket
      /\ SameData(d, session) /\ SameOutcome(d, session)
  BY CoreSplit, DispatchBase DEF ControlInv
<1> HIDE DEF c, d
<1>2. CoreInv(session)
  BY DEF ControlInv
<1>3. Rest(d)
  BY <1>1, <1>2 DEF CoreInv, Rest, AbortedInv, CompleteInv, SizeInv,
              SameData, SameOutcome, Free
<1>4. FailureStops(d) /\ ~d.exit_requested
  BY <1>1 DEF ControlInv, ProgressInv, FailureStops, SameOutcome, Running
<1>5. /\ c.op \in ReceiveLane => Free(d, ReceiveLane) /\ ~d.is_receive_complete
      /\ c.op \in SendLane => Free(d, SendLane) /\ ~d.is_send_complete
  BY <1>1, <1>2 DEF CoreInv, LaneInv, CompleteInv, Free, SameOutcome
<1>6. /\ c.op \notin ReceiveLane => ReceiveGoesOn(d)
      /\ c.op \notin SendLane => SendGoesOn(d)
      /\ c.op # "signal" => d.socket = "closed" \/ "signal" \in Outstanding(d)
  BY <1>1 DEF ControlInv, ProgressInv, SameOutcome, Free, Running,
              ReceiveGoesOn, SendGoesOn
<1> QED BY <1>1, <1>3, <1>4, <1>5, <1>6, CoreSplit DEF c, d

\* What a handler has to leave for the invariant to hold.
LEMMA LeavesProgress ==
  ASSUME NEW d, NEW r, Leaves(r, d), FailureStops(r),
         r.exit_requested \/ ReceiveGoesOn(r), r.exit_requested \/ SendGoesOn(r),
         "signal" \in Outstanding(d)
  PROVE  ProgressInv(r)
BY DEF ProgressInv, FailureStops, Leaves, ReceiveGoesOn, SendGoesOn

\* The handler that starts the timer and then the transfer, Session::start_timer and
\* Session::start_transfer.
LEMMA StartControl ==
  ASSUME ControlInv, Dispatches("start")
  PROVE  LET r == start_transfer(start_timer(dispatch(session)))
         IN  CoreInv(r) /\ ProgressInv(r) /\ Leaves(r, dispatch(session))
<1> DEFINE d == dispatch(session)
           e == begin(d, "timeout")
           s == start_receiving(e)
           t == start_sending(s)
<1>1. /\ "start" \in ReceiveLane /\ "start" \in SendLane
      /\ "timeout" \notin ReceiveLane /\ "timeout" \notin SendLane
  BY DEF ReceiveLane, SendLane
<1>2. /\ CoreInv(d) /\ FailureStops(d) /\ ~d.exit_requested
      /\ "start" \in Outstanding(session)
      /\ Outstanding(d) = Outstanding(session) \ {"start"}
      /\ Free(d, ReceiveLane) /\ ~d.is_receive_complete
      /\ Free(d, SendLane) /\ ~d.is_send_complete
      /\ d.socket = "closed" \/ "signal" \in Outstanding(d)
  BY <1>1, DispatchControl DEF Dispatches
<1>3. "timeout" \notin Outstanding(d) /\ "signal" \in Outstanding(d)
  BY <1>2 DEF ControlInv, CoreInv, LaneInv, CompleteInv
<1> HIDE DEF d
<1>4. /\ CoreInv(e) /\ Outstanding(e) = Outstanding(d) \cup {"timeout"}
      /\ SameData(e, d) /\ SameOutcome(e, d)
  BY <1>1, <1>2, <1>3, BeginCore
<1> HIDE DEF e
<1>5. /\ Free(e, ReceiveLane) /\ ~e.is_receive_complete
      /\ Free(e, SendLane) /\ ~e.is_send_complete
      /\ FailureStops(e) /\ ~e.exit_requested
  BY <1>1, <1>2, <1>4 DEF Free, SameOutcome, FailureStops
<1>6. /\ CoreInv(s) /\ FailureStops(s) /\ ~s.exit_requested
      /\ Free(s, SendLane) /\ ~s.is_send_complete
      /\ ReceiveGoesOn(s) /\ Outstanding(e) \subseteq Outstanding(s)
      /\ s.configuration = e.configuration
  <2>1. CASE e.configuration.direction = "TX"
    <3>1. s = on_receive_complete(e)
      BY <2>1 DEF start_receiving, finish_receive
    <3> QED BY <1>4, <1>5, <2>1, <3>1, OnReceiveCompleteCore
            DEF Free, ReceiveGoesOn, FailureStops, SameData
  <2>2. CASE e.configuration.direction # "TX"
    <3>1. s = async_receive(e, 0)
      BY <2>2 DEF start_receiving
    <3> QED BY <1>4, <1>5, <3>1, AsyncReceiveCore
            DEF Free, ReceiveGoesOn, FailureStops, SameCounts, SameOutcome
  <2> QED BY <2>1, <2>2
<1> HIDE DEF s
<1>7. /\ CoreInv(t) /\ FailureStops(t) /\ ~t.exit_requested
      /\ SendGoesOn(t) /\ ReceiveGoesOn(t) /\ Outstanding(s) \subseteq Outstanding(t)
  <2>1. CASE s.configuration.direction = "RX"
    <3>1. t = on_send_complete(s)
      BY <2>1 DEF start_sending, finish_send
    <3> QED BY <1>6, <2>1, <3>1, OnSendCompleteCore
            DEF Free, ReceiveGoesOn, SendGoesOn, FailureStops
  <2>2. CASE s.configuration.direction # "RX"
    <3>1. t = async_send(s, 0)
      BY <2>2 DEF start_sending
    <3> QED BY <1>6, <3>1, AsyncSendCore
            DEF Free, ReceiveGoesOn, SendGoesOn, FailureStops, SameCounts, SameOutcome
  <2> QED BY <2>1, <2>2
<1> HIDE DEF t
<1>8. Leaves(t, d)
  BY <1>4, <1>6, <1>7 DEF Leaves
<1>9. ProgressInv(t)
  BY <1>3, <1>7, <1>8, LeavesProgress
<1> QED BY <1>7, <1>8, <1>9 DEF start_transfer, start_timer, t, s, e, d

\* The handlers of a receive and of the receiving throttle.
LEMMA ReceiveControl ==
  ASSUME ControlInv, NEW r,
         \/ /\ Dispatches("receive")
            /\ r = on_receive(dispatch(session), Head(session.ready))
         \/ /\ Dispatches("receive_throttle")
            /\ r = on_receive_slice(dispatch(session), Head(session.ready))
  PROVE  CoreInv(r) /\ ProgressInv(r) /\ Leaves(r, dispatch(session))
<1> DEFINE d == dispatch(session)
           c == Head(session.ready)
<1>1. {"receive", "receive_throttle"} \subseteq ReceiveLane \ SendLane
  BY DEF ReceiveLane, SendLane
<1>2. /\ CoreInv(d) /\ FailureStops(d) /\ ~d.exit_requested
      /\ d.socket = "closed" \/ "signal" \in Outstanding(d)
      /\ c \in Completion /\ c \in Queued(session)
      /\ c.op \in {"receive", "receive_throttle"}
      /\ Free(d, ReceiveLane) /\ ~d.is_receive_complete
      /\ SendGoesOn(d)
      /\ SameData(d, session)
  BY <1>1, DispatchControl DEF Dispatches
<1>3. \/ c.op = "receive" /\ r = on_receive(d, c)
      \/ c.op = "receive_throttle" /\ r = on_receive_slice(d, c)
  BY DEF Dispatches
<1> HIDE DEF c, d
<1>4. /\ c.failure = "success"
      /\ c.op = "receive" => Len(c.data) <= d.receive_slice
  BY <1>2 DEF ControlInv, CoreInv, AbortedInv, SizeInv, SameData
<1>5. "signal" \in Outstanding(d)
  BY <1>2 DEF CoreInv, CompleteInv
<1>6. /\ CoreInv(r) /\ FailureStops(r) /\ Leaves(r, d)
      /\ ReceiveGoesOn(r) /\ r.is_send_complete = d.is_send_complete
  <2>1. CASE c.op = "receive" /\ r = on_receive(d, c)
    BY <1>2, <1>4, <2>1, OnReceiveCore
  <2>2. CASE c.op = "receive_throttle" /\ r = on_receive_slice(d, c)
    <3>1. r = async_receive(d, d.configuration.receive_slice)
      BY <1>4, <2>2 DEF on_receive_slice
    <3>2. d.configuration.receive_slice \in Nat
      BY <1>2 DEF CoreInv, SessionState, SessionConfiguration
    <3> QED BY <1>2, <3>1, <3>2, AsyncReceiveCore
            DEF ReceiveGoesOn, Leaves, Free, FailureStops, SameCounts, SameOutcome
  <2> QED BY <1>3, <2>1, <2>2
<1>7. SendGoesOn(r)
  BY <1>2, <1>6 DEF SendGoesOn, Leaves, Free
<1>8. ProgressInv(r)
  BY <1>5, <1>6, <1>7, LeavesProgress
<1> QED BY <1>6, <1>8 DEF d

\* The handlers of a send and of the sending throttle.
LEMMA SendControl ==
  ASSUME ControlInv, NEW r,
         \/ /\ Dispatches("send")
            /\ r = on_send(dispatch(session), Head(session.ready))
         \/ /\ Dispatches("send_throttle")
            /\ r = on_send_slice(dispatch(session), Head(session.ready))
  PROVE  CoreInv(r) /\ ProgressInv(r) /\ Leaves(r, dispatch(session))
<1> DEFINE d == dispatch(session)
           c == Head(session.ready)
<1>1. {"send", "send_throttle"} \subseteq SendLane \ ReceiveLane
  BY DEF ReceiveLane, SendLane
<1>2. /\ CoreInv(d) /\ FailureStops(d) /\ ~d.exit_requested
      /\ d.socket = "closed" \/ "signal" \in Outstanding(d)
      /\ c \in Completion /\ c \in Queued(session) /\ c.op \in Outstanding(session)
      /\ c.op \in {"send", "send_throttle"}
      /\ Free(d, SendLane) /\ ~d.is_send_complete
      /\ ReceiveGoesOn(d)
      /\ SameData(d, session)
  BY <1>1, DispatchControl DEF Dispatches
<1>3. \/ c.op = "send" /\ r = on_send(d, c)
      \/ c.op = "send_throttle" /\ r = on_send_slice(d, c)
  BY DEF Dispatches
<1> HIDE DEF c, d
<1>4. /\ c.failure \in {"success", "network_unreachable"}
      /\ c.op = "send_throttle" => c.failure = "success"
      /\ c.op = "send" => /\ Len(c.data) <= d.send_slice
                          /\ d.sent + d.send_slice <= d.configuration.size
  BY <1>2 DEF ControlInv, CoreInv, AbortedInv, SizeInv, SameData
<1>5. "signal" \in Outstanding(d)
  BY <1>2 DEF CoreInv, CompleteInv
<1>6. /\ CoreInv(r) /\ FailureStops(r) /\ Leaves(r, d)
      /\ r.exit_requested \/ SendGoesOn(r)
      /\ r.is_receive_complete = d.is_receive_complete
  <2>1. CASE c.op = "send" /\ r = on_send(d, c)
    BY <1>2, <1>4, <2>1, OnSendCore
  <2>2. CASE c.op = "send_throttle" /\ r = on_send_slice(d, c)
    <3>1. r = async_send(d, d.configuration.send_slice)
      BY <1>4, <2>2 DEF on_send_slice
    <3>2. d.configuration.send_slice \in Nat
      BY <1>2 DEF CoreInv, SessionState, SessionConfiguration
    <3> QED BY <1>2, <3>1, <3>2, AsyncSendCore
            DEF SendGoesOn, Leaves, Free, FailureStops, SameCounts, SameOutcome
  <2> QED BY <1>3, <2>1, <2>2
<1>7. ReceiveGoesOn(r)
  BY <1>2, <1>6 DEF ReceiveGoesOn, Leaves, Free
<1>8. ProgressInv(r)
  BY <1>5, <1>6, <1>7, LeavesProgress
<1> QED BY <1>6, <1>8 DEF d

\* The handlers of the timer and of signals: they report, but for those of a closed
\* session, which may have been cancelled.
LEMMA TimeoutControl ==
  ASSUME ControlInv, NEW r,
         \/ /\ Dispatches("timeout")
            /\ r = on_timeout(dispatch(session), Head(session.ready))
         \/ /\ Dispatches("signal")
            /\ r = on_signal(dispatch(session), Head(session.ready))
  PROVE  /\ CoreInv(r) /\ ProgressInv(r)
         /\ \/ r = dispatch(session) /\ session.socket = "closed"
            \/ \E f \in Interruptions : r = abort(dispatch(session), f)
<1> DEFINE d == dispatch(session)
           c == Head(session.ready)
<1>1. {"timeout", "signal"} \cap (ReceiveLane \cup SendLane) = {}
  BY DEF ReceiveLane, SendLane
<1>2. /\ CoreInv(d) /\ FailureStops(d) /\ d.socket = session.socket
      /\ c \in Queued(session) /\ c.op \in {"timeout", "signal"}
      /\ ReceiveGoesOn(d) /\ SendGoesOn(d)
  BY <1>1, DispatchControl DEF Dispatches
<1>3. Interruptions \subseteq Reported
  BY DEF Interruptions, Reported, ErrorCode, Error
<1>4. c.failure = "success" \/ session.socket = "closed"
  BY <1>2 DEF ControlInv, CoreInv, AbortedInv
<1>5. \/ r = d /\ session.socket = "closed"
      \/ \E f \in Interruptions : r = abort(d, f)
  BY <1>4 DEF on_timeout, on_signal, Interruptions
<1> HIDE DEF d, c
<1>6. CASE r = d /\ session.socket = "closed"
  BY <1>2, <1>6 DEF ProgressInv, FailureStops, ReceiveGoesOn, SendGoesOn, d
<1>7. CASE \E f \in Interruptions : r = abort(d, f)
  BY <1>2, <1>3, <1>7, AbortCore DEF ProgressInv, Reported, d
<1> QED BY <1>5, <1>6, <1>7

\* Every handler keeps the invariant.
LEMMA HandleControl ==
  ASSUME ControlInv, Handle
  PROVE  ControlInv'
<1>1. CoreInv(session') /\ ProgressInv(session')
  <2>1. CASE HandleStart BY <2>1, StartControl DEF HandleStart
  <2>2. CASE HandleReceiveThrottle \/ HandleReceive
    BY <2>2, ReceiveControl DEF HandleReceiveThrottle, HandleReceive
  <2>3. CASE HandleSendThrottle \/ HandleSend
    BY <2>3, SendControl DEF HandleSendThrottle, HandleSend
  <2>4. CASE HandleTimeout \/ HandleSignal
    BY <2>4, TimeoutControl DEF HandleTimeout, HandleSignal
  <2> QED BY <2>1, <2>2, <2>3, <2>4 DEF Handle
<1>2. UNCHANGED <<arrived, outgoing, head, strange>>
  BY DEF Handle, HandleStart, HandleReceiveThrottle, HandleReceive,
         HandleSendThrottle, HandleSend, HandleTimeout, HandleSignal
<1> QED BY <1>1, <1>2 DEF ControlInv, TypeOK, CoreInv

\* The network and the other sessions keep the invariant.
LEMMA EnvironmentControl ==
  ASSUME ControlInv, Environment
  PROVE  ControlInv'
<1>1. CASE ExitRequestedElsewhere
  <2>1. session \in SessionState
    BY DEF ControlInv, TypeOK
  <2>2. /\ session' \in SessionState /\ SameQueue(session, session')
        /\ SameData(session', session) /\ session'.socket = session.socket
        /\ session'.is_receive_complete = session.is_receive_complete
        /\ session'.is_send_complete = session.is_send_complete
        /\ session'.failure = session.failure /\ session'.exit_requested
    BY <1>1, <2>1 DEF ExitRequestedElsewhere, SessionState, SameQueue, SameData
  <2>3. Base(session') /\ Outstanding(session') = Outstanding(session)
        /\ Queued(session') = Queued(session)
    BY <2>2, CoreSplit, FrameBase DEF ControlInv
  <2>4. Rest(session')
    BY <2>2, <2>3 DEF ControlInv, CoreInv, Rest, AbortedInv, CompleteInv, SizeInv,
          SameData, SameQueue, Free
  <2>5. CoreInv(session') /\ ProgressInv(session')
    BY <2>2, <2>3, <2>4, CoreSplit DEF ProgressInv
  <2> QED BY <1>1, <2>2, <2>5 DEF ControlInv, TypeOK, ExitRequestedElsewhere
<1>2. ASSUME NEW datagram \in Datagrams, Arrives(datagram) PROVE ControlInv'
  <2>1. arrived' \in Seq(Seq(Byte))
    BY <1>2, DatagramsAssumption DEF Arrives, ControlInv, TypeOK
  <2> QED BY <1>2, <2>1 DEF Arrives, ControlInv, TypeOK
<1>3. CASE Departs
  <2>1. outgoing' \in Seq(Seq(Byte))
    BY <1>3 DEF Departs, ControlInv, TypeOK
  <2> QED BY <1>3, <2>1 DEF Departs, ControlInv, TypeOK
<1> QED BY <1>1, <1>2, <1>3 DEF Environment

\* Every step keeps the invariant.
LEMMA ControlStep ==
  ASSUME ControlInv, [Next]_vars
  PROVE  ControlInv'
<1>1. CASE Next
  BY <1>1, CompleteControl, HandleControl, EnvironmentControl DEF Next
<1>2. CASE UNCHANGED vars
  BY <1>2 DEF vars, ControlInv, TypeOK
<1> QED BY <1>1, <1>2

\* The inductive invariant: the control of a session, whatever arrives and whatever
\* becomes of what it sends.
THEOREM ControlInvariant == Spec => []ControlInv
BY InitControl, ControlStep, PTL DEF Spec

-----------------------------------------------------------------------------
(* The promise to the application.                                         *)

\* The promise speaks of the same failures.
LEMMA SameErrors ==
  /\ Promise!ErrorCode = ErrorCode
  /\ Promise!Interruption = Interruptions
BY DEF Promise!ErrorCode, Promise!Error, Promise!SystemError, ErrorCode, Error,
       SystemError, Promise!Interruption, Interruptions

\* What aborts may turn the outcome of a session into, before it is closed and after.
LEMMA PromiseAborts ==
  ASSUME NEW o
  PROVE  /\ o.status = "active" =>
                Promise!aborts(o) =
                    [status : {"active"}, failure : Reported]
                        \cup [status : {"finished"}, failure : {"data_mismatch"}]
         /\ o.status = "finished" =>
                Promise!aborts(o) =
                    [status : {"finished", "idle"}, failure : Interruptions]
<1>1. ASSUME o.status = "active"
      PROVE  Promise!aborts(o) =
                [status : {"active"}, failure : Reported]
                    \cup [status : {"finished"}, failure : {"data_mismatch"}]
  BY <1>1, SameErrors DEF Promise!aborts, Reported
<1>2. ASSUME o.status = "finished"
      PROVE  Promise!aborts(o) =
                [status : {"finished", "idle"}, failure : Interruptions]
  BY <1>2, SameErrors DEF Promise!aborts
<1> QED BY <1>1, <1>2

\* A session starts unfinished.
LEMMA PromiseInit == Init => Promise!Init
BY DEF Init, initialize, post, new, Promise!Init, Promise!Unfinished, OutcomeOf

\* What completes, completes for a session that is not closed.
LEMMA CompletePromise ==
  ASSUME ControlInv, Complete
  PROVE  UNCHANGED Promise!vars
<1>1. session.waiting # {}
  BY DEF Complete, ReceivesDatagram, SendsDatagram, SendFails, TimerExpires,
         SignalArrives, Waits
<1>2. session.socket # "closed" /\ session \in SessionState
  BY <1>1 DEF ControlInv, CoreInv, CompleteInv
<1>3. \E c : session' = complete(session, c)
  BY DEF Complete, ReceivesDatagram, SendsDatagram, SendFails, TimerExpires,
         SignalArrives
<1>4. /\ session'.socket = session.socket
      /\ session'.failure = session.failure
      /\ session'.exit_requested = session.exit_requested
  BY <1>2, <1>3 DEF complete, SessionState
<1> QED BY <1>2, <1>4 DEF Promise!vars, OutcomeOf

\* The handlers of the transfer, which leave the signal of the session outstanding.
LEMMA TransferPromise ==
  ASSUME ControlInv, ControlInv', Running, session.socket # "closed",
         NEW d, Leaves(session', d), "signal" \in Outstanding(d)
  PROVE  [Promise!Next]_(Promise!vars)
<1>1. /\ session.failure = "success" /\ session.exit_requested = FALSE
      /\ OutcomeOf(session) = [status |-> "active", failure |-> "success"]
  BY DEF OutcomeOf, ControlInv, ProgressInv, Running, TypeOK, SessionState
<1>2. /\ session'.exit_requested \in BOOLEAN
      /\ session'.failure \in ErrorCode
      /\ ~session'.exit_requested => session'.failure = "success"
  BY DEF ControlInv, ProgressInv, TypeOK, SessionState
<1>3. OutcomeOf(session)' =
        [status |-> IF session'.socket = "closed" THEN "finished" ELSE "active",
         failure |-> session'.failure]
  <2>1. CASE session'.socket = "closed"
    <3>1. "signal" \in Outstanding(session') /\ session'.waiting = {}
      BY <2>1 DEF Leaves, ControlInv, CoreInv, CompleteInv
    <3>2. session'.ready # <<>>
      BY <3>1 DEF Outstanding, Queued
    <3> QED BY <2>1, <3>2 DEF OutcomeOf, stopped
  <2>2. CASE session'.socket # "closed"
    BY <2>2 DEF OutcomeOf
  <2> QED BY <2>1, <2>2
<1>4. CASE session'.exit_requested
  <2>1. /\ session'.failure \in Reported
        /\ session'.socket = "closed" => session'.failure = "data_mismatch"
    BY <1>2, <1>4 DEF Leaves, ControlInv, CoreInv, AbortedInv, Reported
  <2>2. OutcomeOf(session)' \in [status : {"active"}, failure : Reported]
            \cup [status : {"finished"}, failure : {"data_mismatch"}]
    BY <1>3, <2>1
  <2>3. OutcomeOf(session)' \in Promise!aborts(OutcomeOf(session))
    BY <1>1, <2>2, PromiseAborts
  <2> QED BY <1>1, <1>2, <1>4, <2>3 DEF Promise!Next, Promise!Aborts
<1>5. CASE ~session'.exit_requested
  <2>1. session'.failure = "success" /\ session'.exit_requested = FALSE
    BY <1>2, <1>5
  <2>2. CASE session'.socket # "closed"
    BY <1>1, <1>3, <2>1, <2>2 DEF Promise!vars
  <2>3. CASE session'.socket = "closed"
    <3>1. OutcomeOf(session)' = [status |-> "finished", failure |-> "success"]
      BY <1>3, <2>1, <2>3
    <3>2. OutcomeOf(session)' \in Promise!advances(OutcomeOf(session))
      BY <1>1, <3>1 DEF Promise!advances
    <3> QED BY <1>1, <2>1, <3>2 DEF Promise!Next, Promise!Advances
  <2> QED BY <2>2, <2>3
<1> QED BY <1>4, <1>5

\* The handlers of the timer and of signals, before and after the session is closed.
LEMMA InterruptionPromise ==
  ASSUME ControlInv, ControlInv', Running, session.ready # <<>>,
         \/ session' = dispatch(session) /\ session.socket = "closed"
         \/ \E f \in Interruptions : session' = abort(dispatch(session), f)
  PROVE  [Promise!Next]_(Promise!vars)
<1> DEFINE d == dispatch(session)
<1>1. /\ d.socket = session.socket /\ CoreInv(d)
      /\ d.failure = session.failure
      /\ d.exit_requested = session.exit_requested
  BY DispatchControl DEF SameOutcome
<1>2. session.failure = "success" /\ session.exit_requested = FALSE
  BY DEF ControlInv, ProgressInv, Running, TypeOK, SessionState
<1>3. session.socket = "closed" =>
        OutcomeOf(session) = [status |-> "finished", failure |-> "success"]
  BY <1>2 DEF OutcomeOf, stopped
<1> HIDE DEF d
<1>4. ASSUME NEW f \in Interruptions, session' = abort(d, f)
      PROVE  [Promise!Next]_(Promise!vars)
  <2>1. f \in Reported
    BY DEF Interruptions, Reported, ErrorCode, Error
  <2>2. /\ session'.socket = session.socket /\ session'.failure = f
        /\ session'.exit_requested = TRUE
    BY <1>1, <1>4, <2>1, AbortCore DEF ControlInv, TypeOK, SessionState
  <2>3. OutcomeOf(session)' \in Promise!aborts(OutcomeOf(session))
    <3>1. CASE session.socket # "closed"
      <4>1. /\ OutcomeOf(session) = [status |-> "active", failure |-> "success"]
            /\ OutcomeOf(session)' = [status |-> "active", failure |-> f]
        BY <1>2, <2>2, <3>1 DEF OutcomeOf
      <4> QED BY <2>1, <4>1, PromiseAborts
    <3>2. CASE session.socket = "closed"
      <4>1. OutcomeOf(session)' \in [status : {"finished", "idle"}, failure : {f}]
        BY <2>2, <3>2 DEF OutcomeOf
      <4> QED BY <1>3, <3>2, <4>1, PromiseAborts
    <3> QED BY <3>1, <3>2
  <2> QED BY <1>2, <2>2, <2>3 DEF Promise!Next, Promise!Aborts
<1>5. CASE session' = d /\ session.socket = "closed"
  <2>1. /\ session'.socket = "closed" /\ session'.failure = "success"
        /\ session'.exit_requested = FALSE
    BY <1>1, <1>2, <1>5
  <2>2. OutcomeOf(session)' = [status |-> IF stopped(session') THEN "idle" ELSE "finished",
                               failure |-> "success"]
    BY <2>1 DEF OutcomeOf, stopped
  <2>3. CASE stopped(session')
    <3>1. OutcomeOf(session)' \in Promise!advances(OutcomeOf(session))
      BY <1>3, <1>5, <2>2, <2>3 DEF Promise!advances
    <3> QED BY <1>2, <2>1, <3>1 DEF Promise!Next, Promise!Advances
  <2>4. CASE ~stopped(session')
    BY <1>2, <1>3, <1>5, <2>1, <2>2, <2>4 DEF Promise!vars
  <2> QED BY <2>3, <2>4
<1> QED BY <1>4, <1>5 DEF d

\* The handlers of the transfer are those of a session that is not closed, and leave its
\* wait for a signal as it is.
LEMMA TransferHandled ==
  ASSUME ControlInv, Handle, ~(HandleTimeout \/ HandleSignal)
  PROVE  /\ Leaves(session', dispatch(session))
         /\ Running /\ session.ready # <<>> /\ session.socket # "closed"
         /\ Head(session.ready).op \notin {"timeout", "signal"}
         /\ "signal" \in Outstanding(dispatch(session))
<1> DEFINE d == dispatch(session)
           Others == {"start", "receive_throttle", "receive", "send_throttle", "send"}
<1>1. PICK op \in Others : Dispatches(op)
  BY DEF Handle, HandleStart, HandleReceiveThrottle, HandleReceive,
         HandleSendThrottle, HandleSend
<1>2. Leaves(session', d)
  <2>1. CASE HandleStart BY <2>1, StartControl DEF HandleStart
  <2>2. CASE HandleReceiveThrottle \/ HandleReceive
    BY <2>2, ReceiveControl DEF HandleReceiveThrottle, HandleReceive
  <2>3. CASE HandleSendThrottle \/ HandleSend
    BY <2>3, SendControl DEF HandleSendThrottle, HandleSend
  <2> QED BY <2>1, <2>2, <2>3 DEF Handle
<1>3. /\ Running /\ session.ready # <<>> /\ Head(session.ready).op = op
      /\ op \in Outstanding(session) /\ d.socket = session.socket
      /\ d.socket = "closed" \/ "signal" \in Outstanding(d)
  BY <1>1, DispatchControl DEF Dispatches
<1>4. session.socket # "closed"
  BY <1>3 DEF ControlInv, CoreInv, CompleteInv, Free, ReceiveLane, SendLane
<1> HIDE DEF d
<1> QED BY <1>2, <1>3, <1>4 DEF d

\* Each handler is a step of the promise, and does not request the exit without a reason.
LEMMA HandlePromise ==
  ASSUME ControlInv, ControlInv', Handle
  PROVE  /\ [Promise!Next]_(Promise!vars)
         /\ session'.exit_requested => session'.failure # "success"
<1> DEFINE d == dispatch(session)
<1>1. CASE HandleTimeout \/ HandleSignal
  <2>1. Running /\ session.ready # <<>>
    BY <1>1 DEF HandleTimeout, HandleSignal, Dispatches
  <2>2. \/ session' = d /\ session.socket = "closed"
        \/ \E f \in Interruptions : session' = abort(d, f)
    BY <1>1, TimeoutControl DEF HandleTimeout, HandleSignal
  <2>3. CoreInv(d) /\ ~d.exit_requested
    BY <2>1, DispatchControl
  <2> HIDE DEF d
  <2>4. ASSUME NEW f \in Interruptions, session' = abort(d, f)
        PROVE  session'.failure # "success"
    <3>1. f \in Reported /\ f # "success"
      BY DEF Interruptions, Reported, ErrorCode, Error
    <3> QED BY <2>3, <2>4, <3>1, AbortCore
  <2> QED BY <2>1, <2>2, <2>3, <2>4, InterruptionPromise DEF d
<1>2. CASE ~(HandleTimeout \/ HandleSignal)
  <2>1. /\ Leaves(session', d) /\ Running /\ session.socket # "closed"
        /\ "signal" \in Outstanding(d)
    BY <1>2, TransferHandled
  <2> HIDE DEF d
  <2> QED BY <2>1, TransferPromise DEF Leaves
<1> QED BY <1>1, <1>2

\* The exit that another session requests changes nothing else.
LEMMA EnvironmentPromise ==
  ASSUME ControlInv, Environment
  PROVE  [Promise!Next]_(Promise!vars)
<1>1. CASE ExitRequestedElsewhere
  <2>1. session \in SessionState /\ session.exit_requested = FALSE
    BY <1>1 DEF ExitRequestedElsewhere, ControlInv, TypeOK, Running, SessionState
  <2>2. /\ session'.socket = session.socket /\ session'.failure = session.failure
        /\ session'.waiting = session.waiting /\ session'.ready = session.ready
        /\ session'.exit_requested = TRUE
    BY <1>1, <2>1 DEF ExitRequestedElsewhere, SessionState
  <2>3. OutcomeOf(session)' = OutcomeOf(session)
    BY <2>2 DEF OutcomeOf, stopped
  <2> QED BY <2>1, <2>2, <2>3 DEF Promise!Next, Promise!ExitRequestedElsewhere
<1>2. CASE ~ExitRequestedElsewhere
  <2>1. session' = session
    BY <1>2 DEF Environment, Arrives, Departs
  <2> QED BY <2>1 DEF Promise!vars, OutcomeOf, stopped
<1> QED BY <1>1, <1>2

\* A UDP session keeps the same promise as a TCP session: it fails once at most,
\* finishes once, and is idle only after it was closed (Session.cpp:258-284).
THEOREM PromiseKept == Spec => KeepsPromise
<1>1. Init => Promise!Init
  BY PromiseInit
<1>2. ControlInv /\ ControlInv' /\ [Next]_vars => [Promise!Next]_(Promise!vars)
  <2> SUFFICES ASSUME ControlInv, ControlInv', [Next]_vars
               PROVE  [Promise!Next]_(Promise!vars)
    OBVIOUS
  <2>1. CASE Next
    BY <2>1, CompletePromise, HandlePromise, EnvironmentPromise DEF Next
  <2>2. CASE UNCHANGED vars
    BY <2>2 DEF vars, Promise!vars, OutcomeOf, stopped
  <2> QED BY <2>1, <2>2
<1> QED BY <1>1, <1>2, ControlInvariant, PTL DEF Spec, KeepsPromise, Promise!Spec

-----------------------------------------------------------------------------
(* The bytes of datagrams.                                                 *)

\* The exactness of verification, and what it owes to the datagrams that have been
\* taken from the socket but not yet verified: their oddities are known, and if all
\* bytes are verified a wrong one can only be in the one that is queued.
DatagramInv ==
    /\ VerificationExact
    /\ Running =>
        \A c \in Queued(session) : c.op = "receive" =>
            /\ oddities(session, c.data) \subseteq strange
            /\ (session.configuration.verify = "ALL" /\ "wrong" \in strange) =>
                    "wrong" \in oddities(session, c.data)

\* A step between two sessions that neither counts nor verifies a byte.
Quiet(r, d) ==
    /\ r.configuration = d.configuration
    /\ r.received = d.received
    /\ r.failure = "data_mismatch" => d.failure = "data_mismatch"
    /\ d.exit_requested => r.exit_requested
    /\ Queued(d) \subseteq Queued(r)
    /\ \A c \in Queued(r) \ Queued(d) : c.failure = "operation_aborted"

\* What leaves the data of a session alone is quiet, and so is one call after another.
LEMMA QuietKeeps ==
  ASSUME NEW a, NEW b, NEW d, Keeps(a, b), Quiet(b, d)
  PROVE  Quiet(a, d)
BY DEF Keeps, Extends, Quiet

\* Aborting for another reason is quiet,
LEMMA QuietAbort ==
  ASSUME NEW d \in SessionState, NEW f \in ErrorCode \ {"data_mismatch"}
  PROVE  Quiet(abort(d, f), d)
<1> DEFINE b == abort(d, f)
<1>1. /\ b.configuration = d.configuration /\ b.received = d.received
      /\ b.ready = d.ready /\ b.failure = f /\ b.exit_requested
  BY DEF abort, SessionState
<1> HIDE DEF b
<1>2. Queued(b) = Queued(d)
  BY <1>1 DEF Queued
<1> QED BY <1>1, <1>2 DEF Quiet, b

\* and so are async_receive
LEMMA QuietAsyncReceive ==
  ASSUME NEW d \in SessionState, NEW slice \in Nat
  PROVE  Keeps(async_receive(d, slice), d)
BY KeepsReceiving DEF async_receive

\* and async_send.
LEMMA QuietAsyncSend ==
  ASSUME NEW d \in SessionState, NEW slice \in Nat, d.sent <= d.configuration.size
  PROVE  Keeps(async_send(d, slice), d)
BY KeepsSending DEF async_send

\* Completing a direction is quiet, too.
LEMMA QuietFinish ==
  ASSUME NEW d \in SessionState
  PROVE  /\ finish_receive(d) \in SessionState /\ Quiet(finish_receive(d), d)
         /\ finish_receive(d).sent = d.sent
         /\ Keeps(finish_send(d), d)
<1> DEFINE b == [d EXCEPT !.is_receive_complete = TRUE]
<1>1. /\ b.configuration = d.configuration /\ b.received = d.received
      /\ b.ready = d.ready /\ b.failure = d.failure /\ b.sent = d.sent
      /\ b.exit_requested = d.exit_requested
  BY DEF SessionState
<1>2. Keeps(finish_receive(d), b)
  BY KeepsReceiveComplete DEF finish_receive
<1> HIDE DEF b
<1>3. Queued(b) = Queued(d)
  BY <1>1 DEF Queued
<1>4. Quiet(b, d)
  BY <1>1, <1>3 DEF Quiet
<1>5. Quiet(finish_receive(d), d)
  BY <1>2, <1>4, QuietKeeps
<1>6. finish_receive(d) \in SessionState /\ finish_receive(d).sent = d.sent
  BY <1>1, <1>2 DEF Keeps
<1>7. Keeps(finish_send(d), d)
  BY KeepsSendComplete DEF finish_send
<1> QED BY <1>5, <1>6, <1>7

\* The state in which a handler is called.
LEMMA DispatchDatagram ==
  ASSUME ControlInv, Running, session.ready # <<>>
  PROVE  LET c == Head(session.ready)
             d == dispatch(session)
         IN  /\ d \in SessionState /\ c \in Completion /\ c \in Queued(session)
             /\ Queued(d) = Queued(session) \ {c}
             /\ SameData(d, session)
             /\ d.failure = "success" /\ session.failure = "success"
             /\ d.sent <= d.configuration.size
             /\ d.configuration.size \in Nat
<1>1. session.failure = "success"
  BY DEF ControlInv, ProgressInv, Running
<1>2. Base(session)
  BY CoreSplit DEF ControlInv
<1>3. session.sent <= session.configuration.size
  BY DEF ControlInv, CoreInv, SizeInv
<1> QED BY <1>1, <1>2, <1>3, DispatchBase
        DEF Base, SameData, SameOutcome, SessionState, SessionConfiguration

\* Every handler but that of a receive is quiet.
LEMMA QuietHandlers ==
  ASSUME ControlInv, Handle, ~HandleReceive
  PROVE  /\ Running /\ session.ready # <<>> /\ Head(session.ready).op # "receive"
         /\ Quiet(session', dispatch(session))
<1> DEFINE c == Head(session.ready)
           d == dispatch(session)
<1>1. /\ Running /\ session.ready # <<>> /\ c.op # "receive"
  BY DEF Handle, HandleStart, HandleReceiveThrottle, HandleSendThrottle, HandleSend,
         HandleTimeout, HandleSignal, Dispatches
<1>2. /\ d \in SessionState /\ c \in Completion /\ c \in Queued(session)
      /\ d.sent <= d.configuration.size /\ d.configuration.size \in Nat
      /\ d.failure = "success" /\ SameData(d, session)
  BY <1>1, DispatchDatagram
<1>3. /\ d.configuration.receive_slice \in Nat /\ d.configuration.send_slice \in Nat
      /\ d.sent \in Nat /\ d.send_slice \in Nat /\ 0 \in Nat
  BY <1>2 DEF SessionState, SessionConfiguration
<1>4. c.failure \in {"success", "operation_aborted", "network_unreachable"}
  BY <1>2 DEF ControlInv, CoreInv, AbortedInv
<1>5. \/ HandleStart
      \/ c.op = "receive_throttle" /\ session' = on_receive_slice(d, c)
      \/ c.op = "send_throttle" /\ session' = on_send_slice(d, c)
      \/ c.op = "send" /\ session' = on_send(d, c)
      \/ session' = on_timeout(d, c)
      \/ session' = on_signal(d, c)
  BY DEF Handle, HandleReceiveThrottle, HandleSendThrottle, HandleSend,
         HandleTimeout, HandleSignal, Dispatches
<1>6. c.op = "send" => Len(c.data) <= session.send_slice
  BY <1>2 DEF ControlInv, CoreInv, SizeInv
<1>7. HandleStart => session' = start_transfer(start_timer(d))
  BY DEF HandleStart
<1> HIDE DEF c, d
<1>8. Quiet(d, d) /\ Keeps(d, d)
  BY <1>2, KeepsNothing DEF Quiet
<1>9. CASE HandleStart
  <2> DEFINE t == start_timer(d)
             r == start_receiving(t)
  <2>1. Keeps(t, d)
    BY <1>2, KeepsBegin DEF start_timer, Operation
  <2>2. t \in SessionState /\ t.sent = d.sent /\ t.configuration = d.configuration
        /\ Quiet(t, d)
    BY <1>8, <2>1, QuietKeeps DEF Keeps
  <2> HIDE DEF t
  <2>3. /\ r \in SessionState /\ r.sent = t.sent /\ r.configuration = t.configuration
        /\ Quiet(r, d)
    <3>1. CASE t.configuration.direction = "TX"
      <4>1. r = finish_receive(t)
        BY <3>1 DEF start_receiving
      <4>2. Quiet(r, t) /\ r \in SessionState /\ r.sent = t.sent
        BY <2>2, <4>1, QuietFinish
      <4> HIDE DEF r
      <4> QED BY <2>2, <4>2 DEF Quiet
    <3>2. CASE t.configuration.direction # "TX"
      <4>1. r = async_receive(t, 0)
        BY <3>2 DEF start_receiving
      <4>2. Keeps(r, t)
        BY <1>3, <2>2, <4>1, QuietAsyncReceive
      <4> QED BY <2>2, <4>2, QuietKeeps DEF Keeps
    <3> QED BY <3>1, <3>2
  <2> HIDE DEF r
  <2>4. Keeps(start_sending(r), r)
    BY <1>2, <1>3, <2>2, <2>3, QuietFinish, QuietAsyncSend DEF start_sending
  <2>5. session' = start_sending(r)
    BY <1>7, <1>9 DEF start_transfer, r, t
  <2> QED BY <1>1, <2>3, <2>4, <2>5, QuietKeeps DEF c, d
<1>10. CASE c.op = "receive_throttle" /\ session' = on_receive_slice(d, c)
  <2>1. Keeps(session', d)
    BY <1>2, <1>3, <1>8, <1>10, QuietAsyncReceive DEF on_receive_slice
  <2> QED BY <1>1, <1>8, <2>1, QuietKeeps DEF c, d
<1>11. CASE c.op = "send_throttle" /\ session' = on_send_slice(d, c)
  <2>1. Keeps(session', d)
    BY <1>2, <1>3, <1>8, <1>11, QuietAsyncSend DEF on_send_slice
  <2> QED BY <1>1, <1>8, <2>1, QuietKeeps DEF c, d
<1>12. CASE c.op = "send" /\ session' = on_send(d, c)
  <2>1. CASE c.failure = "operation_aborted"
    <3>1. session' = d
      BY <1>12, <2>1 DEF on_send
    <3> QED BY <1>1, <1>8, <3>1 DEF c, d
  <2>2. CASE c.failure = "network_unreachable"
    <3>1. session' = abort(d, "network_unreachable")
      BY <1>12, <2>2 DEF on_send
    <3>2. "network_unreachable" \in ErrorCode \ {"data_mismatch"}
      BY DEF ErrorCode, SystemError
    <3> QED BY <1>1, <1>2, <3>1, <3>2, QuietAbort DEF c, d
  <2>3. CASE c.failure = "success"
    <3> DEFINE m == sent(d, c.data)
    <3>1. Len(c.data) \in Nat /\ Len(c.data) <= d.send_slice
      BY <1>2, <1>6, <1>12 DEF Completion, SameData
    <3>2. session' = IF m.sent < d.configuration.size
                     THEN async_send(m, d.send_slice - Len(c.data))
                     ELSE finish_send(m)
      BY <1>12, <2>3 DEF on_send
    <3>3. d.sent + Len(c.data) \in Nat /\ d.send_slice - Len(c.data) \in Nat
      BY <1>3, <3>1
    <3>4. /\ m \in SessionState /\ m.configuration = d.configuration
          /\ m.received = d.received /\ m.failure = d.failure /\ m.ready = d.ready
          /\ m.exit_requested = d.exit_requested
      BY <1>2, <3>3 DEF sent, SessionState
    <3> HIDE DEF m
    <3>5. Quiet(m, d)
      BY <3>4 DEF Quiet, Queued
    <3>6. Keeps(session', m)
      <4>1. CASE m.sent < d.configuration.size
        <5>1. m.sent <= m.configuration.size
          BY <1>2, <3>4, <4>1 DEF SessionState
        <5> QED BY <3>2, <3>3, <3>4, <4>1, <5>1, QuietAsyncSend
      <4>2. CASE ~(m.sent < d.configuration.size)
        BY <3>2, <3>4, <4>2, QuietFinish
      <4> QED BY <4>1, <4>2
    <3> QED BY <1>1, <3>5, <3>6, QuietKeeps DEF c, d
  <2> QED BY <1>4, <2>1, <2>2, <2>3
<1>13. CASE session' = on_timeout(d, c) \/ session' = on_signal(d, c)
  <2>1. session' = d \/ \E f \in Interruptions : session' = abort(d, f)
    BY <1>13 DEF on_timeout, on_signal, Interruptions
  <2>2. Interruptions \subseteq ErrorCode \ {"data_mismatch"}
    BY DEF Interruptions, ErrorCode, Error
  <2> QED BY <1>1, <1>2, <1>8, <2>1, <2>2, QuietAbort DEF c, d
<1> QED BY <1>5, <1>9, <1>10, <1>11, <1>12, <1>13

\* What verification finds: a byte out of its place, or for FIRST what an empty datagram
\* left in the buffer; and with ALL it finds every byte that is out of its place.
LEMMA VerifyFinds ==
  ASSUME NEW st \in SessionState, st.failure = "success", NEW data \in Seq(Nat)
  PROVE  LET v == verify_datagram(st, data)
         IN  /\ v \in SessionState
             /\ v.configuration = st.configuration /\ v.received = st.received
             /\ v.ready = st.ready
             /\ v.failure = "data_mismatch" =>
                    \/ /\ st.configuration.verify # "NONE"
                       /\ "wrong" \in oddities(st, data)
                    \/ /\ st.configuration.verify = "FIRST"
                       /\ "empty" \in oddities(st, data)
             /\ st.configuration.verify = "ALL" /\ "wrong" \in oddities(st, data) =>
                    v.exit_requested
<1> DEFINE b == abort(st, "data_mismatch")
           v == verify_datagram(st, data)
           Wrong(i) == data[i] # Pattern(st.received + i - 1)
<1>1. /\ b \in SessionState /\ b.configuration = st.configuration
      /\ b.received = st.received /\ b.ready = st.ready
      /\ b.failure = "data_mismatch" /\ b.exit_requested
  <2>1. "data_mismatch" \in ErrorCode
    BY DEF ErrorCode, Error
  <2> QED BY <2>1 DEF abort, SessionState
<1>2. v \in {b, st}
  BY DEF verify_datagram, verify
<1>3. /\ "wrong" \in oddities(st, data) <=> \E i \in DOMAIN data : Wrong(i)
      /\ "empty" \in oddities(st, data) <=> data = <<>>
  BY DEF oddities
<1>4. /\ st.configuration.verify \in {"NONE", "FIRST", "ALL"}
      /\ DOMAIN data = 1 .. Len(data) /\ Len(data) \in Nat
      /\ data # <<>> => Len(data) >= 1
  BY DEF SessionState, SessionConfiguration, Verify
<1>5. CASE data = <<>>
  <2>1. v = b => st.configuration.verify = "FIRST" \/ st = b
    BY <1>5 DEF verify_datagram
  <2>2. st # b
    BY <1>1
  <2>3. ~ \E i \in DOMAIN data : Wrong(i)
    BY <1>5
  <2> HIDE DEF v, b, Wrong
  <2> QED BY <1>1, <1>2, <1>3, <1>5, <2>1, <2>2, <2>3 DEF v
<1>6. CASE data # <<>>
  <2>1. v = IF \A i \in Checked(st, data) : ~Wrong(i) THEN st ELSE b
    BY <1>6 DEF verify_datagram, verify
  <2>2. /\ Checked(st, data) \subseteq DOMAIN data
        /\ st.configuration.verify = "NONE" => Checked(st, data) = {}
        /\ st.configuration.verify = "ALL" => Checked(st, data) = DOMAIN data
    BY <1>4, <1>6 DEF Checked
  <2> HIDE DEF v, b, Wrong
  <2> QED BY <1>1, <1>3, <1>4, <2>1, <2>2 DEF v
<1> QED BY <1>5, <1>6

\* One receive at a time is queued.
LEMMA OneReceive ==
  ASSUME ControlInv, NEW a \in Queued(session), NEW b \in Queued(session), a.op = b.op
  PROVE  a = b
<1>1. PICK i \in DOMAIN session.ready : a = session.ready[i]
  BY DEF Queued
<1>2. PICK j \in DOMAIN session.ready : b = session.ready[j]
  BY DEF Queued
<1>3. i = j
  BY <1>1, <1>2 DEF ControlInv, CoreInv, QueueInv
<1> QED BY <1>1, <1>2, <1>3

\* The handler of a receive verifies and counts a datagram, and the rest of it is quiet.
LEMMA ReceiveQuiet ==
  ASSUME ControlInv, HandleReceive
  PROVE  LET c == Head(session.ready)
             d == dispatch(session)
             v == verify_datagram(d, c.data)
         IN  /\ Running /\ session.ready # <<>> /\ c.op = "receive"
             /\ c.data \in Seq(Nat) /\ v \in {d, abort(d, "data_mismatch")}
             /\ v \in SessionState
             /\ Quiet(session', received(v, c.data))
             /\ received(v, c.data).configuration = v.configuration
             /\ received(v, c.data).ready = v.ready
             /\ received(v, c.data).failure = v.failure
             /\ received(v, c.data).exit_requested = v.exit_requested
<1> DEFINE c == Head(session.ready)
           d == dispatch(session)
           v == verify_datagram(d, c.data)
           m == received(v, c.data)
<1>1. /\ Running /\ session.ready # <<>> /\ c.op = "receive"
      /\ session' = on_receive(d, c)
  BY DEF HandleReceive, Dispatches
<1>2. /\ d \in SessionState /\ c \in Completion /\ c \in Queued(session)
      /\ SameData(d, session)
  BY <1>1, DispatchDatagram
<1>3. /\ c.failure = "success" /\ c.data \in Seq(Nat) /\ Len(c.data) \in Nat
      /\ Len(c.data) <= d.receive_slice /\ d.receive_slice \in Nat
  <2>1. c.failure \in {"success", "operation_aborted", "network_unreachable"}
        /\ c.failure # "operation_aborted" /\ c.failure # "network_unreachable"
    BY <1>1, <1>2 DEF ControlInv, CoreInv, AbortedInv
  <2>2. Len(c.data) <= d.receive_slice /\ d.receive_slice \in Nat
    BY <1>1, <1>2 DEF ControlInv, CoreInv, SizeInv, SessionState, SameData
  <2>3. c.data \in Seq(Nat) /\ Len(c.data) \in Nat
    BY <1>2 DEF Completion
  <2> QED BY <2>1, <2>2, <2>3
<1>4. session' = IF m.received < d.configuration.size
                 THEN async_receive(m, d.receive_slice - Len(c.data))
                 ELSE finish_receive(m)
  BY <1>1, <1>3 DEF on_receive
<1>5. v \in {d, abort(d, "data_mismatch")}
  BY DEF verify_datagram, verify
<1> HIDE DEF c, d
<1>6. v \in SessionState
  <2>1. "data_mismatch" \in ErrorCode
    BY DEF ErrorCode, Error
  <2>2. abort(d, "data_mismatch") \in SessionState
    BY <1>2, <2>1 DEF abort, SessionState
  <2> QED BY <1>2, <1>5, <2>2
<1> HIDE DEF v
<1>7. /\ m \in SessionState /\ m.configuration = v.configuration
      /\ m.ready = v.ready /\ m.failure = v.failure
      /\ m.exit_requested = v.exit_requested
  <2>1. v.received + Len(c.data) \in Nat
    BY <1>3, <1>6 DEF SessionState
  <2>2. m = [v EXCEPT !.received = v.received + Len(c.data)]
    BY <1>6 DEF received
  <2> HIDE DEF m
  <2> QED BY <1>6, <2>1, <2>2 DEF SessionState
<1> HIDE DEF m
<1>8. Quiet(session', m)
  <2>1. CASE m.received < d.configuration.size
    <3>1. d.receive_slice - Len(c.data) \in Nat
      BY <1>3
    <3>2. Keeps(session', m)
      BY <1>4, <1>7, <2>1, <3>1, QuietAsyncReceive
    <3>3. Quiet(m, m)
      BY DEF Quiet
    <3> QED BY <3>2, <3>3, QuietKeeps
  <2>2. CASE ~(m.received < d.configuration.size)
    BY <1>4, <1>7, <2>2, QuietFinish
  <2> QED BY <2>1, <2>2
<1> QED BY <1>1, <1>3, <1>5, <1>6, <1>7, <1>8 DEF c, d, v, m

\* The handler of a receive.
LEMMA ReceiveDatagram ==
  ASSUME ControlInv, ControlInv', DatagramInv, HandleReceive
  PROVE  DatagramInv'
<1> DEFINE c == Head(session.ready)
           d == dispatch(session)
           v == verify_datagram(d, c.data)
           m == received(v, c.data)
<1>1. /\ Running /\ session.ready # <<>> /\ c.op = "receive" /\ strange' = strange
  BY DEF HandleReceive, Dispatches
<1>2. /\ d \in SessionState /\ c \in Completion /\ c \in Queued(session)
      /\ Queued(d) = Queued(session) \ {c} /\ SameData(d, session)
      /\ d.failure = "success"
  BY <1>1, DispatchDatagram
<1>3. /\ c.data \in Seq(Nat) /\ Quiet(session', m)
      /\ m.configuration = v.configuration
      /\ m.ready = v.ready /\ m.failure = v.failure
      /\ m.exit_requested = v.exit_requested
  BY ReceiveQuiet
<1>4. /\ oddities(d, c.data) \subseteq strange
      /\ d.configuration.verify = "ALL" /\ "wrong" \in strange =>
            "wrong" \in oddities(d, c.data)
  <2>1. oddities(d, c.data) = oddities(session, c.data)
    BY <1>2 DEF oddities, SameData
  <2>2. d.configuration = session.configuration
    BY <1>2 DEF SameData
  <2> HIDE DEF c, d, v, m
  <2> QED BY <1>1, <1>2, <2>1, <2>2 DEF DatagramInv
<1> HIDE DEF c, d
<1>5. /\ v.configuration = d.configuration
      /\ v.received = d.received /\ v.ready = d.ready
      /\ v.failure = "data_mismatch" =>
            \/ d.configuration.verify # "NONE" /\ "wrong" \in strange
            \/ d.configuration.verify = "FIRST" /\ "empty" \in strange
      /\ d.configuration.verify = "ALL" /\ "wrong" \in strange => v.exit_requested
  BY <1>2, <1>3, <1>4, VerifyFinds
<1> HIDE DEF v, m
<1>6. /\ session'.configuration = d.configuration
      /\ session'.failure = "data_mismatch" => v.failure = "data_mismatch"
      /\ v.exit_requested => session'.exit_requested
  BY <1>3, <1>5 DEF Quiet
<1>7. \A e \in Queued(session') : e.op # "receive"
  <2> SUFFICES ASSUME NEW e \in Queued(session'), e.op = "receive" PROVE FALSE
    OBVIOUS
  <2>1. e.failure # "operation_aborted"
    BY DEF ControlInv, CoreInv, AbortedInv
  <2>2. e \in Queued(m) /\ Queued(m) = Queued(d)
    BY <1>3, <1>5, <2>1 DEF Quiet, Queued
  <2>3. e \in Queued(session) /\ e # c
    BY <1>2, <2>2
  <2> QED BY <1>1, <1>2, <2>3, OneReceive
<1>8. VerificationExact'
  BY <1>1, <1>5, <1>6 DEF VerificationExact, Running
<1> QED BY <1>7, <1>8 DEF DatagramInv

\* The other handlers.
LEMMA QuietDatagram ==
  ASSUME ControlInv, ControlInv', DatagramInv, Handle, ~HandleReceive
  PROVE  DatagramInv'
<1> DEFINE c == Head(session.ready)
           d == dispatch(session)
<1>1. Running /\ session.ready # <<>> /\ c.op # "receive" /\ Quiet(session', d)
  BY QuietHandlers
<1>2. /\ Queued(d) = Queued(session) \ {c} /\ SameData(d, session)
      /\ d.failure = "success"
  BY <1>1, DispatchDatagram
<1>3. strange' = strange
  BY DEF Handle, HandleStart, HandleReceiveThrottle, HandleReceive,
         HandleSendThrottle, HandleSend, HandleTimeout, HandleSignal
<1> HIDE DEF c, d
<1>4. /\ session'.configuration = session.configuration
      /\ session'.received = session.received
      /\ session'.failure # "data_mismatch"
      /\ Queued(session) \ {c} \subseteq Queued(session')
  BY <1>1, <1>2 DEF Quiet, SameData
<1>5. \A e \in Queued(session') : e.op = "receive" => e \in Queued(session)
  <2> SUFFICES ASSUME NEW e \in Queued(session'), e.op = "receive"
               PROVE  e \in Queued(session)
    OBVIOUS
  <2>1. e.failure # "operation_aborted"
    BY DEF ControlInv, CoreInv, AbortedInv
  <2> QED BY <1>1, <1>2, <2>1 DEF Quiet
<1>6. \A data : oddities(session', data) = oddities(session, data)
  BY <1>4 DEF oddities
<1>7. VerificationExact'
  BY <1>1, <1>3, <1>4 DEF VerificationExact, DatagramInv
<1> QED BY <1>1, <1>3, <1>4, <1>5, <1>6, <1>7 DEF DatagramInv

\* What completes.
LEMMA CompleteDatagram ==
  ASSUME ControlInv, DatagramInv, Complete
  PROVE  DatagramInv'
<1>0. \A op, failure, data : done(op, failure, data).op = op
  BY DEF done
<1> DEFINE Receives == \E taken :
                /\ session' = complete(session, done("receive", "success", taken))
                /\ strange' = strange \cup oddities(session, taken)
           Other == \E op, failure, data :
                /\ session' = complete(session, done(op, failure, data))
                /\ op # "receive" /\ strange' = strange
<1>1. (ReceivesDatagram /\ Receives) \/ Other
  <2>1. ReceivesDatagram => Receives
    BY DEF ReceivesDatagram
  <2>2. SendsDatagram => Other
    BY DEF SendsDatagram
  <2>3. SendFails => Other
    BY DEF SendFails
  <2>4. \A op \in {"receive_throttle", "send_throttle", "timeout"} :
            TimerExpires(op) => Other
    BY DEF TimerExpires
  <2>5. \A number \in Signal : SignalArrives(number) => Other
    BY DEF SignalArrives
  <2> HIDE DEF Receives, Other
  <2> QED BY <2>1, <2>2, <2>3, <2>4, <2>5 DEF Complete
<1>2. /\ session'.configuration = session.configuration
      /\ session'.received = session.received
      /\ session'.failure = session.failure
      /\ session'.exit_requested = session.exit_requested
      /\ session \in SessionState
  BY <1>1 DEF complete, ControlInv, TypeOK, SessionState
<1>3. ASSUME NEW c, session' = complete(session, c)
      PROVE  Queued(session') = Queued(session) \cup {c}
  <2>1. session'.ready = Append(session.ready, c)
    BY <1>2, <1>3 DEF complete, SessionState
  <2> QED BY <1>2, <2>1, QueuedAppend
<1>4. \A data : oddities(session', data) = oddities(session, data)
  BY <1>2 DEF oddities
<1>5. Running /\ session.failure = "success"
  BY DEF Complete, ReceivesDatagram, SendsDatagram, SendFails, TimerExpires,
         SignalArrives, Waits, ControlInv, ProgressInv, Running
<1>6. ASSUME NEW taken, ReceivesDatagram,
             session' = complete(session, done("receive", "success", taken)),
             strange' = strange \cup oddities(session, taken)
      PROVE  DatagramInv'
  <2> DEFINE e == done("receive", "success", taken)
  <2>1. e.op = "receive" /\ e.data = taken
    BY DEF done
  <2>2. Queued(session') = Queued(session) \cup {e}
    BY <1>3, <1>6
  <2> HIDE DEF e
  <2>3. \A r \in Queued(session) : r.op # "receive"
    <3>1. "receive" \in session.waiting
      BY <1>6 DEF ReceivesDatagram, Waits
    <3> QED BY <3>1 DEF ControlInv, CoreInv, QueueInv, Queued
  <2>4. ~(session.configuration.verify = "ALL" /\ "wrong" \in strange)
    BY <1>5, <2>3 DEF DatagramInv, VerificationExact
  <2>5. VerificationExact'
    BY <1>2, <1>5, <2>1, <2>2 DEF VerificationExact
  <2> QED BY <1>2, <1>4, <1>6, <2>1, <2>2, <2>3, <2>4, <2>5 DEF DatagramInv
<1>7. ASSUME strange' = strange, NEW op, NEW failure, NEW data, op # "receive",
             session' = complete(session, done(op, failure, data))
      PROVE  DatagramInv'
  <2> DEFINE e == done(op, failure, data)
  <2>1. e.op # "receive"
    BY <1>0, <1>7
  <2>2. Queued(session') = Queued(session) \cup {e}
    BY <1>3, <1>7
  <2> HIDE DEF e
  <2>3. VerificationExact'
    BY <1>2, <1>7, <2>2 DEF VerificationExact, DatagramInv, Running
  <2> QED BY <1>2, <1>4, <1>5, <1>7, <2>1, <2>2, <2>3 DEF DatagramInv
<1> QED BY <1>1, <1>6, <1>7

\* The network and the other sessions.
LEMMA EnvironmentDatagram ==
  ASSUME ControlInv, DatagramInv, Environment
  PROVE  DatagramInv'
<1>1. /\ session \in SessionState /\ strange' = strange
      /\ \/ session' = session
         \/ session' = [session EXCEPT !.exit_requested = TRUE]
  BY DEF Environment, Arrives, Departs, ExitRequestedElsewhere, ControlInv, TypeOK
<1>2. /\ session'.configuration = session.configuration
      /\ session'.received = session.received /\ session'.ready = session.ready
      /\ session'.failure = session.failure
      /\ session'.exit_requested = session.exit_requested \/ session'.exit_requested
  BY <1>1 DEF SessionState
<1>3. Queued(session') = Queued(session)
  BY <1>2 DEF Queued
<1>4. \A data : oddities(session', data) = oddities(session, data)
  BY <1>2 DEF oddities
<1>5. Running' => Running
  BY <1>2 DEF Running
<1>6. VerificationExact'
  BY <1>1, <1>2, <1>3, <1>5 DEF VerificationExact, DatagramInv
<1> QED BY <1>1, <1>2, <1>3, <1>4, <1>5, <1>6 DEF DatagramInv

\* Nothing has been received from the socket yet.
LEMMA DatagramInit == Init => DatagramInv
<1> SUFFICES ASSUME Init PROVE DatagramInv
  OBVIOUS
<1>1. PICK k \in Configurations : session = initialize(k)
  BY DEF Init
<1>2. session.failure = "success" /\ session.ready = <<done("start", "success", <<>>)>>
  BY <1>1 DEF initialize, post, new
<1>3. \A c \in Queued(session) : c.op # "receive"
  BY <1>2 DEF Queued, done
<1> QED BY <1>2, <1>3 DEF Init, DatagramInv, VerificationExact

\* Every step keeps what is known of the datagrams.
LEMMA DatagramStep ==
  ASSUME ControlInv, ControlInv', DatagramInv, [Next]_vars
  PROVE  DatagramInv'
<1>1. CASE Next
  BY <1>1, CompleteDatagram, ReceiveDatagram, QuietDatagram, EnvironmentDatagram
     DEF Next
<1>2. CASE UNCHANGED vars
  <2>1. session' = session /\ strange' = strange
    BY <1>2 DEF vars
  <2>2. \A data : oddities(session', data) = oddities(session, data)
    BY <2>1 DEF oddities
  <2>3. Queued(session') = Queued(session)
    BY <2>1 DEF Queued
  <2>4. VerificationExact'
    BY <2>1, <2>3 DEF VerificationExact, DatagramInv, Running
  <2> QED BY <2>1, <2>2, <2>3, <2>4 DEF DatagramInv, Running
<1> QED BY <1>1, <1>2

\* Verification of datagrams is exact, whatever arrives: a session that fails by a
\* mismatch received a byte out of its place, or an empty datagram if it only looks at the
\* first byte; and one that verifies all bytes never goes on past a wrong one
\* (Session.cpp:160-204, UdpSession.cpp:137-170).
THEOREM DatagramsVerified == Spec => []VerificationExact
<1>1. ControlInv /\ ControlInv' /\ DatagramInv /\ [Next]_vars => DatagramInv'
  BY DatagramStep
<1>2. DatagramInv => VerificationExact
  BY DEF DatagramInv
<1> QED BY <1>1, <1>2, DatagramInit, ControlInvariant, PTL DEF Spec

-----------------------------------------------------------------------------
(* A session as its program sees it.                                       *)

\* A session that was just created has no signal and waits for one.
LEMMA SignalsInit ==
  ASSUME NEW conf \in SessionConfiguration, NEW st, st = initialize(conf)
  PROVE  /\ SignalsKnown(st) /\ ~HasSignal(st)
         /\ OutcomeOf(st) = Promise!Unfinished /\ ~st.exit_requested
<1> DEFINE n == new(conf)
           e == done("start", "success", <<>>)
<1>1. /\ n.ready = <<>> /\ n.waiting = {"signal"} /\ n.socket = "connected"
      /\ n.failure = "success" /\ ~n.exit_requested
      /\ n \in [configuration : {n.configuration}, socket : {n.socket},
                waiting : {n.waiting}, ready : {n.ready}, memory : {n.memory},
                receive_slice : {n.receive_slice}, send_slice : {n.send_slice},
                received : {n.received}, sent : {n.sent},
                is_receive_complete : {n.is_receive_complete},
                is_send_complete : {n.is_send_complete},
                failure : {n.failure}, exit_requested : {n.exit_requested}]
  BY DEF new
<1>2. e.op = "start"
  BY DEF done
<1>3. st = [n EXCEPT !.ready = Append(n.ready, e)]
  BY DEF initialize, post
<1> HIDE DEF n, e
<1>4. /\ st.ready = <<e>> /\ st.waiting = {"signal"} /\ st.socket = "connected"
      /\ st.failure = "success" /\ ~st.exit_requested
  BY <1>1, <1>3
<1>5. \A q \in Queued(st) : q.op = "start"
  BY <1>2, <1>4 DEF Queued
<1>6. "signal" \in Outstanding(st)
  BY <1>4 DEF Outstanding
<1>7. SignalsKnown(st) /\ ~HasSignal(st)
  BY <1>4, <1>5, <1>6 DEF SignalsKnown, OnlyInterrupts, HasSignal
<1> QED BY <1>4, <1>7 DEF OutcomeOf, Promise!Unfinished

\* What a handler leaves in the queue.
LEMMA HandleDequeues ==
  ASSUME ControlInv, Handle
  PROVE  /\ Running /\ session.ready # <<>>
         /\ Dequeues(session', session)
<1> DEFINE c == Head(session.ready)
           d == dispatch(session)
<1>1. Running /\ session.ready # <<>>
  BY DEF Handle, HandleStart, HandleReceiveThrottle, HandleReceive,
         HandleSendThrottle, HandleSend, HandleTimeout, HandleSignal, Dispatches
<1>2. Queued(d) = Queued(session) \ {c} /\ d \in SessionState
  BY <1>1, DispatchDatagram
<1>3. \E m : Quiet(session', m) /\ m.ready = d.ready
  <2>1. CASE ~HandleReceive
    BY <2>1, QuietHandlers
  <2>2. CASE HandleReceive
    <3> DEFINE v == verify_datagram(d, c.data)
               m == received(v, c.data)
    <3>1. /\ v \in {d, abort(d, "data_mismatch")} /\ m.ready = v.ready
          /\ Quiet(session', m)
      BY <2>2, ReceiveQuiet
    <3>2. abort(d, "data_mismatch").ready = d.ready
      BY <1>2 DEF abort, SessionState
    <3> HIDE DEF v, m, d
    <3> QED BY <3>1, <3>2
  <2> QED BY <2>1, <2>2
<1> HIDE DEF d, c
<1>4. PICK m : Quiet(session', m) /\ m.ready = d.ready
  BY <1>3
<1>5. Queued(m) = Queued(session) \ {c}
  BY <1>2, <1>4 DEF Queued
<1> QED BY <1>1, <1>4, <1>5 DEF Quiet, Dequeues, c

\* A handler.
LEMMA SignalsOfHandler ==
  ASSUME ControlInv, ControlInv', SignalsKnown(session), Handle
  PROVE  SignalsKnown(session') /\ (GoesOn(session', session) \/ Fails(session', session))
<1> DEFINE c == Head(session.ready)
           d == dispatch(session)
<1>1. /\ Running /\ session.ready # <<>> /\ Dequeues(session', session)
  BY HandleDequeues
<1>2. /\ session \in SessionState /\ QueueInv(session)
      /\ session.failure = "success"
  BY <1>1 DEF ControlInv, CoreInv, ProgressInv, Running
<1>3. /\ Outstanding(d) = Outstanding(session) \ {c.op}
      /\ CoreInv(d) /\ ~d.exit_requested /\ d.socket = session.socket
      /\ d.failure = "success" /\ c \in Queued(session) /\ c.op \in Outstanding(session)
  BY <1>1, <1>2, DispatchControl DEF SameOutcome
<1>4. \A f \in Reported :
        /\ abort(d, f).failure = f /\ abort(d, f).exit_requested
        /\ Outstanding(abort(d, f)) = Outstanding(d)
        /\ abort(d, f).socket = d.socket
  BY <1>3, AbortCore
<1>5. {"test_timeout", "user_interrupt"} \subseteq Reported
  BY DEF Reported, ErrorCode, Error
<1>6. CASE HandleSignal
  <2>1. c.op = "signal" /\ session' = on_signal(d, c)
    BY <1>6 DEF HandleSignal, Dispatches
  <2>2. \/ c.failure = "operation_aborted"
        \/ c.failure = "success" /\ c.data = <<SIGINT>>
    BY <1>3, <2>1 DEF SignalsKnown, OnlyInterrupts
  <2> HIDE DEF c, d
  <2>3. CASE c.failure = "operation_aborted"
    <3>1. session' = d /\ session.socket = "closed"
      BY <1>3, <2>1, <2>3 DEF on_signal, ControlInv, CoreInv, AbortedInv
    <3> QED BY <1>1, <1>2, <1>3, <2>1, <2>3, <3>1, SignalsHandled DEF c
  <2>4. CASE c.failure = "success" /\ c.data = <<SIGINT>>
    <3>1. c.data[1] = SIGINT /\ SIGINT # SIGTERM
      BY <2>4 DEF SIGINT, SIGTERM
    <3>2. session' = abort(d, "user_interrupt")
      BY <2>1, <2>4, <3>1 DEF on_signal
    <3>3. /\ session'.failure = "user_interrupt" /\ session'.exit_requested
          /\ Outstanding(session') = Outstanding(d) /\ session'.socket = session.socket
      BY <1>3, <1>4, <1>5, <3>2
    <3> QED BY <1>1, <1>2, <1>3, <2>1, <2>4, <3>3, SignalsHandled DEF c
  <2> QED BY <2>2, <2>3, <2>4
<1>7. CASE HandleTimeout
  <2>1. c.op = "timeout" /\ session' \in {d, abort(d, "test_timeout")}
    BY <1>7 DEF HandleTimeout, Dispatches, on_timeout
  <2> HIDE DEF c, d
  <2>2. /\ session'.failure \in {"success", "test_timeout"}
        /\ session'.exit_requested => session'.failure # "success"
        /\ Outstanding(session') = Outstanding(d) /\ session'.socket = session.socket
    BY <1>3, <1>4, <1>5, <2>1
  <2> QED BY <1>1, <1>2, <1>3, <2>1, <2>2, SignalsHandled DEF c, SignalFailures
<1>8. CASE ~(HandleTimeout \/ HandleSignal)
  <2>1. /\ Leaves(session', d) /\ session.socket # "closed"
        /\ c.op \notin {"timeout", "signal"}
    BY <1>8, TransferHandled
  <2>2. ~session'.exit_requested => session'.failure = "success"
    BY DEF ControlInv, ProgressInv
  <2>3. /\ session'.failure \notin SignalFailures
        /\ session'.exit_requested => session'.failure # "success"
    BY <2>1, <2>2 DEF Leaves, SignalFailures
  <2> HIDE DEF c, d
  <2> QED BY <1>1, <1>2, <1>3, <2>1, <2>3, SignalsHandled DEF c, Leaves
<1> QED BY <1>6, <1>7, <1>8

\* A completion, of another operation than the wait for a signal.
LEMMA SignalsOfCompletion ==
  ASSUME ControlInv, SignalsKnown(session),
         NEW c, c.op \in session.waiting \ {"signal"}, session' = complete(session, c)
  PROVE  /\ SignalsKnown(session') /\ (HasSignal(session') <=> HasSignal(session))
         /\ OutcomeOf(session)' = OutcomeOf(session)
         /\ session'.exit_requested = session.exit_requested
<1>1. session \in SessionState /\ session.socket # "closed"
  BY DEF ControlInv, CoreInv, CompleteInv
<1>2. /\ session'.waiting = session.waiting \ {c.op}
      /\ session'.ready = Append(session.ready, c)
      /\ session'.failure = session.failure
      /\ session'.exit_requested = session.exit_requested
      /\ session'.socket # "closed"
  BY <1>1 DEF complete, SessionState
<1>3. OutcomeOf(session)' = OutcomeOf(session)
  BY <1>1, <1>2 DEF OutcomeOf
<1> QED BY <1>1, <1>2, <1>3, SignalsCompleted

\* The network and the timers of a session do nothing to its signals, nor to what the
\* application knows of it.
LEMMA SignalsOfNetwork ==
  ASSUME ControlInv, SignalsKnown(session),
         \/ ReceivesDatagram \/ SendsDatagram \/ SendFails
         \/ \E op \in {"receive_throttle", "send_throttle", "timeout"} : TimerExpires(op)
         \/ \E datagram \in Datagrams : Arrives(datagram)
  PROVE  /\ SignalsKnown(session') /\ (HasSignal(session') <=> HasSignal(session))
         /\ OutcomeOf(session)' = OutcomeOf(session)
         /\ session'.exit_requested = session.exit_requested
<1> DEFINE OneCompletes == \E c :
                /\ c.op \in session.waiting \ {"signal"}
                /\ session' = complete(session, c)
<1>1. \A op, failure, data : done(op, failure, data).op = op
  BY DEF done
<1>2. CASE ReceivesDatagram
  <2>1. OneCompletes
    BY <1>1, <1>2 DEF ReceivesDatagram, Waits
  <2> QED BY <2>1, SignalsOfCompletion
<1>3. CASE SendsDatagram \/ SendFails
  <2>1. OneCompletes
    BY <1>1, <1>3 DEF SendsDatagram, SendFails, Waits
  <2> QED BY <2>1, SignalsOfCompletion
<1>4. CASE \E op \in {"receive_throttle", "send_throttle", "timeout"} : TimerExpires(op)
  <2>1. OneCompletes
    BY <1>1, <1>4 DEF TimerExpires, Waits
  <2> QED BY <2>1, SignalsOfCompletion
<1>5. CASE \E datagram \in Datagrams : Arrives(datagram)
  <2>1. session' = session
    BY <1>5 DEF Arrives
  <2> QED BY <2>1 DEF OutcomeOf, stopped
<1> QED BY <1>2, <1>3, <1>4, <1>5

\* A signal that the session waits for: also when its handlers are not called any more.
LEMMA SignalsOfSignal ==
  ASSUME ControlInv, SignalsKnown(session), "signal" \in session.waiting,
         session' = complete(session, done("signal", "success", <<SIGINT>>)),
         UNCHANGED <<arrived, outgoing, head, strange>>
  PROVE  /\ ControlInv'
         /\ SignalsKnown(session') /\ HasSignal(session')
         /\ OutcomeOf(session)' = OutcomeOf(session)
         /\ session'.exit_requested = session.exit_requested
<1> DEFINE c == done("signal", "success", <<SIGINT>>)
<1>1. c \in Completion /\ c.op = "signal" /\ c.failure = "success"
  <2>1. /\ "signal" \in Operation /\ "success" \in ErrorCode
        /\ <<SIGINT>> \in Seq(Nat)
    BY DEF Operation, ErrorCode, Error, SIGINT
  <2>2. \A data \in Seq(Nat) : done("signal", "success", data) \in Completion
    BY <2>1, DoneType
  <2> QED BY <2>1, <2>2 DEF done
<1>2. SignalsKnown(session') /\ HasSignal(session')
  BY SignalsQueued DEF ControlInv, TypeOK
<1> HIDE DEF c
<1>3. session' = complete(session, c)
  BY DEF c
<1>4. /\ session \in SessionState /\ session.socket # "closed"
  BY DEF ControlInv, CoreInv, CompleteInv
<1>5. CoreInv(session') /\ ProgressInv(session')
  BY <1>1, <1>3, CompleteCore DEF ControlInv
<1>6. /\ session'.socket = session.socket /\ session'.failure = session.failure
      /\ session'.exit_requested = session.exit_requested
  BY <1>3, <1>4 DEF complete, SessionState
<1>7. ControlInv'
  BY <1>5 DEF ControlInv, TypeOK, CoreInv
<1>8. OutcomeOf(session)' = OutcomeOf(session)
  BY <1>4, <1>6 DEF OutcomeOf
<1> QED BY <1>2, <1>6, <1>7, <1>8

\* What a handler makes of the outcome of its session, beside what becomes of signals.
LEMMA HandlerSeen ==
  ASSUME ControlInv, ControlInv', SignalsKnown(session), Handle
  PROVE  /\ SignalsKnown(session')
         /\ OutcomeOf(session).status # "idle"
         /\ session'.failure \in ErrorCode
         /\ \/ /\ GoesOn(session', session)
               /\ \/ OutcomeOf(session)' = OutcomeOf(session)
                  \/ OutcomeOf(session)' \in Promise!advances(OutcomeOf(session))
               /\ HasSignal(session) => OutcomeOf(session)'.status # "idle"
            \/ /\ Fails(session', session)
               /\ OutcomeOf(session)' \in Promise!aborts(OutcomeOf(session))
<1>1. /\ SignalsKnown(session')
      /\ GoesOn(session', session) \/ Fails(session', session)
  BY SignalsOfHandler
<1>2. [Promise!Next]_(Promise!vars)
  BY HandlePromise
<1>3. ~session.exit_requested /\ session.ready # <<>>
  BY DEF Handle, HandleStart, HandleReceiveThrottle, HandleReceive, HandleSendThrottle,
     HandleSend, HandleTimeout, HandleSignal, Dispatches, Running
<1>4. session.failure = "success" /\ session'.failure \in ErrorCode
  BY <1>3 DEF ControlInv, TypeOK, CoreInv, ProgressInv, SessionState
<1>5. OutcomeOf(session).status # "idle"
  BY <1>3 DEF OutcomeOf, stopped
<1>6. CASE GoesOn(session', session)
  <2>1. ~session'.exit_requested /\ (HasSignal(session') <=> HasSignal(session))
    BY <1>6 DEF GoesOn
  <2>2. \/ OutcomeOf(session)' = OutcomeOf(session)
        \/ OutcomeOf(session)' \in Promise!advances(OutcomeOf(session))
    BY <1>2, <2>1 DEF Promise!Next, Promise!Advances, Promise!Aborts,
       Promise!ExitRequestedElsewhere, Promise!vars
  <2>3. HasSignal(session') => OutcomeOf(session)'.status # "idle"
    BY DEF HasSignal, Queued, OutcomeOf, stopped
  <2> QED BY <1>1, <1>4, <1>5, <1>6, <2>1, <2>2, <2>3
<1>7. CASE Fails(session', session)
  <2>1. session'.exit_requested /\ session'.failure # "success"
    BY <1>7 DEF Fails
  <2>2. OutcomeOf(session)' # OutcomeOf(session)
    BY <1>4, <2>1 DEF OutcomeOf
  <2>3. OutcomeOf(session)' \in Promise!aborts(OutcomeOf(session))
    BY <1>2, <1>3, <2>1, <2>2 DEF Promise!Next, Promise!Advances, Promise!Aborts,
       Promise!ExitRequestedElsewhere, Promise!vars
  <2> QED BY <1>1, <1>4, <1>5, <1>7, <2>3
<1> QED BY <1>1, <1>6, <1>7

\* What the wait for a signal means for the outcome,
LEMMA SignalSeen ==
  ASSUME ControlInv, SignalsKnown(session)
  PROVE  LET o == OutcomeOf(session)
         IN  /\ "signal" \in session.waiting =>
                    o.status = "active" /\ o.failure # "user_interrupt"
             /\ o.status = "active" /\ o.failure # "user_interrupt" =>
                    "signal" \in session.waiting \/ HasSignal(session)
<1>1. /\ session.socket = "closed" => session.waiting = {}
      /\ \A c \in Queued(session) :
            c.failure = "operation_aborted" => session.socket = "closed"
  BY DEF ControlInv, CoreInv, CompleteInv, AbortedInv
<1>2. OutcomeOf(session).status = "active" <=> session.socket # "closed"
  BY DEF OutcomeOf
<1>3. OutcomeOf(session).failure = session.failure
  BY DEF OutcomeOf
<1> QED BY <1>1, <1>2, <1>3, SignalAwaited

\* what it means that there is no work left as long as nothing has requested the exit,
LEMMA StoppedSeen ==
  ASSUME ControlInv, ~session.exit_requested
  PROVE  stopped(session) <=> OutcomeOf(session).status = "idle"
<1>1. stopped(session) => Outstanding(session) = {}
  BY DEF stopped, Outstanding, Queued
<1>2. stopped(session) => session.socket = "closed"
  BY <1>1 DEF ControlInv, ProgressInv
<1> QED BY <1>2 DEF OutcomeOf

\* and what it means that the session is idle.
LEMMA IdleSeen ==
  ASSUME ControlInv, OutcomeOf(session).status = "idle"
  PROVE  /\ session.socket = "closed"
         /\ session.configuration.direction # "RX" =>
                session.sent = session.configuration.size
         /\ session.configuration.direction # "TX" =>
                session.received >= session.configuration.size
<1>1. session.socket = "closed"
  BY DEF OutcomeOf
<1>2. session.is_receive_complete /\ session.is_send_complete
  BY <1>1 DEF ControlInv, CoreInv, CompleteInv
<1>3. session.configuration.direction \in Direction
  BY DEF ControlInv, TypeOK, SessionState, SessionConfiguration
<1> QED BY <1>1, <1>2, <1>3 DEF ControlInv, CoreInv, SizeInv, Direction

-----------------------------------------------------------------------------
(* What a session has in hand: where its slices end, and the bytes of      *)
(* completions whose handlers have not run yet.  This is what the other    *)
(* end of a test relies on.                                                *)

\* Where an operation that is outstanding stands in its slice.
Placed(op, st) ==
    /\ op \in {"start", "receive_throttle"} =>
            Whole(st.received, st.configuration.receive_slice)
    /\ op = "receive" =>
            /\ st.receive_slice > 0
            /\ Whole(st.received + st.receive_slice, st.configuration.receive_slice)
    /\ op \in {"start", "send_throttle"} =>
            /\ st.sent < st.configuration.size
            /\ Whole(st.sent, st.configuration.send_slice)
    /\ op = "send" =>
            /\ st.send_slice > 0
            /\ Unsplit(st.sent, st.send_slice, st.configuration.send_slice)
            /\ \/ st.sent + st.send_slice = st.configuration.size
               \/ Whole(st.sent + st.send_slice, st.configuration.send_slice)

SliceInv(st) == \A op \in Outstanding(st) : Placed(op, st)

\* Slices and counters that stay the same leave every operation in its place.
LEMMA SlicesFrame ==
  ASSUME NEW a, NEW b, SliceInv(a), SameData(b, a), Outstanding(b) \subseteq Outstanding(a)
  PROVE  SliceInv(b)
<1> SUFFICES ASSUME NEW op \in Outstanding(b) PROVE Placed(op, b)
  BY DEF SliceInv
<1>1. Placed(op, a)
  BY DEF SliceInv
<1> QED BY <1>1 DEF Placed, SameData

\* Initiating an operation that stands in its place.
LEMMA SlicesBegin ==
  ASSUME NEW st \in SessionState, SliceInv(st), NEW op \in Operation, Placed(op, st)
  PROVE  SliceInv(begin(st, op))
<1> DEFINE b == begin(st, op)
<1>1. SameData(b, st) /\ b.waiting = st.waiting \cup {op} /\ b.ready = st.ready
  BY DEF begin, SessionState, SameData
<1> HIDE DEF b
<1>2. Outstanding(b) = Outstanding(st) \cup {op}
  BY <1>1 DEF Outstanding, Queued
<1> SUFFICES ASSUME NEW o \in Outstanding(b) PROVE Placed(o, b)
  BY DEF SliceInv, b
<1>3. Placed(o, st)
  BY <1>2 DEF SliceInv
<1> QED BY <1>1, <1>3 DEF Placed, SameData

\* Cancelling an operation queues its completion: it is outstanding all the same.
LEMMA SlicesCancel ==
  ASSUME NEW st \in SessionState, NEW op \in Operation
  PROVE  /\ cancel(st, op) \in SessionState
         /\ SameData(cancel(st, op), st)
         /\ Outstanding(cancel(st, op)) \subseteq Outstanding(st)
<1> DEFINE e == done(op, "operation_aborted", <<>>)
           b == cancel(st, op)
<1>1. b \in SessionState
  BY KeepsCancel DEF Keeps
<1>2. CASE op \in st.waiting
  <2>1. /\ SameData(b, st) /\ b.waiting = st.waiting \ {op}
        /\ b.ready = Append(st.ready, e) /\ e.op = op
    BY <1>2 DEF cancel, complete, done, SessionState, SameData
  <2> HIDE DEF b, e
  <2>2. Queued(b) = Queued(st) \cup {e}
    BY <2>1, QueuedAppend
  <2> QED BY <1>1, <1>2, <2>1, <2>2 DEF Outstanding, b
<1>3. CASE op \notin st.waiting
  BY <1>3 DEF cancel, SameData
<1> QED BY <1>2, <1>3

\* Finishing initiates nothing.
LEMMA SlicesFinish ==
  ASSUME NEW st \in SessionState
  PROVE  /\ on_finish(st) \in SessionState
         /\ SameData(on_finish(st), st)
         /\ Outstanding(on_finish(st)) \subseteq Outstanding(st)
<1> DEFINE a == cancel(st, "signal")
           b == cancel(a, "timeout")
           e == cancel(b, "receive")
           f == cancel(e, "eof")
           g == cancel(f, "send")
           h == [g EXCEPT !.socket = "closed"]
<1>0. {"signal", "timeout", "receive", "eof", "send"} \subseteq Operation
  BY DEF Operation, SocketOps
<1>1. a \in SessionState /\ SameData(a, st) /\ Outstanding(a) \subseteq Outstanding(st)
  BY <1>0, SlicesCancel
<1> HIDE DEF a
<1>2. b \in SessionState /\ SameData(b, a) /\ Outstanding(b) \subseteq Outstanding(a)
  BY <1>0, <1>1, SlicesCancel
<1> HIDE DEF b
<1>3. e \in SessionState /\ SameData(e, b) /\ Outstanding(e) \subseteq Outstanding(b)
  BY <1>0, <1>2, SlicesCancel
<1> HIDE DEF e
<1>4. f \in SessionState /\ SameData(f, e) /\ Outstanding(f) \subseteq Outstanding(e)
  BY <1>0, <1>3, SlicesCancel
<1> HIDE DEF f
<1>5. g \in SessionState /\ SameData(g, f) /\ Outstanding(g) \subseteq Outstanding(f)
  BY <1>0, <1>4, SlicesCancel
<1> HIDE DEF g
<1>6. /\ h \in SessionState /\ SameData(h, g)
      /\ h.waiting = g.waiting /\ h.ready = g.ready
  BY <1>5 DEF SessionState, SameData
<1> HIDE DEF h
<1>7. Outstanding(h) = Outstanding(g)
  BY <1>6 DEF Outstanding, Queued
<1>8. SameData(h, st) /\ Outstanding(h) \subseteq Outstanding(st)
  BY <1>1, <1>2, <1>3, <1>4, <1>5, <1>6, <1>7 DEF SameData
<1>9. on_finish(st) = h
  BY DEF on_finish, close, a, b, e, f, g, h
<1> QED BY <1>6, <1>8, <1>9

\* Completing a direction.
LEMMA SlicesComplete ==
  ASSUME NEW st \in SessionState, SliceInv(st)
  PROVE  SliceInv(finish_receive(st)) /\ SliceInv(finish_send(st))
<1> DEFINE r == [st EXCEPT !.is_receive_complete = TRUE]
           s == [st EXCEPT !.is_send_complete = TRUE]
<1>1. /\ r \in SessionState /\ SameData(r, st) /\ SameQueue(r, st)
      /\ s \in SessionState /\ SameData(s, st) /\ SameQueue(s, st)
  BY DEF SessionState, SameData, SameQueue
<1>2. /\ finish_receive(st) = IF st.is_send_complete THEN on_finish(r) ELSE r
      /\ finish_send(st) = IF st.is_receive_complete THEN on_finish(s) ELSE s
  BY DEF finish_receive, finish_send, on_receive_complete, on_send_complete
<1> HIDE DEF r, s
<1>3. Outstanding(r) = Outstanding(st) /\ Outstanding(s) = Outstanding(st)
  BY <1>1 DEF SameQueue, Outstanding, Queued
<1>4. SliceInv(r) /\ SliceInv(s)
  BY <1>1, <1>3, SlicesFrame
<1> QED BY <1>1, <1>2, <1>4, SlicesFinish, SlicesFrame

\* async_receive with what is left of a slice, which ends where the slice does.
LEMMA SlicesReceive ==
  ASSUME NEW st \in SessionState, SliceInv(st), NEW n \in Nat,
         Whole(st.received + n, st.configuration.receive_slice)
  PROVE  SliceInv(async_receive(st, n))
<1> DEFINE s == [st EXCEPT !.receive_slice = n]
<1>0. {"receive", "receive_throttle"} \subseteq Operation
  BY DEF Operation, SocketOps, ThrottleOps
<1>1. CASE n = 0
  <2>1. st.received + n = st.received
    BY <1>1 DEF SessionState
  <2>2. Placed("receive_throttle", st)
    BY <2>1 DEF Placed
  <2> QED BY <1>0, <1>1, <2>2, SlicesBegin DEF async_receive
<1>2. CASE n # 0
  <2>1. /\ s \in SessionState /\ s.waiting = st.waiting /\ s.ready = st.ready
        /\ s.configuration = st.configuration /\ s.received = st.received
        /\ s.sent = st.sent /\ s.send_slice = st.send_slice /\ s.receive_slice = n
    BY DEF SessionState
  <2>2. async_receive(st, n) = begin(s, "receive")
    BY <1>2 DEF async_receive
  <2> HIDE DEF s
  <2>3. Placed("receive", s)
    BY <1>2, <2>1 DEF Placed
  <2>4. Outstanding(s) = Outstanding(st)
    BY <2>1 DEF Outstanding, Queued
  <2>5. \A op \in Outstanding(s) : op # "receive" => Placed(op, s)
    BY <2>1, <2>4 DEF SliceInv, Placed
  <2>6. SliceInv(s)
    BY <2>3, <2>5 DEF SliceInv
  <2> QED BY <1>0, <2>1, <2>2, <2>3, <2>6, SlicesBegin
<1> QED BY <1>1, <1>2

\* async_send with what is left of a slice: what is left of the size may end before it.
LEMMA SlicesSend ==
  ASSUME NEW st \in SessionState, SliceInv(st), NEW n \in Nat,
         st.sent < st.configuration.size,
         Unsplit(st.sent, n, st.configuration.send_slice),
         \/ st.sent + n = st.configuration.size
         \/ Whole(st.sent + n, st.configuration.send_slice)
  PROVE  SliceInv(async_send(st, n))
<1> DEFINE m == Least(n, st.configuration.size - st.sent)
           s == [st EXCEPT !.send_slice = m]
<1>0. {"send", "send_throttle"} \subseteq Operation
  BY DEF Operation, SocketOps, ThrottleOps
<1>1. st.sent \in Nat /\ st.configuration.size \in Nat
      /\ st.configuration.send_slice \in Nat
  BY DEF SessionState, SessionConfiguration
<1>2. CASE n = 0
  <2>1. st.sent + n = st.sent /\ st.sent # st.configuration.size
    BY <1>1, <1>2
  <2>2. Placed("send_throttle", st)
    BY <2>1 DEF Placed
  <2> QED BY <1>0, <1>2, <2>2, SlicesBegin DEF async_send
<1>3. CASE n # 0
  <2>1. m \in Nat /\ m > 0 /\ m <= n
        /\ (m = n \/ st.sent + m = st.configuration.size)
    BY <1>1, <1>3 DEF Least
  <2> HIDE DEF m
  <2>2. /\ s \in SessionState /\ s.waiting = st.waiting /\ s.ready = st.ready
        /\ s.configuration = st.configuration /\ s.received = st.received
        /\ s.sent = st.sent /\ s.send_slice = m /\ s.receive_slice = st.receive_slice
    BY <2>1 DEF SessionState
  <2>3. async_send(st, n) = begin(s, "send")
    BY <1>3 DEF async_send, m
  <2> HIDE DEF s
  <2>4. Unsplit(st.sent, m, st.configuration.send_slice)
    <3> SUFFICES ASSUME NEW k \in Nat, ~(k * st.configuration.send_slice <= st.sent)
                 PROVE  st.sent + m <= k * st.configuration.send_slice
      BY DEF Unsplit
    <3>1. st.sent + n <= k * st.configuration.send_slice
      BY DEF Unsplit
    <3> DEFINE bound == k * st.configuration.send_slice
    <3>2. bound \in Nat
      BY <1>1
    <3> HIDE DEF bound
    <3>3. st.sent + n <= bound
      BY <3>1 DEF bound
    <3>4. st.sent + m <= bound
      BY <1>1, <2>1, <3>2, <3>3
    <3> QED BY <3>4 DEF bound
  <2>5. Placed("send", s)
    BY <2>1, <2>2, <2>4 DEF Placed
  <2>6. Outstanding(s) = Outstanding(st)
    BY <2>2 DEF Outstanding, Queued
  <2>7. \A op \in Outstanding(s) : op # "send" => Placed(op, s)
    BY <2>2, <2>6 DEF SliceInv, Placed
  <2>8. SliceInv(s)
    BY <2>5, <2>7 DEF SliceInv
  <2> QED BY <1>0, <2>2, <2>3, <2>5, <2>8, SlicesBegin
<1> QED BY <1>2, <1>3

\* Aborting leaves the slices and the counters alone.
LEMMA SlicesAbort ==
  ASSUME NEW st \in SessionState, SliceInv(st), NEW f
  PROVE  SliceInv(abort(st, f)) /\ SameData(abort(st, f), st)
<1> DEFINE b == abort(st, f)
<1>1. SameData(b, st) /\ b.waiting = st.waiting /\ b.ready = st.ready
  BY DEF abort, SessionState, SameData
<1> HIDE DEF b
<1>2. Outstanding(b) = Outstanding(st)
  BY <1>1 DEF Outstanding, Queued
<1> QED BY <1>1, <1>2, SlicesFrame DEF b

\* The state in which a handler is called.
LEMMA SlicesDispatch ==
  ASSUME ControlInv, SliceInv(session), Running, session.ready # <<>>
  PROVE  LET c == Head(session.ready)
             d == dispatch(session)
         IN  /\ d \in SessionState /\ SliceInv(d) /\ SameData(d, session)
             /\ Outstanding(d) = Outstanding(session) \ {c.op}
             /\ c \in Queued(session) /\ c \in Completion /\ Placed(c.op, d)
             /\ c.op \in ReceiveLane => Free(d, ReceiveLane)
             /\ c.op \in SendLane => Free(d, SendLane)
<1> DEFINE c == Head(session.ready)
           d == dispatch(session)
<1>1. Base(session)
  BY CoreSplit DEF ControlInv
<1>2. /\ d \in SessionState /\ SameData(d, session)
      /\ Outstanding(d) = Outstanding(session) \ {c.op}
      /\ c \in Queued(session) /\ c \in Completion /\ c.op \in Outstanding(session)
  BY <1>1, DispatchBase DEF Base
<1> HIDE DEF c, d
<1>3. SliceInv(d)
  BY <1>2, SlicesFrame
<1>4. Placed(c.op, d)
  BY <1>2 DEF SliceInv, Placed, SameData
<1>5. \A lane \in {ReceiveLane, SendLane} : c.op \in lane => Free(d, lane)
  BY <1>1, <1>2 DEF Base, LaneInv, Free
<1> QED BY <1>2, <1>3, <1>4, <1>5 DEF c, d

\* The handler of a receive counts the datagram, and goes on behind it.
LEMMA SlicesOnReceive ==
  ASSUME ControlInv, SliceInv(session), HandleReceive
  PROVE  LET c == Head(session.ready)
         IN  /\ SliceInv(session')
             /\ session'.sent = session.sent
             /\ session'.received = session.received + Len(c.data)
             /\ session'.configuration = session.configuration
<1> DEFINE c == Head(session.ready)
           d == dispatch(session)
           v == verify_datagram(d, c.data)
           m == received(v, c.data)
<1>1. /\ Running /\ session.ready # <<>> /\ c.op = "receive"
      /\ session' = on_receive(d, c)
  BY DEF HandleReceive, Dispatches
<1>2. /\ d \in SessionState /\ SliceInv(d) /\ SameData(d, session)
      /\ c \in Queued(session) /\ c \in Completion /\ Placed(c.op, d)
      /\ Free(d, ReceiveLane)
  BY <1>1, SlicesDispatch DEF ReceiveLane
<1>3. /\ c.failure = "success" /\ Len(c.data) \in Nat
      /\ Len(c.data) <= d.receive_slice /\ d.receive_slice \in Nat
      /\ d.received \in Nat
  <2>1. c.failure \in {"success", "operation_aborted", "network_unreachable"}
        /\ c.failure # "operation_aborted" /\ c.failure # "network_unreachable"
    BY <1>1, <1>2 DEF ControlInv, CoreInv, AbortedInv
  <2>2. Len(c.data) <= d.receive_slice /\ d.receive_slice \in Nat /\ d.received \in Nat
    BY <1>1, <1>2 DEF ControlInv, CoreInv, SizeInv, SessionState, SameData
  <2>3. c.data \in Seq(Nat) /\ Len(c.data) \in Nat
    BY <1>2 DEF Completion
  <2> QED BY <2>1, <2>2, <2>3
<1>4. session' = IF m.received < d.configuration.size
                 THEN async_receive(m, d.receive_slice - Len(c.data))
                 ELSE finish_receive(m)
  BY <1>1, <1>3 DEF on_receive
<1>5. v \in SessionState
  BY ReceiveQuiet
<1>6. v \in {d, abort(d, "data_mismatch")}
  BY DEF verify_datagram, verify
<1> HIDE DEF c, d, v
<1>7. SameData(v, d) /\ v.waiting = d.waiting /\ v.ready = d.ready
  BY <1>2, <1>6 DEF SameData, abort, SessionState
<1>8. /\ m \in SessionState /\ m.received = d.received + Len(c.data)
      /\ m.configuration = d.configuration /\ m.sent = d.sent
      /\ m.receive_slice = d.receive_slice /\ m.send_slice = d.send_slice
      /\ m.waiting = d.waiting /\ m.ready = d.ready
  <2>1. m = [v EXCEPT !.received = v.received + Len(c.data)]
    BY <1>5 DEF received
  <2>2. v.received + Len(c.data) \in Nat
    BY <1>3, <1>7 DEF SameData
  <2> HIDE DEF m
  <2> QED BY <1>5, <1>7, <2>1, <2>2 DEF SessionState, SameData
<1> HIDE DEF m
<1>9. SliceInv(m)
  <2>1. Outstanding(m) = Outstanding(d)
    BY <1>8 DEF Outstanding, Queued
  <2> SUFFICES ASSUME NEW op \in Outstanding(m) PROVE Placed(op, m)
    BY DEF SliceInv
  <2>2. op \notin {"start", "receive_throttle", "receive"}
    BY <1>2, <2>1 DEF Free, ReceiveLane
  <2>3. Placed(op, d)
    BY <1>2, <2>1 DEF SliceInv
  <2> QED BY <1>8, <2>2, <2>3 DEF Placed
<1>10. CASE m.received < d.configuration.size
  <2> DEFINE n == d.receive_slice - Len(c.data)
  <2>1. n \in Nat /\ m.received + n = d.received + d.receive_slice
    BY <1>3, <1>8
  <2>2. Whole(d.received + d.receive_slice, d.configuration.receive_slice)
    BY <1>1, <1>2 DEF Placed, c
  <2> HIDE DEF n
  <2>3. Whole(m.received + n, m.configuration.receive_slice)
    BY <1>8, <2>1, <2>2
  <2>4. session' = async_receive(m, n)
    BY <1>4, <1>10 DEF n
  <2>5. Keeps(session', m)
    BY <1>8, <2>1, <2>4, QuietAsyncReceive
  <2>6. SliceInv(session')
    BY <1>8, <1>9, <2>1, <2>3, <2>4, SlicesReceive
  <2> QED BY <1>2, <1>8, <2>5, <2>6 DEF Keeps, SameData, c
<1>11. CASE ~(m.received < d.configuration.size)
  <2>1. session' = finish_receive(m)
    BY <1>4, <1>11
  <2>2. SliceInv(session')
    BY <1>8, <1>9, <2>1, SlicesComplete
  <2>3. Quiet(session', m) /\ session'.sent = m.sent
    BY <1>8, <2>1, QuietFinish
  <2> QED BY <1>2, <1>8, <2>2, <2>3 DEF Quiet, SameData, c
<1> QED BY <1>10, <1>11

\* A completion without success holds no bytes.
ResultInv ==
    \A c \in Queued(session) :
        c.op \in {"receive", "send"} /\ c.failure # "success" => c.data = <<>>

\* The handler of a send counts the datagram, and goes on behind it.
LEMMA SlicesOnSend ==
  ASSUME ControlInv, SliceInv(session), ResultInv, HandleSend
  PROVE  LET c == Head(session.ready)
         IN  /\ SliceInv(session')
             /\ session'.sent = session.sent + Len(c.data)
             /\ session'.received = session.received
             /\ session'.configuration = session.configuration
<1> DEFINE c == Head(session.ready)
           d == dispatch(session)
           m == sent(d, c.data)
<1>1. /\ Running /\ session.ready # <<>> /\ c.op = "send"
      /\ session' = on_send(d, c)
  BY DEF HandleSend, Dispatches
<1>2. /\ d \in SessionState /\ SliceInv(d) /\ SameData(d, session)
      /\ c \in Queued(session) /\ c \in Completion /\ Placed(c.op, d)
      /\ Free(d, SendLane)
  BY <1>1, SlicesDispatch DEF SendLane
<1>3. /\ c.failure \in {"success", "operation_aborted", "network_unreachable"}
      /\ c.failure # "success" => c.data = <<>>
      /\ c.data \in Seq(Nat) /\ Len(c.data) \in Nat
      /\ Len(c.data) <= d.send_slice /\ d.send_slice \in Nat
      /\ d.sent \in Nat /\ d.configuration.size \in Nat
      /\ d.configuration.send_slice \in Nat
      /\ d.sent + d.send_slice <= d.configuration.size
  <2>1. c.failure \in {"success", "operation_aborted", "network_unreachable"}
    BY <1>2 DEF ControlInv, CoreInv, AbortedInv
  <2>2. c.failure # "success" => c.data = <<>>
    BY <1>1, <1>2 DEF ResultInv
  <2>3. c.data \in Seq(Nat) /\ Len(c.data) \in Nat
    BY <1>2 DEF Completion
  <2>4. /\ d.send_slice \in Nat /\ d.sent \in Nat /\ d.configuration.size \in Nat
        /\ d.configuration.send_slice \in Nat
    BY <1>2 DEF SessionState, SessionConfiguration
  <2>5. "send" \in Outstanding(session)
    BY <1>1, <1>2 DEF Outstanding
  <2>6. /\ Len(c.data) <= session.send_slice
        /\ session.sent + session.send_slice <= session.configuration.size
    BY <1>1, <1>2, <2>5 DEF ControlInv, CoreInv, SizeInv
  <2> HIDE DEF c, d
  <2> QED BY <1>2, <2>1, <2>2, <2>3, <2>4, <2>6 DEF SameData
<1>4. CASE c.failure # "success"
  <2>1. session' = d \/ session' = abort(d, c.failure)
    BY <1>1, <1>3, <1>4 DEF on_send
  <2>2. SliceInv(session') /\ SameData(session', d)
    BY <1>2, <2>1, SlicesAbort DEF SameData
  <2>3. Len(c.data) = 0
    BY <1>3, <1>4
  <2> HIDE DEF c, d
  <2>4. session.sent + Len(c.data) = session.sent
    BY <1>2, <1>3, <2>3 DEF SameData
  <2> QED BY <1>2, <2>2, <2>4 DEF SameData, c
<1>5. CASE c.failure = "success"
  <2>1. session' = IF m.sent < d.configuration.size
                   THEN async_send(m, d.send_slice - Len(c.data))
                   ELSE finish_send(m)
    BY <1>1, <1>5 DEF on_send
  <2> HIDE DEF c, d
  <2>2. /\ m \in SessionState /\ m.sent = d.sent + Len(c.data)
        /\ m.configuration = d.configuration /\ m.received = d.received
        /\ m.receive_slice = d.receive_slice /\ m.send_slice = d.send_slice
        /\ m.waiting = d.waiting /\ m.ready = d.ready
    <3>1. d.sent + Len(c.data) \in Nat
      BY <1>3
    <3>2. m = [d EXCEPT !.sent = d.sent + Len(c.data)]
      BY <1>2 DEF sent
    <3> HIDE DEF m
    <3> QED BY <1>2, <3>1, <3>2 DEF SessionState
  <2> HIDE DEF m
  <2>3. SliceInv(m)
    <3>1. Outstanding(m) = Outstanding(d)
      BY <2>2 DEF Outstanding, Queued
    <3> SUFFICES ASSUME NEW op \in Outstanding(m) PROVE Placed(op, m)
      BY DEF SliceInv
    <3>2. op \notin {"start", "send_throttle", "send"}
      BY <1>2, <3>1 DEF Free, SendLane
    <3>3. Placed(op, d)
      BY <1>2, <3>1 DEF SliceInv
    <3> QED BY <2>2, <3>2, <3>3 DEF Placed
  <2>4. CASE m.sent < d.configuration.size
    <3> DEFINE n == d.send_slice - Len(c.data)
    <3>1. n \in Nat /\ m.sent + n = d.sent + d.send_slice
      BY <1>3, <2>2
    <3>2. /\ Unsplit(d.sent, d.send_slice, d.configuration.send_slice)
          /\ \/ d.sent + d.send_slice = d.configuration.size
             \/ Whole(d.sent + d.send_slice, d.configuration.send_slice)
      BY <1>1, <1>2 DEF Placed
    <3> HIDE DEF n
    <3>3. Unsplit(m.sent, n, d.configuration.send_slice)
      <4> SUFFICES ASSUME NEW k \in Nat, ~(k * d.configuration.send_slice <= m.sent)
                   PROVE  m.sent + n <= k * d.configuration.send_slice
        BY DEF Unsplit
      <4> DEFINE bound == k * d.configuration.send_slice
      <4>1. bound \in Nat
        BY <1>3
      <4>2. bound <= d.sent \/ d.sent + d.send_slice <= bound
        BY <3>2 DEF Unsplit
      <4> HIDE DEF bound
      <4>3. ~(bound <= m.sent)
        BY DEF bound
      <4>4. m.sent + n <= bound
        BY <1>3, <2>2, <3>1, <4>1, <4>2, <4>3
      <4> QED BY <4>4 DEF bound
    <3>4. session' = async_send(m, n)
      BY <2>1, <2>4 DEF n
    <3>5. Keeps(session', m)
      BY <1>3, <2>2, <2>4, <3>1, <3>4, QuietAsyncSend
    <3>6. SliceInv(session')
      BY <2>2, <2>3, <2>4, <3>1, <3>2, <3>3, <3>4, SlicesSend
    <3> QED BY <1>2, <2>2, <3>5, <3>6 DEF Keeps, SameData, c
  <2>5. CASE ~(m.sent < d.configuration.size)
    <3>1. session' = finish_send(m)
      BY <2>1, <2>5
    <3>2. SliceInv(session')
      BY <2>2, <2>3, <3>1, SlicesComplete
    <3>3. Keeps(session', m)
      BY <2>2, <3>1, QuietFinish
    <3> QED BY <1>2, <2>2, <3>2, <3>3 DEF Keeps, SameData, c
  <2> QED BY <2>4, <2>5
<1> QED BY <1>4, <1>5

\* The start of the transfer, and the handlers of the throttles, the timer and the
\* signals, count nothing.
LEMMA SlicesOnOthers ==
  ASSUME ControlInv, SliceInv(session), Handle, ~HandleReceive, ~HandleSend
  PROVE  /\ SliceInv(session')
         /\ session'.sent = session.sent
         /\ session'.received = session.received
         /\ session'.configuration = session.configuration
<1> DEFINE c == Head(session.ready)
           d == dispatch(session)
<1>1. /\ Running /\ session.ready # <<>>
      /\ \/ c.op = "start" /\ session' = start_transfer(start_timer(d))
         \/ c.op = "receive_throttle" /\ session' = on_receive_slice(d, c)
         \/ c.op = "send_throttle" /\ session' = on_send_slice(d, c)
         \/ session' = on_timeout(d, c)
         \/ session' = on_signal(d, c)
  BY DEF Handle, HandleStart, HandleReceiveThrottle, HandleSendThrottle,
         HandleTimeout, HandleSignal, Dispatches
<1>2. /\ d \in SessionState /\ SliceInv(d) /\ SameData(d, session)
      /\ Placed(c.op, d)
  BY <1>1, SlicesDispatch
<1> HIDE DEF c, d
<1>3. /\ d.sent \in Nat /\ d.received \in Nat /\ d.configuration.size \in Nat
      /\ d.configuration.receive_slice \in Nat /\ d.configuration.send_slice \in Nat
  BY <1>2 DEF SessionState, SessionConfiguration
<1>4. ASSUME Keeps(session', d), SliceInv(session')
      PROVE  /\ SliceInv(session')
             /\ session'.sent = session.sent
             /\ session'.received = session.received
             /\ session'.configuration = session.configuration
  BY <1>2, <1>4 DEF Keeps, SameData
<1>5. CASE c.op = "start" /\ session' = start_transfer(start_timer(d))
  <2> DEFINE t == start_timer(d)
             r == start_receiving(t)
  <2>1. /\ Whole(d.received, d.configuration.receive_slice)
        /\ Whole(d.sent, d.configuration.send_slice)
        /\ d.sent < d.configuration.size
    BY <1>2, <1>5 DEF Placed
  <2>2. "timeout" \in Operation /\ Placed("timeout", d)
    BY DEF Operation, Placed
  <2>3. t \in SessionState /\ SliceInv(t)
        /\ t.received = d.received /\ t.sent = d.sent
        /\ t.configuration = d.configuration
    <3>1. Keeps(t, d)
      BY <1>2, <2>2, KeepsBegin DEF start_timer
    <3>2. SliceInv(t)
      BY <1>2, <2>2, SlicesBegin DEF start_timer
    <3> QED BY <3>1, <3>2 DEF Keeps
  <2> HIDE DEF t
  <2>4. r \in SessionState /\ SliceInv(r)
        /\ r.received = d.received /\ r.sent = d.sent
        /\ r.configuration = d.configuration
    <3>1. CASE t.configuration.direction = "TX"
      <4>1. r = finish_receive(t)
        BY <3>1 DEF start_receiving
      <4>2. SliceInv(r)
        BY <2>3, <4>1, SlicesComplete
      <4>3. r \in SessionState /\ Quiet(r, t) /\ r.sent = t.sent
        BY <2>3, <4>1, QuietFinish
      <4> QED BY <2>3, <4>2, <4>3 DEF Quiet
    <3>2. CASE t.configuration.direction # "TX"
      <4>1. r = async_receive(t, 0) /\ t.received + 0 = d.received
        BY <1>3, <2>3, <3>2 DEF start_receiving
      <4>2. SliceInv(r)
        BY <2>1, <2>3, <4>1, SlicesReceive
      <4>3. Keeps(r, t)
        BY <2>3, <4>1, QuietAsyncReceive
      <4> QED BY <2>3, <4>2, <4>3 DEF Keeps
    <3> QED BY <3>1, <3>2
  <2> HIDE DEF r
  <2>5. session' = start_sending(r)
    BY <1>5 DEF start_transfer, r, t
  <2>6. SliceInv(session') /\ Keeps(session', r)
    <3>1. CASE r.configuration.direction = "RX"
      BY <2>4, <2>5, <3>1, SlicesComplete, QuietFinish DEF start_sending
    <3>2. CASE r.configuration.direction # "RX"
      <4>1. session' = async_send(r, 0)
        BY <2>5, <3>2 DEF start_sending
      <4>2. r.sent + 0 = d.sent /\ r.sent <= r.configuration.size
        BY <1>3, <2>1, <2>4
      <4>3. Unsplit(r.sent, 0, r.configuration.send_slice)
        <5> SUFFICES ASSUME NEW k \in Nat
                     PROVE  \/ k * d.configuration.send_slice <= d.sent
                            \/ d.sent <= k * d.configuration.send_slice
          BY <2>4, <4>2 DEF Unsplit
        <5>1. k * d.configuration.send_slice \in Nat
          BY <1>3
        <5> QED BY <1>3, <5>1
      <4> QED BY <2>1, <2>4, <4>1, <4>2, <4>3, SlicesSend, QuietAsyncSend
    <3> QED BY <3>1, <3>2
  <2> QED BY <1>2, <2>4, <2>6 DEF Keeps, SameData
<1>6. CASE c.op = "receive_throttle" /\ session' = on_receive_slice(d, c)
  <2>1. Whole(d.received + d.configuration.receive_slice, d.configuration.receive_slice)
    BY <1>2, <1>3, <1>6, NextSlice DEF Placed
  <2>2. Keeps(d, d)
    BY <1>2, KeepsNothing
  <2> QED BY <1>2, <1>3, <1>4, <1>6, <2>1, <2>2, SlicesReceive, QuietAsyncReceive
          DEF on_receive_slice
<1>7. CASE c.op = "send_throttle" /\ session' = on_send_slice(d, c)
  <2>1. /\ d.sent < d.configuration.size /\ d.sent <= d.configuration.size
        /\ Whole(d.sent + d.configuration.send_slice, d.configuration.send_slice)
        /\ Unsplit(d.sent, d.configuration.send_slice, d.configuration.send_slice)
    BY <1>2, <1>3, <1>7, NextSlice DEF Placed
  <2>2. Keeps(d, d)
    BY <1>2, KeepsNothing
  <2> QED BY <1>2, <1>3, <1>4, <1>7, <2>1, <2>2, SlicesSend, QuietAsyncSend
          DEF on_send_slice
<1>8. CASE session' = on_timeout(d, c) \/ session' = on_signal(d, c)
  <2>1. session' = d \/ \E f : session' = abort(d, f)
    BY <1>8 DEF on_timeout, on_signal
  <2>2. SliceInv(session') /\ SameData(session', d)
    BY <1>2, <2>1, SlicesAbort DEF SameData
  <2> QED BY <1>2, <2>2 DEF SameData
<1> QED BY <1>1, <1>5, <1>6, <1>7, <1>8

\* What a handler does to the counters, and to the completions that wait behind it.
LEMMA HandlerCounts ==
  ASSUME ControlInv, ControlInv', SliceInv(session), ResultInv, Handle
  PROVE  LET c == Head(session.ready)
         IN  /\ Running /\ c \in Queued(session) /\ c.data \in Seq(Nat)
             /\ SliceInv(session')
             /\ session'.configuration = session.configuration
             /\ session'.received = IF c.op = "receive" THEN session.received + Len(c.data)
                                    ELSE session.received
             /\ session'.sent = IF c.op = "send" THEN session.sent + Len(c.data)
                                ELSE session.sent
             /\ \A e : e.op \in {"receive", "send"} =>
                    (e \in Queued(session') <=> e \in Queued(session) \ {c})
             /\ UNCHANGED <<arrived, outgoing, head, strange>>
<1> DEFINE c == Head(session.ready)
           d == dispatch(session)
           v == verify_datagram(d, c.data)
<1>1. Running /\ session.ready # <<>> /\ UNCHANGED <<arrived, outgoing, head, strange>>
  BY DEF Handle, HandleStart, HandleReceiveThrottle, HandleReceive, HandleSendThrottle,
         HandleSend, HandleTimeout, HandleSignal, Dispatches
<1>2. /\ d \in SessionState /\ Queued(d) = Queued(session) \ {c}
      /\ c \in Queued(session) /\ c \in Completion
  BY <1>1, DispatchDatagram
<1>3. c.data \in Seq(Nat)
  BY <1>2 DEF Completion
<1>4. /\ HandleReceive => c.op = "receive"
      /\ HandleSend => c.op = "send"
      /\ ~HandleReceive /\ ~HandleSend => c.op \notin {"receive", "send"}
  BY DEF Handle, HandleStart, HandleReceiveThrottle, HandleReceive, HandleSendThrottle,
         HandleSend, HandleTimeout, HandleSignal, Dispatches
<1>5. /\ SliceInv(session')
      /\ session'.configuration = session.configuration
      /\ session'.received = IF c.op = "receive" THEN session.received + Len(c.data)
                             ELSE session.received
      /\ session'.sent = IF c.op = "send" THEN session.sent + Len(c.data)
                         ELSE session.sent
  BY <1>4, SlicesOnReceive, SlicesOnSend, SlicesOnOthers
<1>6. /\ Queued(d) \subseteq Queued(session')
      /\ \A e \in Queued(session') \ Queued(d) : e.failure = "operation_aborted"
  <2>1. CASE HandleReceive
    <3>1. v \in {d, abort(d, "data_mismatch")} /\ Quiet(session', received(v, c.data))
          /\ received(v, c.data).ready = v.ready
      BY <2>1, ReceiveQuiet
    <3>2. v.ready = d.ready
      BY <1>2, <3>1 DEF abort, SessionState
    <3>3. Queued(received(v, c.data)) = Queued(d)
      BY <3>1, <3>2 DEF Queued
    <3> QED BY <3>1, <3>3 DEF Quiet
  <2>2. CASE ~HandleReceive
    BY <2>2, QuietHandlers DEF Quiet
  <2> QED BY <2>1, <2>2
<1>7. \A e \in Queued(session') :
        e.failure = "operation_aborted" => e.op \in {"signal", "timeout"}
  BY DEF ControlInv, CoreInv, AbortedInv
<1> HIDE DEF c, d, v
<1>8. \A e : e.op \in {"receive", "send"} =>
            (e \in Queued(session') <=> e \in Queued(session) \ {c})
  BY <1>2, <1>6, <1>7
<1> QED BY <1>1, <1>2, <1>3, <1>5, <1>8 DEF c

\* A handler does not move a session: what it counts was in the queue.
LEMMA HandlerReaches ==
  ASSUME ControlInv, ControlInv', SliceInv(session), ResultInv, Handle
  PROVE  /\ Reached(session') = Reached(session)
         /\ Passed(session') = Passed(session)
<1> DEFINE c == Head(session.ready)
<1>1. /\ c \in Queued(session) /\ c.data \in Seq(Nat)
      /\ session'.received = IF c.op = "receive" THEN session.received + Len(c.data)
                             ELSE session.received
      /\ session'.sent = IF c.op = "send" THEN session.sent + Len(c.data)
                         ELSE session.sent
      /\ \A e : e.op \in {"receive", "send"} =>
            (e \in Queued(session') <=> e \in Queued(session) \ {c})
  BY HandlerCounts
<1>2. /\ QueueInv(session) /\ QueueInv(session')
      /\ session.received \in Nat /\ session.sent \in Nat /\ session \in SessionState
  BY DEF ControlInv, TypeOK, CoreInv, SessionState
<1> HIDE DEF c
<1>3. ASSUME NEW op \in {"receive", "send"}
      PROVE  /\ c.op = op => Held(session, op) = Len(c.data) /\ Held(session', op) = 0
             /\ c.op # op => Held(session, op) = Held(session', op)
  <2>1. CASE c.op = op
    <3>1. \A e \in Queued(session') : e.op # op
      BY <1>1, <2>1, OneReceive
    <3> QED BY <1>1, <1>2, <2>1, <3>1, HeldOne, HeldNone
  <2>2. CASE c.op # op
    <3>1. \A e : e.op = op => (e \in Queued(session') <=> e \in Queued(session))
      BY <1>1, <2>2
    <3> QED BY <1>2, <2>2, <3>1, HeldSame
  <2> QED BY <2>1, <2>2
<1>4. Reached(session') = Reached(session)
  <2>1. Len(c.data) \in Nat
    BY <1>1
  <2> QED BY <1>1, <1>2, <1>3, <2>1 DEF Reached
<1>5. Passed(session') = Passed(session)
  <2>1. Len(c.data) \in Nat
    BY <1>1
  <2> QED BY <1>1, <1>2, <1>3, <2>1 DEF Passed
<1> QED BY <1>4, <1>5

\* A completion moves a session by the bytes it holds.
LEMMA CompletionReaches ==
  ASSUME ControlInv, SliceInv(session), NEW op \in session.waiting,
         NEW failure \in ErrorCode, NEW data \in Seq(Nat),
         session' = complete(session, done(op, failure, data))
  PROVE  /\ SliceInv(session')
         /\ Queued(session') = Queued(session) \cup {done(op, failure, data)}
         /\ SameData(session', session)
         /\ \A c \in Queued(session) : c.op # op
         /\ Held(session, op) = 0 /\ Held(session', op) = Len(data)
         /\ \A o : o # op => Held(session', o) = Held(session, o)
<1> DEFINE c == done(op, failure, data)
<1>1. Base(session) /\ op \in Operation
  BY CoreSplit DEF ControlInv, CoreInv, SessionState
<1>2. c \in Completion /\ c.op = op /\ c.data = data
  BY <1>1, DoneType
<1> HIDE DEF c
<1>3. /\ Base(session') /\ Outstanding(session') = Outstanding(session)
      /\ Queued(session') = Queued(session) \cup {c}
      /\ SameData(session', session)
  BY <1>1, <1>2, CompleteBase DEF c
<1>4. \A e \in Queued(session) : e.op # op
  BY <1>1 DEF Base, QueueInv, Queued
<1>5. QueueInv(session) /\ QueueInv(session')
  BY <1>1, <1>3 DEF Base
<1>6. Held(session, op) = 0
  BY <1>4, HeldNone
<1>7. Held(session', op) = Len(data)
  BY <1>2, <1>3, <1>5, HeldOne
<1>8. \A o : o # op => Held(session', o) = Held(session, o)
  <2> SUFFICES ASSUME NEW o, o # op PROVE Held(session', o) = Held(session, o)
    OBVIOUS
  <2>1. \A e : e.op = o => (e \in Queued(session') <=> e \in Queued(session))
    BY <1>2, <1>3
  <2> QED BY <1>5, <2>1, HeldSame
<1>9. SliceInv(session')
  BY <1>3, SlicesFrame
<1> QED BY <1>3, <1>4, <1>6, <1>7, <1>8, <1>9 DEF c

\* What a session has in hand.
HandInv == SliceInv(session) /\ ResultInv

\* It starts with nothing in hand.
LEMMA HandInit == Init => HandInv
<1> SUFFICES ASSUME Init PROVE HandInv
  OBVIOUS
<1>1. PICK k \in Configurations : session = initialize(k)
  BY DEF Init
<1>2. k.size # 0 /\ k.size \in Nat /\ k.receive_slice \in Nat /\ k.send_slice \in Nat
  BY ConfigurationsAssumption DEF Accepted, SessionConfiguration
<1>3. /\ session.configuration = k /\ session.received = 0 /\ session.sent = 0
      /\ session.waiting = {"signal"}
      /\ session.ready = <<done("start", "success", <<>>)>>
  BY <1>1 DEF initialize, post, new
<1>4. \A c \in Queued(session) : c.op = "start"
  BY <1>3 DEF Queued, done
<1>5. Outstanding(session) \subseteq {"signal", "start"}
  BY <1>3, <1>4 DEF Outstanding
<1>6. Whole(0, k.receive_slice) /\ Whole(0, k.send_slice)
  BY <1>2 DEF Whole
<1>7. Placed("start", session) /\ Placed("signal", session)
  BY <1>2, <1>3, <1>6 DEF Placed
<1>8. SliceInv(session)
  BY <1>5, <1>7 DEF SliceInv
<1> QED BY <1>4, <1>8 DEF HandInv, ResultInv

\* What completes.
LEMMA HandComplete ==
  ASSUME ControlInv, HandInv, NEW op \in session.waiting,
         NEW failure \in ErrorCode, NEW data \in Seq(Nat),
         op \in {"receive", "send"} /\ failure # "success" => data = <<>>,
         session' = complete(session, done(op, failure, data))
  PROVE  HandInv'
<1>1. /\ SliceInv(session')
      /\ Queued(session') = Queued(session) \cup {done(op, failure, data)}
  BY CompletionReaches DEF HandInv
<1>2. /\ done(op, failure, data).op = op /\ done(op, failure, data).failure = failure
      /\ done(op, failure, data).data = data
  BY DEF done
<1>3. ResultInv'
  <2> SUFFICES ASSUME NEW c \in Queued(session'),
                      c.op \in {"receive", "send"}, c.failure # "success"
               PROVE  c.data = <<>>
    BY DEF ResultInv
  <2>1. c \in Queued(session) \/ c = done(op, failure, data)
    BY <1>1
  <2> QED BY <1>2, <2>1 DEF HandInv, ResultInv
<1> QED BY <1>1, <1>3 DEF HandInv

\* What a receive takes of a datagram.
LEMMA ReceivesTaken ==
  ASSUME ControlInv, SliceInv(session), ReceivesDatagram
  PROVE  LET datagram == Head(arrived)
             n == Least(receive_size, Len(datagram))
             taken == SubSeq(datagram, 1, n)
         IN  /\ Running /\ "receive" \in session.waiting /\ arrived # <<>>
             /\ session' = complete(session, done("receive", "success", taken))
             /\ strange' = strange \cup oddities(session, taken)
             /\ arrived' = Tail(arrived) /\ outgoing' = outgoing
             /\ datagram \in Seq(Byte) /\ Len(datagram) \in Nat
             /\ n \in 0 .. Len(datagram) /\ n <= session.receive_slice
             /\ datagram # <<>> => n # 0
             /\ n = Len(datagram) \/ n = session.receive_slice \/ n = BUFFER_SIZE
             /\ taken \in Seq(Byte) /\ taken \in Seq(Nat) /\ Len(taken) = n
             /\ \A i \in 1 .. n : taken[i] = datagram[i]
<1> DEFINE datagram == Head(arrived)
           n == Least(receive_size, Len(datagram))
           taken == SubSeq(datagram, 1, n)
<1>1. /\ Running /\ "receive" \in session.waiting /\ arrived # <<>>
      /\ session' = complete(session, done("receive", "success", taken))
      /\ strange' = strange \cup oddities(session, taken)
      /\ arrived' = Tail(arrived) /\ outgoing' = outgoing
  BY DEF ReceivesDatagram, Waits
<1>2. datagram \in Seq(Byte)
  BY <1>1 DEF ControlInv, TypeOK
<1>3. /\ session.receive_slice \in Nat /\ BUFFER_SIZE \in Nat /\ BUFFER_SIZE > 0
      /\ session.receive_slice > 0
  <2>1. "receive" \in Outstanding(session)
    BY <1>1 DEF Outstanding
  <2>2. Placed("receive", session)
    BY <2>1 DEF SliceInv
  <2> QED BY <2>2, BufferAssumption DEF ControlInv, TypeOK, SessionState, Placed
<1> HIDE DEF datagram
<1>4. Len(datagram) \in Nat /\ (datagram # <<>> => Len(datagram) # 0)
  BY <1>2
<1>5. /\ n \in 0 .. Len(datagram) /\ n <= session.receive_slice
      /\ datagram # <<>> => n # 0
      /\ n = Len(datagram) \/ n = session.receive_slice \/ n = BUFFER_SIZE
  BY <1>3, <1>4 DEF receive_size, Least
<1> HIDE DEF n
<1>6. taken \in Seq(Byte) /\ Len(taken) = n /\ \A i \in 1 .. n : taken[i] = datagram[i]
  BY <1>2, <1>5
<1>7. taken \in Seq(Nat)
  BY <1>6, ByteSeq
<1> QED BY <1>1, <1>2, <1>4, <1>5, <1>6, <1>7 DEF datagram, n

\* A remainder of 0 is a multiple.
LEMMA Multiple ==
  ASSUME NEW a \in Nat, NEW b \in Nat \ {0}, a % b = 0, NEW k \in Nat
  PROVE  \E m \in Nat : k * a = m * b
<1> DEFINE q == a \div b
<1>1. q \in Int /\ a = b * q
  <2>1. a = b * q + (a % b) /\ q \in Int
    BY Division
  <2> QED BY <2>1
<1> HIDE DEF q
<1>2. q >= 0
  <2> SUFFICES ASSUME q < 0 PROVE FALSE
    BY <1>1
  <2>1. b * (0 - q) > 0 /\ b * q = 0 - b * (0 - q)
    BY <1>1
  <2> QED BY <1>1, <2>1
<1>3. k * q \in Nat /\ k * a = (k * q) * b
  BY <1>1, <1>2
<1> QED BY <1>3

\* A receive whose slice ends where one of the sender's does takes a datagram that does
\* not cross such a bound, if the buffer does.
LEMMA ReceivesWhole ==
  ASSUME NEW position \in Nat, NEW rest \in Nat \ {0}, NEW n \in Nat, NEW count \in Nat,
         NEW slice \in Nat, NEW sender_slice \in Nat \ {0},
         Whole(position + rest, slice), slice % sender_slice = 0,
         count <= BUFFER_SIZE, Unsplit(position, count, sender_slice),
         n <= count, n = count \/ n = rest \/ n = BUFFER_SIZE
  PROVE  n = count
<1>1. PICK k \in Nat : position + rest = k * slice
  BY DEF Whole
<1>2. PICK m \in Nat : k * slice = m * sender_slice
  BY Multiple
<1> DEFINE bound == m * sender_slice
<1>3. bound = position + rest
  BY <1>1, <1>2
<1>4. bound <= position \/ position + count <= bound
  BY DEF Unsplit
<1> HIDE DEF bound
<1>5. count <= rest
  BY <1>3, <1>4
<1> QED BY <1>5, BufferAssumption

\* What a send puts into a datagram.
LEMMA SendsPut ==
  ASSUME ControlInv, SliceInv(session), SendsDatagram
  PROVE  \E datagram :
            /\ "send" \in session.waiting /\ Running
            /\ datagram \in Seq(Byte) /\ datagram \in Seq(Nat)
            /\ session' = complete(session, done("send", "success", datagram))
            /\ outgoing' = Append(outgoing, datagram)
            /\ UNCHANGED <<arrived, head, strange>>
            /\ Len(datagram) <= BUFFER_SIZE
            /\ Run(datagram, session.sent)
            /\ Unsplit(session.sent, Len(datagram), session.configuration.send_slice)
            /\ datagram = <<>> => 0 \in DatagramSizes
<1>1. PICK max \in DatagramSizes :
        LET datagram == BytesToSend(send_offset(session), Least(session.send_slice, max))
        IN  /\ session' = complete(session, done("send", "success", datagram))
            /\ outgoing' = Append(outgoing, datagram)
  BY DEF SendsDatagram, datagrams_to_send, get_max_datagram_size
<1> DEFINE n == Least(session.send_slice, max)
           datagram == BytesToSend(send_offset(session), n)
<1>2. /\ session' = complete(session, done("send", "success", datagram))
      /\ outgoing' = Append(outgoing, datagram)
      /\ Running /\ "send" \in session.waiting /\ UNCHANGED <<arrived, head, strange>>
  BY <1>1 DEF SendsDatagram, Waits
<1>3. /\ session.send_slice \in Nat /\ session.send_slice > 0 /\ session.sent \in Nat
      /\ session.configuration.send_slice \in Nat
      /\ Unsplit(session.sent, session.send_slice, session.configuration.send_slice)
  <2>1. "send" \in Outstanding(session)
    BY <1>2 DEF Outstanding
  <2>2. Placed("send", session)
    BY <2>1 DEF SliceInv
  <2> QED BY <2>2 DEF ControlInv, TypeOK, SessionState, SessionConfiguration, Placed
<1>4. max \in Nat /\ max + BYTE_VALUES - 1 <= BUFFER_SIZE
  BY DatagramsAssumption
<1>5. /\ n \in Nat /\ n <= session.send_slice /\ n <= max
      /\ n = 0 => max = 0
  BY <1>3, <1>4 DEF Least
<1> HIDE DEF n
<1>6. n <= BUFFER_SIZE - (session.sent % BYTE_VALUES) /\ n <= BUFFER_SIZE
  <2>1. session.sent % BYTE_VALUES \in 0 .. BYTE_VALUES - 1
    BY <1>3, BufferAssumption
  <2> QED BY <1>4, <1>5, <2>1, BufferAssumption
<1>7. datagram \in Seq(Byte) /\ Len(datagram) = n
  BY <1>3, <1>5, <1>6, BytesToSendType DEF send_offset
<1>8. Run(datagram, session.sent)
  BY <1>3, <1>5, <1>6, BytesToSendPattern DEF Run, send_offset
<1>9. Unsplit(session.sent, n, session.configuration.send_slice)
  <2> SUFFICES ASSUME NEW k \in Nat,
                      ~(k * session.configuration.send_slice <= session.sent)
               PROVE  session.sent + n <= k * session.configuration.send_slice
    BY DEF Unsplit
  <2> DEFINE bound == k * session.configuration.send_slice
  <2>1. bound \in Nat
    BY <1>3
  <2>2. session.sent + session.send_slice <= bound
    BY <1>3 DEF Unsplit
  <2> HIDE DEF bound
  <2>3. session.sent + n <= bound
    BY <1>3, <1>5, <2>1, <2>2
  <2> QED BY <2>3 DEF bound
<1>10. datagram = <<>> => 0 \in DatagramSizes
  <2> SUFFICES ASSUME datagram = <<>> PROVE 0 \in DatagramSizes
    OBVIOUS
  <2>1. n = 0
    BY <1>7
  <2> QED BY <1>5, <2>1
<1> HIDE DEF datagram
<1>11. datagram \in Seq(Nat)
  BY <1>7, ByteSeq
<1> QED BY <1>2, <1>6, <1>7, <1>8, <1>9, <1>10, <1>11

\* Every step keeps it.
LEMMA HandStep ==
  ASSUME ControlInv, ControlInv', HandInv, [Next]_vars
  PROVE  HandInv'
<1>0. /\ "success" \in ErrorCode /\ "network_unreachable" \in ErrorCode
      /\ session \in SessionState
  BY DEF ErrorCode, Error, SystemError, ControlInv, TypeOK
<1>1. CASE Handle
  <2>1. /\ SliceInv(session')
        /\ \A e : e.op \in {"receive", "send"} =>
                (e \in Queued(session') <=> e \in Queued(session) \ {Head(session.ready)})
    BY <1>1, HandlerCounts DEF HandInv
  <2>2. ResultInv'
    BY <2>1 DEF HandInv, ResultInv
  <2> QED BY <2>1, <2>2 DEF HandInv
<1>2. CASE ReceivesDatagram
  <2>1. PICK taken \in Seq(Nat) : /\ "receive" \in session.waiting
                                  /\ session' = complete(session, done("receive", "success", taken))
    BY <1>2, ReceivesTaken DEF HandInv
  <2> QED BY <1>0, <2>1, HandComplete
<1>3. CASE SendsDatagram
  <2>1. PICK datagram \in Seq(Nat) : /\ "send" \in session.waiting
                                     /\ session' = complete(session, done("send", "success", datagram))
    BY <1>3, SendsPut DEF HandInv
  <2> QED BY <1>0, <2>1, HandComplete
<1>4. CASE SendFails \/ (\E op \in {"receive_throttle", "send_throttle", "timeout"} : TimerExpires(op))
  <2>1. /\ <<>> \in Seq(Nat)
        /\ \E op \in session.waiting : \E failure \in {"success", "network_unreachable"} :
                session' = complete(session, done(op, failure, <<>>))
    BY <1>4 DEF SendFails, TimerExpires, Waits
  <2> QED BY <1>0, <2>1, HandComplete
<1>5. CASE \E number \in Signal : SignalArrives(number)
  <2>1. PICK number \in Signal : SignalArrives(number)
    BY <1>5
  <2>2. <<number>> \in Seq(Nat)
    BY DEF Signal, SIGHUP, SIGINT, SIGTERM
  <2>3. /\ "signal" \in session.waiting
        /\ session' = complete(session, done("signal", "success", <<number>>))
    BY <2>1 DEF SignalArrives, Waits
  <2> QED BY <1>0, <2>2, <2>3, HandComplete
<1>6. CASE Environment \/ UNCHANGED vars
  <2>1. /\ session'.waiting = session.waiting /\ session'.ready = session.ready
        /\ SameData(session', session)
    BY <1>0, <1>6 DEF Environment, Arrives, Departs, ExitRequestedElsewhere, vars,
       SameData, SessionState
  <2>2. Queued(session') = Queued(session) /\ Outstanding(session') = Outstanding(session)
    BY <2>1 DEF Queued, Outstanding
  <2> QED BY <2>1, <2>2, SlicesFrame DEF HandInv, ResultInv
<1> QED BY <1>1, <1>2, <1>3, <1>4, <1>5, <1>6 DEF Next, Complete

\* The counters are numbers.
LEMMA Counters ==
  ASSUME ControlInv
  PROVE  /\ session.received \in Nat /\ session.sent \in Nat
         /\ Held(session, "receive") \in Nat /\ Held(session, "send") \in Nat
         /\ Reached(session) \in Nat /\ Passed(session) \in Nat
<1>1. /\ session.received \in Nat /\ session.sent \in Nat
      /\ session \in SessionState /\ QueueInv(session)
  BY DEF ControlInv, TypeOK, CoreInv, SessionState
<1>2. Held(session, "receive") \in Nat /\ Held(session, "send") \in Nat
  BY <1>1, HeldType
<1> QED BY <1>1, <1>2 DEF Reached, Passed

\* What the network and the other end see of the steps of a session.
LEMMA EndMoves ==
  ASSUME ControlInv, ControlInv', HandInv,
         \/ Handle \/ ReceivesDatagram \/ SendsDatagram
         \/ \E op \in {"receive_throttle", "send_throttle", "timeout"} : TimerExpires(op)
  PROVE  Moves(session, arrived, outgoing, strange,
               session', arrived', outgoing', strange', 0 \in DatagramSizes)
<1>0. /\ "success" \in ErrorCode /\ session \in SessionState
      /\ SliceInv(session) /\ ResultInv /\ <<>> \in Seq(Nat) /\ Len(<<>>) = 0
      /\ session.configuration.receive_slice \in Nat
  BY DEF ErrorCode, Error, ControlInv, TypeOK, HandInv, SessionState, SessionConfiguration
<1>1. CASE Handle
  <2>1. /\ Reached(session') = Reached(session) /\ Passed(session') = Passed(session)
        /\ session'.configuration = session.configuration
        /\ UNCHANGED <<arrived, outgoing, head, strange>>
    BY <1>0, <1>1, HandlerReaches, HandlerCounts
  <2> QED BY <2>1 DEF Moves, Stays
<1>2. ASSUME NEW op \in session.waiting, NEW data \in Seq(Nat),
             session' = complete(session, done(op, "success", data))
      PROVE  /\ session'.configuration = session.configuration
             /\ op = "receive" => /\ Reached(session) = session.received
                                  /\ Reached(session') = Reached(session) + Len(data)
             /\ op = "send" => /\ Passed(session) = session.sent
                               /\ Passed(session') = Passed(session) + Len(data)
             /\ op # "receive" => Reached(session') = Reached(session)
             /\ op # "send" => Passed(session') = Passed(session)
  <2>1. /\ SameData(session', session)
        /\ Held(session, op) = 0 /\ Held(session', op) = Len(data)
        /\ \A o : o # op => Held(session', o) = Held(session, o)
    BY <1>0, <1>2, CompletionReaches
  <2>2. Len(data) \in Nat
    OBVIOUS
  <2> QED BY <2>1, <2>2, Counters DEF SameData, Reached, Passed
<1>3. CASE \E op \in {"receive_throttle", "send_throttle", "timeout"} : TimerExpires(op)
  <2>1. PICK op \in {"receive_throttle", "send_throttle", "timeout"} : TimerExpires(op)
    BY <1>3
  <2>2. /\ op \in session.waiting /\ session' = complete(session, done(op, "success", <<>>))
        /\ UNCHANGED <<arrived, outgoing, head, strange>>
    BY <2>1 DEF TimerExpires, Waits
  <2>3. /\ Reached(session') = Reached(session) /\ Passed(session') = Passed(session)
        /\ session'.configuration = session.configuration
    BY <1>0, <1>2, <2>2
  <2> QED BY <2>2, <2>3 DEF Moves, Stays
<1>4. CASE SendsDatagram
  <2>1. PICK datagram :
            /\ "send" \in session.waiting
            /\ datagram \in Seq(Byte) /\ datagram \in Seq(Nat)
            /\ session' = complete(session, done("send", "success", datagram))
            /\ outgoing' = Append(outgoing, datagram)
            /\ UNCHANGED <<arrived, head, strange>>
            /\ Len(datagram) <= BUFFER_SIZE
            /\ Run(datagram, session.sent)
            /\ Unsplit(session.sent, Len(datagram), session.configuration.send_slice)
            /\ datagram = <<>> => 0 \in DatagramSizes
    BY <1>0, <1>4, SendsPut
  <2>2. /\ Passed(session) = session.sent
        /\ Passed(session') = Passed(session) + Len(datagram)
        /\ Reached(session') = Reached(session)
        /\ session'.configuration = session.configuration
    BY <1>2, <2>1
  <2>3. Puts(session, arrived, outgoing, strange,
             session', arrived', outgoing', strange', datagram)
    BY <2>1, <2>2 DEF Puts
  <2> QED BY <2>1, <2>2, <2>3 DEF Moves
<1>5. CASE ReceivesDatagram
  <2> DEFINE datagram == Head(arrived)
             n == Least(receive_size, Len(datagram))
             taken == SubSeq(datagram, 1, n)
  <2>1. /\ Running /\ "receive" \in session.waiting /\ arrived # <<>>
        /\ session' = complete(session, done("receive", "success", taken))
        /\ strange' = strange \cup oddities(session, taken)
        /\ arrived' = Tail(arrived) /\ outgoing' = outgoing
        /\ datagram \in Seq(Byte) /\ Len(datagram) \in Nat
        /\ n \in 0 .. Len(datagram)
        /\ n = Len(datagram) \/ n = session.receive_slice \/ n = BUFFER_SIZE
        /\ taken \in Seq(Nat) /\ Len(taken) = n
        /\ \A i \in 1 .. n : taken[i] = datagram[i]
    BY <1>0, <1>5, ReceivesTaken
  <2> HIDE DEF datagram, n, taken
  <2>2. /\ Reached(session) = session.received
        /\ Reached(session') = Reached(session) + n
        /\ Passed(session') = Passed(session)
        /\ session'.configuration = session.configuration
    BY <1>2, <2>1
  <2>3. /\ session.receive_slice \in Nat \ {0}
        /\ Whole(session.received + session.receive_slice, session.configuration.receive_slice)
    <3>1. "receive" \in Outstanding(session)
      BY <2>1 DEF Outstanding
    <3>2. Placed("receive", session)
      BY <1>0, <3>1 DEF SliceInv
    <3> QED BY <1>0, <3>2 DEF Placed, SessionState
  <2>4. Run(datagram, Reached(session)) => "wrong" \notin oddities(session, taken)
    <3>1. DOMAIN taken = 1 .. n /\ DOMAIN datagram = 1 .. Len(datagram)
      BY <2>1
    <3>0. n \in Nat /\ n <= Len(datagram) /\ Len(datagram) \in Nat
      BY <2>1
    <3>2. \A i \in 1 .. n : i \in DOMAIN datagram
      BY <3>0, <3>1
    <3>3. "wrong" \in oddities(session, taken) =>
            \E i \in DOMAIN taken : taken[i] # Pattern(session.received + i - 1)
      BY DEF oddities
    <3> QED BY <2>1, <2>2, <3>1, <3>2, <3>3 DEF Run
  <2>5. ASSUME NEW slice \in Nat \ {0},
               session.configuration.receive_slice % slice = 0,
               Len(datagram) <= BUFFER_SIZE,
               Unsplit(Reached(session), Len(datagram), slice)
        PROVE  Reached(session') = Reached(session) + Len(datagram)
    <3> DEFINE position == session.received
               rest == session.receive_slice
               count == Len(datagram)
               own == session.configuration.receive_slice
    <3>0. /\ position \in Nat /\ rest \in Nat \ {0} /\ n \in Nat /\ count \in Nat
          /\ own \in Nat /\ Whole(position + rest, own) /\ own % slice = 0
          /\ count <= BUFFER_SIZE /\ Unsplit(position, count, slice)
          /\ n <= count /\ (n = count \/ n = rest \/ n = BUFFER_SIZE)
      BY <1>0, <2>1, <2>2, <2>3, <2>5, Counters
    <3> HIDE DEF position, rest, count, own
    <3>1. n = count
      BY <3>0, ReceivesWhole
    <3> QED BY <2>2, <3>1 DEF count
  <2>6. Reached(session') - Reached(session) \in 0 .. Len(datagram)
    BY <2>1, <2>2, Counters
  <2>7. Takes(session, arrived, outgoing, strange, session', arrived', outgoing', strange')
    BY <2>1, <2>2, <2>4, <2>5, <2>6 DEF Takes, datagram
  <2> QED BY <2>2, <2>7 DEF Moves
<1> QED BY <1>1, <1>3, <1>4, <1>5

-----------------------------------------------------------------------------
(* Datagrams of a tester.  Each is a run of the pattern with at least one  *)
(* byte, so that its first byte is right or all are wrong.                 *)

\* With such datagrams nothing strange but wrong bytes is received; and a session that
\* verifies does not go on past them: they are in the datagram whose handler is next.
FirstInv ==
    /\ "empty" \notin strange
    /\ Running =>
        /\ \A c \in Queued(session) : c.op = "receive" =>
                c.data # <<>> /\ \E position \in Nat : Run(c.data, position)
        /\ (session.configuration.verify # "NONE" /\ "wrong" \in strange) =>
                \E c \in Queued(session) :
                    c.op = "receive" /\ "wrong" \in oddities(session, c.data)

\* What leaves receives alone leaves this alone.
LEMMA FirstFrame ==
  ASSUME FirstInv, strange' = strange, Running' => Running,
         session'.configuration = session.configuration,
         session'.received = session.received,
         \A c : c.op = "receive" => (c \in Queued(session') <=> c \in Queued(session))
  PROVE  FirstInv'
<1>1. \A data : oddities(session', data) = oddities(session, data)
  BY DEF oddities
<1>2. ASSUME Running', NEW c \in Queued(session'), c.op = "receive"
      PROVE  c.data # <<>> /\ \E position \in Nat : Run(c.data, position)
  BY <1>2 DEF FirstInv
<1>3. ASSUME Running', session'.configuration.verify # "NONE", "wrong" \in strange'
      PROVE  \E c \in Queued(session') :
                c.op = "receive" /\ "wrong" \in oddities(session', c.data)
  <2>1. PICK c \in Queued(session) :
            c.op = "receive" /\ "wrong" \in oddities(session, c.data)
    BY <1>3 DEF FirstInv
  <2> QED BY <1>1, <2>1
<1> QED BY <1>2, <1>3 DEF FirstInv

\* A run that has a wrong byte starts with one.
LEMMA WrongFromTheFirst ==
  ASSUME NEW expected \in Nat, NEW data, DOMAIN data = 1 .. Len(data), Len(data) \in Nat \ {0},
         NEW position \in Nat, Run(data, position),
         NEW i \in DOMAIN data, data[i] # Pattern(expected + i - 1)
  PROVE  1 \in DOMAIN data /\ data[1] # Pattern(expected)
<1>0. BYTE_VALUES \in Nat \ {0}
  BY BufferAssumption
<1>1. 1 \in DOMAIN data
  OBVIOUS
<1>2. data[1] = position % BYTE_VALUES
  <2>1. data[1] = Pattern(position + 1 - 1) /\ position + 1 - 1 = position
    BY <1>1 DEF Run
  <2> QED BY <2>1 DEF Pattern
<1>3. SUFFICES ASSUME data[1] = Pattern(expected) PROVE FALSE
  BY <1>1
<1>4. position % BYTE_VALUES = expected % BYTE_VALUES
  BY <1>2, <1>3 DEF Pattern
<1> DEFINE k == i - 1
<1>5. k \in Int /\ position \in Int /\ expected \in Int
      /\ position + i - 1 = position + k
      /\ expected + i - 1 = expected + k
  OBVIOUS
<1> HIDE DEF k
<1>6. (position + k) % BYTE_VALUES = (expected + k) % BYTE_VALUES
  <2>1. ((position % BYTE_VALUES) + k) % BYTE_VALUES = (position + k) % BYTE_VALUES
    BY <1>0, <1>5, ShiftedRemainder
  <2>2. ((expected % BYTE_VALUES) + k) % BYTE_VALUES = (expected + k) % BYTE_VALUES
    BY <1>0, <1>5, ShiftedRemainder
  <2> QED BY <1>4, <2>1, <2>2
<1>7. data[i] = Pattern(position + i - 1)
  BY DEF Run
<1> QED BY <1>5, <1>6, <1>7 DEF Pattern

\* So that both ways to verify find it.
LEMMA RunsVerified ==
  ASSUME NEW st \in SessionState, st.configuration.verify # "NONE",
         NEW data \in Seq(Nat), data # <<>>, NEW position \in Nat, Run(data, position),
         "wrong" \in oddities(st, data)
  PROVE  verify_datagram(st, data) = abort(st, "data_mismatch")
<1>1. /\ DOMAIN data = 1 .. Len(data) /\ Len(data) \in Nat \ {0}
      /\ st.received \in Nat
      /\ st.configuration.verify \in {"FIRST", "ALL"}
  BY DEF SessionState, SessionConfiguration, Verify
<1>2. PICK i \in DOMAIN data : data[i] # Pattern(st.received + i - 1)
  BY DEF oddities
<1>3. 1 \in DOMAIN data /\ data[1] # Pattern(st.received)
  BY <1>1, <1>2, WrongFromTheFirst
<1>4. 1 \in Checked(st, data)
  BY <1>1 DEF Checked
<1>5. data[1] # Pattern(st.received + 1 - 1)
  <2>1. st.received + 1 - 1 = st.received
    BY <1>1
  <2> QED BY <1>3, <2>1
<1>6. verify_datagram(st, data) = verify(st, data)
  BY DEF verify_datagram
<1> QED BY <1>4, <1>5, <1>6 DEF verify

\* A handler.
LEMMA FirstHandle ==
  ASSUME ControlInv, ControlInv', HandInv, FirstInv, Handle
  PROVE  FirstInv'
<1> DEFINE c == Head(session.ready)
           d == dispatch(session)
           v == verify_datagram(d, c.data)
<1>1. /\ Running /\ c \in Queued(session) /\ c.data \in Seq(Nat)
      /\ session'.configuration = session.configuration
      /\ session'.received = IF c.op = "receive" THEN session.received + Len(c.data)
                             ELSE session.received
      /\ \A e : e.op \in {"receive", "send"} =>
            (e \in Queued(session') <=> e \in Queued(session) \ {c})
      /\ strange' = strange
  BY HandlerCounts DEF HandInv
<1>2. /\ HandleReceive => c.op = "receive"
      /\ ~HandleReceive => c.op # "receive"
  BY DEF Handle, HandleStart, HandleReceiveThrottle, HandleReceive, HandleSendThrottle,
         HandleSend, HandleTimeout, HandleSignal, Dispatches
<1>3. CASE ~HandleReceive
  <2>1. \A e : e.op = "receive" => (e \in Queued(session') <=> e \in Queued(session))
    BY <1>1, <1>2, <1>3
  <2>2. Running' => Running
    BY <1>1
  <2> QED BY <1>1, <1>2, <1>3, <2>1, <2>2, FirstFrame
<1>4. CASE HandleReceive
  <2>1. /\ d \in SessionState /\ SameData(d, session) /\ session.ready # <<>>
        /\ c.op = "receive" /\ v \in SessionState
        /\ Quiet(session', received(v, c.data))
        /\ received(v, c.data).exit_requested = v.exit_requested
    BY <1>1, <1>4, ReceiveQuiet, DispatchDatagram
  <2> HIDE DEF c, d, v
  <2>2. \A e \in Queued(session') : e.op # "receive"
    BY <1>1, <2>1, OneReceive
  <2>3. ASSUME session.configuration.verify # "NONE", "wrong" \in strange
        PROVE  ~Running'
    <3>1. PICK e \in Queued(session) :
              e.op = "receive" /\ "wrong" \in oddities(session, e.data)
      BY <1>1, <2>3 DEF FirstInv
    <3>2. e = c
      BY <1>1, <2>1, <3>1, OneReceive
    <3>3. c.data # <<>> /\ \E position \in Nat : Run(c.data, position)
      BY <1>1, <2>1 DEF FirstInv
    <3>4. "wrong" \in oddities(d, c.data) /\ d.configuration.verify # "NONE"
      BY <2>1, <2>3, <3>1, <3>2 DEF oddities, SameData
    <3>5. v = abort(d, "data_mismatch")
      BY <1>1, <2>1, <3>3, <3>4, RunsVerified DEF v
    <3>6. abort(d, "data_mismatch").exit_requested
      BY <2>1 DEF abort, SessionState
    <3>7. v.exit_requested
      BY <3>5, <3>6
    <3> QED BY <2>1, <3>7 DEF Quiet, Running
  <2> QED BY <1>1, <2>2, <2>3 DEF FirstInv
<1> QED BY <1>3, <1>4

\* A datagram is received.
LEMMA FirstReceives ==
  ASSUME ControlInv, HandInv, FirstInv, Runs(arrived), ReceivesDatagram
  PROVE  FirstInv'
<1> DEFINE datagram == Head(arrived)
           n == Least(receive_size, Len(datagram))
           taken == SubSeq(datagram, 1, n)
           e == done("receive", "success", taken)
<1>1. /\ Running /\ "receive" \in session.waiting /\ arrived # <<>>
      /\ session' = complete(session, e)
      /\ strange' = strange \cup oddities(session, taken)
      /\ datagram \in Seq(Byte) /\ Len(datagram) \in Nat
      /\ n \in 0 .. Len(datagram)
      /\ datagram # <<>> => n # 0
      /\ taken \in Seq(Nat) /\ Len(taken) = n
      /\ \A i \in 1 .. n : taken[i] = datagram[i]
  BY ReceivesTaken DEF HandInv
<1>2. datagram # <<>> /\ \E position \in Nat : Run(datagram, position)
  <2>1. 1 \in DOMAIN arrived /\ datagram = arrived[1]
    BY <1>1 DEF ControlInv, TypeOK
  <2> QED BY <2>1 DEF Runs
<1> HIDE DEF datagram, n, taken
<1>3. taken # <<>> /\ \E position \in Nat : Run(taken, position)
  <2>1. n \in Nat \ {0} /\ n <= Len(datagram) /\ Len(datagram) \in Nat
    BY <1>1, <1>2
  <2>2. taken # <<>>
    BY <1>1, <2>1
  <2>3. DOMAIN taken = 1 .. n /\ DOMAIN datagram = 1 .. Len(datagram)
    BY <1>1
  <2>4. \A i \in 1 .. n : i \in DOMAIN datagram
    BY <2>1, <2>3
  <2>5. PICK position \in Nat : Run(datagram, position)
    BY <1>2
  <2>6. Run(taken, position)
    BY <1>1, <2>3, <2>4, <2>5 DEF Run
  <2> QED BY <2>2, <2>6
<1>4. e.op = "receive" /\ e.data = taken
  BY DEF done
<1>5. /\ Queued(session') = Queued(session) \cup {e}
      /\ SameData(session', session)
      /\ \A c \in Queued(session) : c.op # "receive"
  <2>1. "success" \in ErrorCode /\ SliceInv(session)
    BY DEF ErrorCode, Error, HandInv
  <2> QED BY <1>1, <2>1, CompletionReaches DEF e
<1> HIDE DEF e
<1>6. \A data : oddities(session', data) = oddities(session, data)
  BY <1>5 DEF oddities, SameData
<1>7. "empty" \notin oddities(session, taken)
  BY <1>3 DEF oddities
<1>8. session.configuration.verify # "NONE" => "wrong" \notin strange
  BY <1>1, <1>5 DEF FirstInv
<1>9. session'.configuration = session.configuration
  BY <1>5 DEF SameData
<1>10. "empty" \notin strange'
  BY <1>1, <1>7 DEF FirstInv
<1>11. \A c \in Queued(session') : c.op = "receive" => c = e
  BY <1>5
<1>12. (session'.configuration.verify # "NONE" /\ "wrong" \in strange') =>
            "wrong" \in oddities(session', e.data)
  BY <1>1, <1>4, <1>6, <1>8, <1>9
<1>13. e \in Queued(session')
  BY <1>5
<1> QED BY <1>3, <1>4, <1>10, <1>11, <1>12, <1>13 DEF FirstInv

\* Another completion, and what arrives.
LEMMA FirstOthers ==
  ASSUME ControlInv, HandInv, FirstInv,
         \/ SendsDatagram
         \/ \E op \in {"receive_throttle", "send_throttle", "timeout"} : TimerExpires(op)
         \/ UNCHANGED <<session, strange>>
  PROVE  FirstInv'
<1>0. "success" \in ErrorCode /\ SliceInv(session) /\ <<>> \in Seq(Nat)
      /\ session \in SessionState
  BY DEF ErrorCode, Error, HandInv, ControlInv, TypeOK
<1>1. CASE UNCHANGED <<session, strange>>
  BY <1>1, FirstFrame DEF Running, Queued
<1>2. ASSUME NEW op \in session.waiting, op # "receive", NEW data \in Seq(Nat),
             session' = complete(session, done(op, "success", data)), strange' = strange
      PROVE  FirstInv'
  <2>1. /\ Queued(session') = Queued(session) \cup {done(op, "success", data)}
        /\ SameData(session', session)
    BY <1>0, <1>2, CompletionReaches
  <2>2. done(op, "success", data).op # "receive"
    BY <1>2 DEF done
  <2>3. session'.exit_requested = session.exit_requested
    BY <1>0, <1>2 DEF complete, SessionState
  <2> QED BY <1>2, <2>1, <2>2, <2>3, FirstFrame DEF SameData, Running
<1>3. CASE SendsDatagram
  BY <1>0, <1>2, <1>3, SendsPut
<1>4. CASE \E op \in {"receive_throttle", "send_throttle", "timeout"} : TimerExpires(op)
  BY <1>0, <1>2, <1>4 DEF TimerExpires, Waits
<1> QED BY <1>1, <1>3, <1>4

\* A session that verifies datagrams of testers reports wrong bytes, and nothing else,
\* whether it verifies the first byte or all of them.
LEMMA FirstFinds ==
  ASSUME DatagramInv, FirstInv
  PROVE  session.configuration.verify # "NONE" =>
            /\ session.failure = "data_mismatch" => "wrong" \in strange
            /\ ("wrong" \in strange /\ ~session.exit_requested) =>
                    \E c \in Queued(session) : c.op = "receive"
BY DEF DatagramInv, VerificationExact, FirstInv, Running

\* The session has received nothing yet.
LEMMA FirstInit == Init => FirstInv
<1> SUFFICES ASSUME Init PROVE FirstInv
  OBVIOUS
<1>1. PICK k \in Configurations : session = initialize(k)
  BY DEF Init
<1>2. session.ready = <<done("start", "success", <<>>)>>
  BY <1>1 DEF initialize, post, new
<1>3. \A c \in Queued(session) : c.op # "receive"
  BY <1>2 DEF Queued, done
<1> QED BY <1>3 DEF Init, FirstInv

-----------------------------------------------------------------------------
(* A session as the other end of its test sees it.                         *)

\* What is known of a session, whatever arrives.
SessionInv == ControlInv /\ DatagramInv /\ HandInv

\* A session that was just created,
LEMMA SessionInit == Init => SessionInv
BY InitControl, DatagramInit, HandInit DEF SessionInv

\* and after each step.
LEMMA SessionStep ==
  ASSUME SessionInv, [Next]_vars
  PROVE  SessionInv'
<1>1. ControlInv'
  BY ControlStep DEF SessionInv
<1> QED BY <1>1, DatagramStep, HandStep DEF SessionInv

\* What the network does to the datagrams that it sent does not matter to it.
LEMMA SessionSent ==
  ASSUME SessionInv, UNCHANGED <<session, arrived, head, strange>>,
         outgoing' \in Seq(Seq(Byte))
  PROVE  SessionInv' /\ (FirstInv => FirstInv')
<1>1. session' = session /\ arrived' = arrived /\ head' = head /\ strange' = strange
  OBVIOUS
<1>2. ControlInv'
  BY <1>1 DEF SessionInv, ControlInv, TypeOK
<1>3. DatagramInv'
  BY <1>1 DEF SessionInv, DatagramInv, VerificationExact, Running
<1>4. HandInv'
  BY <1>1 DEF SessionInv, HandInv, ResultInv
<1>5. FirstInv => FirstInv'
  BY <1>1 DEF FirstInv, Running
<1> QED BY <1>2, <1>3, <1>4, <1>5 DEF SessionInv

\* A session is at the beginning of both directions when it is created.
LEMMA StartsAtZero ==
  ASSUME Init
  PROVE  Reached(session) = 0 /\ Passed(session) = 0
<1>1. PICK k \in Configurations : session = initialize(k)
  BY DEF Init
<1>2. /\ session.ready = <<done("start", "success", <<>>)>>
      /\ session.received = 0 /\ session.sent = 0
  BY <1>1 DEF initialize, post, new
<1>3. \A c \in Queued(session) : c.op # "receive" /\ c.op # "send"
  BY <1>2 DEF Queued, done
<1> QED BY <1>2, <1>3, HeldNone DEF Reached, Passed

\* It never sends more than its size.
LEMMA PassesAtMostSize ==
  ASSUME ControlInv
  PROVE  Passed(session) <= session.configuration.size
<1>1. /\ session \in SessionState /\ QueueInv(session) /\ SizeInv(session)
      /\ session.sent \in Nat /\ session.send_slice \in Nat
      /\ session.configuration.size \in Nat
  BY DEF ControlInv, CoreInv, SessionState, SessionConfiguration
<1>2. CASE \E c \in Queued(session) : c.op = "send"
  <2>1. PICK c \in Queued(session) : c.op = "send"
    BY <1>2
  <2>2. Held(session, "send") = Len(c.data) /\ Len(c.data) <= session.send_slice
    BY <1>1, <2>1, HeldOne DEF SizeInv
  <2>3. session.sent + session.send_slice <= session.configuration.size
    BY <1>1, <2>1 DEF SizeInv, Outstanding
  <2>4. Held(session, "send") \in Nat
    BY <1>1, HeldType
  <2> QED BY <1>1, <2>2, <2>3, <2>4 DEF Passed
<1>3. CASE \A c \in Queued(session) : c.op # "send"
  <2>1. Held(session, "send") = 0
    BY <1>3, HeldNone
  <2> QED BY <1>1, <2>1 DEF Passed, SizeInv
<1> QED BY <1>2, <1>3

\* A session that succeeds has received its size, and nothing waits for a handler.
LEMMA SuccessReaches ==
  ASSUME ControlInv, stopped(session), ~session.exit_requested,
         session.configuration.direction # "TX"
  PROVE  /\ session.configuration.size <= session.received
         /\ Reached(session) = session.received
<1>1. Queued(session) = {} /\ Outstanding(session) = {}
  BY DEF stopped, Queued, Outstanding
<1>2. session.is_receive_complete
  BY <1>1 DEF ControlInv, ProgressInv, Free
<1>3. /\ session.received \in Nat /\ session.configuration.size \in Nat
  BY DEF ControlInv, CoreInv, SessionState, SessionConfiguration
<1>4. session.configuration.size <= session.received
  BY <1>2, <1>3 DEF ControlInv, CoreInv, SizeInv
<1>5. Held(session, "receive") = 0
  BY <1>1, HeldNone
<1> QED BY <1>3, <1>4, <1>5 DEF Reached
=============================================================================
