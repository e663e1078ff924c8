-------------------------- MODULE TcpSessionProofs ---------------------------
(***************************************************************************)
(* A TCP session, proved for every set of configurations, every size of    *)
(* the buffers and every behaviour of the peer.                            *)
(*                                                                         *)
(* 1. The control.  The invariant ControlInv speaks of a session record,   *)
(*    and each method of the C++ class has a lemma that says how it keeps  *)
(*    it.  The lemmas follow the calls: asio's operations (Base), then the *)
(*    methods that start or finish a direction (Core), then the handlers   *)
(*    and the actions (Control).                                           *)
(* 2. The bytes.  DataInv says where in the two streams everything is:     *)
(*    nothing is lost between two receives, verification is exact, and     *)
(*    what is sent is one pattern.                                         *)
(* 3. The promise.  TcpSession implements SessionOutcome: each step maps   *)
(*    to one of the promise or leaves the outcome as it is.                *)
(* 4. The policy.  PolicyInv says when the sending side is shut down.      *)
(* 5. What the peer of a session can tell of each of its steps, for the    *)
(*    proofs about the two ends of one connection.                         *)
(***************************************************************************)
EXTENDS TcpSession, SessionProofs


-----------------------------------------------------------------------------
(* 1. The control.                                                         *)

\* What is said of the queue and of the lanes of the operations in it.
Base(st) ==
    /\ st \in SessionState
    /\ QueueInv(st)
    /\ StartInv(st)
    /\ LaneInv(st)
    /\ MemoryInv(st)

\* A change of the other fields keeps what is said of the queue.
LEMMA FrameBase ==
  ASSUME NEW a, NEW b, Base(a), b \in SessionState, SameQueue(a, b)
  PROVE  Base(b) /\ Outstanding(b) = Outstanding(a) /\ Queued(b) = Queued(a)
<1>1. Outstanding(b) = Outstanding(a) /\ Queued(b) = Queued(a)
  BY DEF SameQueue, Outstanding, Queued
<1> QED BY <1>1 DEF Base, SameQueue, QueueInv, StartInv, LaneInv, MemoryInv

\* Two operations that would share a HandlerMemory share the receiving lane.
LEMMA ClashOfLane ==
  ASSUME NEW a \in Operation, NEW b \in Operation, Clash(a, b), a # b
  PROVE  {a, b} \subseteq ReceiveLane
BY DEF Clash, uses, MemoryOf, ThrottleOps, HandlerMemory, ReceiveLane

\* Initiating an operation whose lane is free.
LEMMA BeginBase ==
  ASSUME NEW st, Base(st), NEW op \in Operation \ {"start"},
         op \notin Outstanding(st),
         op \in ReceiveLane => Free(st, ReceiveLane),
         op \in SendLane => Free(st, SendLane),
         op = "timeout" => "start" \notin Outstanding(st)
  PROVE  /\ Base(begin(st, op))
         /\ Outstanding(begin(st, op)) = Outstanding(st) \cup {op}
         /\ Queued(begin(st, op)) = Queued(st)
         /\ begin(st, op).socket = st.socket
         /\ SameData(begin(st, op), st)
         /\ SameOutcome(begin(st, op), st)
<1> DEFINE b == begin(st, op)
<1>1. Consistent(st) /\ Outstanding(st) \subseteq Operation
  BY OutstandingType DEF Base, Consistent
<1>2. \A o \in Outstanding(st) : ~Clash(o, op)
  BY <1>1, ClashOfLane DEF Free
<1>3. /\ Consistent(b)
      /\ b.waiting = st.waiting \cup {op} /\ b.ready = st.ready
      /\ Outstanding(b) = Outstanding(st) \cup {op}
      /\ Queued(b) = Queued(st)
      /\ b.socket = st.socket
      /\ SameData(b, st) /\ SameOutcome(b, st)
  BY <1>1, <1>2, BeginConsistent
<1> HIDE DEF b
<1>4. StartInv(b)
  BY <1>3 DEF Base, StartInv
<1>5. LaneInv(b)
  BY <1>3 DEF Base, LaneInv, Free
<1> QED BY <1>3, <1>4, <1>5 DEF Base, Consistent, b

\* A completion moves its operation from waiting to the end of the queue.
LEMMA CompleteBase ==
  ASSUME NEW st, Base(st), NEW c \in Completion, c.op \in st.waiting
  PROVE  /\ Base(complete(st, c))
         /\ Outstanding(complete(st, c)) = Outstanding(st)
         /\ Queued(complete(st, c)) = Queued(st) \cup {c}
         /\ complete(st, c).waiting = st.waiting \ {c.op}
         /\ complete(st, c).socket = st.socket
         /\ SameData(complete(st, c), st)
         /\ SameOutcome(complete(st, c), st)
<1> DEFINE b == complete(st, c)
<1>1. /\ Consistent(b)
      /\ Outstanding(b) = Outstanding(st)
      /\ Queued(b) = Queued(st) \cup {c}
      /\ b.waiting = st.waiting \ {c.op} /\ b.ready = Append(st.ready, c)
      /\ b.socket = st.socket
      /\ SameData(b, st) /\ SameOutcome(b, st)
  BY CompleteConsistent DEF Base, Consistent
<1> HIDE DEF b
<1>2. /\ Len(st.ready) \in Nat
      /\ DOMAIN st.ready = 1 .. Len(st.ready)
      /\ DOMAIN b.ready = 1 .. Len(st.ready) + 1
      /\ b.ready[Len(st.ready) + 1] = c
      /\ \A i \in DOMAIN st.ready : b.ready[i] = st.ready[i]
  BY <1>1 DEF Base, SessionState
<1>3. StartInv(b)
  <2>1. c.op # "start" /\ "start" \notin b.waiting
    BY <1>1 DEF Base, StartInv
  <2>2. ASSUME NEW i \in DOMAIN b.ready, NEW j \in DOMAIN b.ready,
               b.ready[i].op = "start", j < i
        PROVE  b.ready[j].op = "connect"
    <3>1. i \in DOMAIN st.ready /\ j \in DOMAIN st.ready
      BY <1>2, <2>1, <2>2
    <3> QED BY <1>2, <2>2, <3>1 DEF Base, StartInv
  <2>3. "start" \in Outstanding(b) => "timeout" \notin Outstanding(b)
    BY <1>1 DEF Base, StartInv
  <2> QED BY <2>1, <2>2, <2>3 DEF StartInv
<1>4. LaneInv(b)
  BY <1>1 DEF Base, LaneInv
<1> QED BY <1>1, <1>3, <1>4 DEF Base, Consistent, b

\* Dequeuing the next handler ends its operation; only the connection is ever handled
\* before the timer is started.
LEMMA DispatchBase ==
  ASSUME NEW st, Base(st), st.ready # <<>>
  PROVE  LET c == Head(st.ready)
         IN  /\ Base(dispatch(st))
             /\ c \in Completion
             /\ c \in Queued(st)
             /\ c.op \in Outstanding(st)
             /\ Outstanding(dispatch(st)) = Outstanding(st) \ {c.op}
             /\ Queued(dispatch(st)) = Queued(st) \ {c}
             /\ dispatch(st).waiting = st.waiting
             /\ dispatch(st).socket = st.socket
             /\ SameData(dispatch(st), st)
             /\ SameOutcome(dispatch(st), st)
             /\ "start" \in Outstanding(dispatch(st)) => c.op = "connect"
<1> DEFINE b == dispatch(st)
           c == Head(st.ready)
<1>1. Consistent(st) /\ Outstanding(st) \subseteq Operation
  BY OutstandingType DEF Base, Consistent
<1>2. c \in Queued(st) /\ c.op \in Outstanding(st)
  <2>1. st.ready \in Seq(Completion)
    BY DEF Base, SessionState
  <2>2. 1 \in DOMAIN st.ready /\ c = st.ready[1]
    BY <2>1
  <2> QED BY <2>2 DEF Queued, Outstanding
<1> HIDE DEF c
<1>3. \A o \in Outstanding(st) \ {c.op} : ~Clash(o, c.op)
  BY <1>1, <1>2, ClashOfLane DEF Base, LaneInv
<1>4. /\ Consistent(b)
      /\ c \in Completion
      /\ Outstanding(b) = Outstanding(st) \ {c.op}
      /\ Queued(b) = Queued(st) \ {c}
      /\ b.waiting = st.waiting /\ b.ready = Tail(st.ready)
      /\ b.socket = st.socket
      /\ SameData(b, st) /\ SameOutcome(b, st)
  BY <1>1, <1>3, DispatchConsistent DEF c
<1> HIDE DEF b
<1>5. /\ Len(st.ready) \in Nat \ {0}
      /\ DOMAIN st.ready = 1 .. Len(st.ready)
      /\ c = st.ready[1]
      /\ DOMAIN b.ready = 1 .. Len(st.ready) - 1
      /\ \A i \in DOMAIN b.ready : b.ready[i] = st.ready[i + 1]
  BY <1>4 DEF Base, SessionState, c
<1>6. /\ 1 \in DOMAIN st.ready
      /\ \A i \in DOMAIN b.ready : i + 1 \in DOMAIN st.ready
  BY <1>5
<1>7. StartInv(b)
  <2>1. ASSUME NEW i \in DOMAIN b.ready, NEW j \in DOMAIN b.ready,
               b.ready[i].op = "start", j < i
        PROVE  b.ready[j].op = "connect"
    <3>1. i + 1 \in DOMAIN st.ready /\ j + 1 \in DOMAIN st.ready /\ j + 1 < i + 1
      BY <1>5, <2>1
    <3> QED BY <1>5, <2>1, <3>1 DEF Base, StartInv
  <2> QED BY <1>4, <2>1 DEF Base, StartInv
<1>8. LaneInv(b)
  BY <1>4 DEF Base, LaneInv
<1>9. "start" \in Outstanding(b) => c.op = "connect"
  <2> SUFFICES ASSUME "start" \in Outstanding(b) PROVE c.op = "connect"
    OBVIOUS
  <2>1. PICK i \in DOMAIN b.ready : b.ready[i].op = "start"
    BY <1>4 DEF Base, StartInv, Outstanding, Queued
  <2>2. i + 1 \in DOMAIN st.ready /\ st.ready[i + 1].op = "start" /\ 1 < i + 1
    BY <1>5, <1>6, <2>1
  <2>3. st.ready[1].op = "connect"
    BY <1>6, <2>2 DEF Base, StartInv
  <2> QED BY <1>5, <2>3
<1> QED BY <1>2, <1>4, <1>7, <1>8, <1>9 DEF Base, Consistent, b, c

\* The part of the core invariant about the queue.
LEMMA CoreBase ==
  ASSUME NEW st, CoreInv(st)
  PROVE  Base(st)
BY DEF CoreInv, Base

\* What the core invariant says of the fields outside the queue.
Rest(st) ==
    AbortedInv(st) /\ CompleteInv(st) /\ ReceiveSizeInv(st) /\ SendSizeInv(st)

\* The core invariant in two parts.
LEMMA CoreSplit ==
  ASSUME NEW st
  PROVE  CoreInv(st) <=> Base(st) /\ Rest(st)
BY DEF CoreInv, Base, Rest

\* Session::abort keeps the core invariant and requests the exit.
LEMMA AbortCore ==
  ASSUME NEW st, CoreInv(st), NEW f \in Reported
  PROVE  /\ CoreInv(abort(st, f))
         /\ abort(st, f).exit_requested /\ abort(st, f).failure = f
         /\ abort(st, f).socket = st.socket
         /\ abort(st, f).is_receive_complete = st.is_receive_complete
         /\ abort(st, f).is_send_complete = st.is_send_complete
         /\ Outstanding(abort(st, f)) = Outstanding(st)
         /\ SameData(abort(st, f), st)
<1> DEFINE b == abort(st, f)
<1>1. st \in SessionState
  BY DEF CoreInv
<1>2. /\ b \in SessionState
      /\ SameQueue(st, b) /\ SameData(b, st) /\ b.socket = st.socket
      /\ b.is_receive_complete = st.is_receive_complete
      /\ b.is_send_complete = st.is_send_complete
      /\ b.failure = f /\ b.exit_requested
  BY <1>1 DEF Reported, abort, SessionState, SameQueue, SameData
<1> HIDE DEF b
<1>3. Base(b) /\ Outstanding(b) = Outstanding(st) /\ Queued(b) = Queued(st)
  BY <1>2, CoreBase, FrameBase
<1>4. Rest(b)
  BY <1>2, <1>3 DEF Reported, CoreInv, Rest, AbortedInv, CompleteInv, ReceiveSizeInv,
                    SendSizeInv, SameData, SameQueue, Free
<1> QED BY <1>2, <1>3, <1>4, CoreSplit DEF b

\* TcpSocket::shutdown_send only changes the state of the socket, and not to closed.
LEMMA ShutdownSendCore ==
  ASSUME NEW st, CoreInv(st)
  PROVE  /\ CoreInv(shutdown_send(st))
         /\ Outstanding(shutdown_send(st)) = Outstanding(st)
         /\ Queued(shutdown_send(st)) = Queued(st)
         /\ SameData(shutdown_send(st), st)
         /\ SameOutcome(shutdown_send(st), st)
<1> DEFINE b == shutdown_send(st)
<1>1. st \in SessionState
  BY DEF CoreInv
<1>2. /\ b \in SessionState
      /\ SameQueue(st, b) /\ SameData(b, st) /\ SameOutcome(b, st)
      /\ b.socket = "closed" <=> st.socket = "closed"
  BY <1>1 DEF shutdown_send, SessionState, SameQueue, SameData, SameOutcome
<1> HIDE DEF b
<1>3. Base(b) /\ Outstanding(b) = Outstanding(st) /\ Queued(b) = Queued(st)
  BY <1>2, CoreBase, FrameBase
<1>4. Rest(b)
  BY <1>2, <1>3 DEF CoreInv, Rest, AbortedInv, CompleteInv, ReceiveSizeInv,
                    SendSizeInv, SameData, SameQueue, SameOutcome, Free
<1> QED BY <1>2, <1>3, <1>4, CoreSplit DEF b

\* The receiving direction goes on with an operation of its lane.
LEMMA BeginReceiveCore ==
  ASSUME NEW st, CoreInv(st), Free(st, ReceiveLane), ~st.is_receive_complete,
         NEW op \in {"receive", "receive_throttle", "eof"},
         op = "eof" => \/ st.configuration.direction = "TX"
                       \/ st.received >= st.configuration.size
  PROVE  /\ CoreInv(begin(st, op))
         /\ Outstanding(begin(st, op)) = Outstanding(st) \cup {op}
         /\ SameData(begin(st, op), st)
         /\ SameOutcome(begin(st, op), st)
<1> DEFINE b == begin(st, op)
<1>1. /\ op \in Operation \ {"start"} /\ op \in ReceiveLane /\ op \notin SendLane
      /\ op # "timeout" /\ op # "send"
  BY DEF Operation, SocketOps, ThrottleOps, ReceiveLane, SendLane
<1>2. op \notin Outstanding(st)
  BY <1>1 DEF Free
<1>3. /\ Base(b)
      /\ Outstanding(b) = Outstanding(st) \cup {op}
      /\ Queued(b) = Queued(st)
      /\ b.socket = st.socket
      /\ SameData(b, st) /\ SameOutcome(b, st)
  BY <1>1, <1>2, CoreBase, BeginBase
<1> HIDE DEF b
<1>4. AbortedInv(b)
  BY <1>3 DEF CoreInv, AbortedInv, SameOutcome
<1>5. CompleteInv(b)
  BY <1>1, <1>3 DEF CoreInv, CompleteInv, SameOutcome, Free
<1>6. ReceiveSizeInv(b)
  BY <1>1, <1>3 DEF CoreInv, ReceiveSizeInv, SameOutcome, SameData
<1>7. SendSizeInv(b)
  BY <1>1, <1>3 DEF CoreInv, SendSizeInv, SameOutcome, SameData
<1> QED BY <1>3, <1>4, <1>5, <1>6, <1>7, CoreSplit DEF Rest, b

\* The sending direction goes on with an operation of its lane.
LEMMA BeginSendCore ==
  ASSUME NEW st, CoreInv(st), Free(st, SendLane), ~st.is_send_complete,
         NEW op \in {"send", "send_throttle"},
         op = "send" => st.sent + st.send_slice <= st.configuration.size
  PROVE  /\ CoreInv(begin(st, op))
         /\ Outstanding(begin(st, op)) = Outstanding(st) \cup {op}
         /\ SameData(begin(st, op), st)
         /\ SameOutcome(begin(st, op), st)
<1> DEFINE b == begin(st, op)
<1>1. /\ op \in Operation \ {"start"} /\ op \in SendLane /\ op \notin ReceiveLane
      /\ op # "timeout" /\ op # "eof"
  BY DEF Operation, SocketOps, ThrottleOps, ReceiveLane, SendLane
<1>2. op \notin Outstanding(st)
  BY <1>1 DEF Free
<1>3. /\ Base(b)
      /\ Outstanding(b) = Outstanding(st) \cup {op}
      /\ Queued(b) = Queued(st)
      /\ b.socket = st.socket
      /\ SameData(b, st) /\ SameOutcome(b, st)
  BY <1>1, <1>2, CoreBase, BeginBase
<1> HIDE DEF b
<1>4. AbortedInv(b)
  BY <1>3 DEF CoreInv, AbortedInv, SameOutcome
<1>5. CompleteInv(b)
  BY <1>1, <1>3 DEF CoreInv, CompleteInv, SameOutcome, Free
<1>6. ReceiveSizeInv(b)
  BY <1>1, <1>3 DEF CoreInv, ReceiveSizeInv, SameOutcome, SameData
<1>7. SendSizeInv(b)
  BY <1>1, <1>3 DEF CoreInv, SendSizeInv, SameOutcome, SameData
<1> QED BY <1>3, <1>4, <1>5, <1>6, <1>7, CoreSplit DEF Rest, b

\* The counters and the outcome of a session, which starting an operation of a
\* lane leaves alone.
SameCounts(a, b) ==
    /\ a.configuration = b.configuration
    /\ a.received = b.received
    /\ a.sent = b.sent
    /\ SameOutcome(a, b)

\* TcpSession::async_receive, with or without bytes left in the slice.
LEMMA AsyncReceiveCore ==
  ASSUME NEW st, CoreInv(st), Free(st, ReceiveLane), ~st.is_receive_complete,
         NEW n \in Nat
  PROVE  /\ CoreInv(async_receive(st, n))
         /\ \E op \in ReceiveLane \ SendLane :
                Outstanding(async_receive(st, n)) = Outstanding(st) \cup {op}
         /\ SameCounts(async_receive(st, n), st)
<1> DEFINE s == [st EXCEPT !.receive_slice = n]
<1>1. st \in SessionState
  BY DEF CoreInv
<1>2. /\ s \in SessionState
      /\ SameQueue(st, s) /\ SameCounts(s, st)
      /\ s.socket = st.socket /\ s.send_slice = st.send_slice
  BY <1>1 DEF SessionState, SameQueue, SameCounts, SameOutcome
<1> HIDE DEF s
<1>3. Base(s) /\ Outstanding(s) = Outstanding(st) /\ Queued(s) = Queued(st)
  BY <1>2, CoreBase, FrameBase
<1>4. "receive" \notin Outstanding(st)
  BY DEF Free, ReceiveLane
<1>5. \A c \in Queued(s) : c.op # "receive"
  BY <1>3, <1>4 DEF Outstanding
<1>6. Rest(s)
  BY <1>2, <1>3, <1>5 DEF CoreInv, Rest, AbortedInv, CompleteInv, ReceiveSizeInv,
        SendSizeInv, SameCounts, SameOutcome, SameQueue, Free
<1>7. CoreInv(s) /\ Free(s, ReceiveLane) /\ ~s.is_receive_complete
  BY <1>2, <1>3, <1>6, CoreSplit DEF Free, SameCounts, SameOutcome
<1>8. "receive" \in ReceiveLane \ SendLane /\ "receive_throttle" \in ReceiveLane \ SendLane
  BY DEF ReceiveLane, SendLane
<1>9. CASE n = 0
  <2>1. async_receive(st, n) = begin(st, "receive_throttle")
    BY <1>9 DEF async_receive
  <2> QED BY <1>8, <2>1, BeginReceiveCore DEF SameCounts, SameData
<1>10. CASE n # 0
  <2>1. async_receive(st, n) = begin(s, "receive")
    BY <1>10 DEF async_receive, s
  <2>2. /\ CoreInv(begin(s, "receive"))
        /\ Outstanding(begin(s, "receive")) = Outstanding(s) \cup {"receive"}
        /\ SameData(begin(s, "receive"), s)
        /\ SameOutcome(begin(s, "receive"), s)
    BY <1>7, BeginReceiveCore
  <2> QED BY <1>2, <1>3, <1>8, <2>1, <2>2 DEF SameCounts, SameData, SameOutcome
<1> QED BY <1>9, <1>10

\* TcpSession::async_send, with or without bytes left in the slice: what it starts
\* to send never exceeds what is left of the size.
LEMMA AsyncSendCore ==
  ASSUME NEW st, CoreInv(st), Free(st, SendLane), ~st.is_send_complete,
         NEW n \in Nat
  PROVE  /\ CoreInv(async_send(st, n))
         /\ \E op \in SendLane \ ReceiveLane :
                Outstanding(async_send(st, n)) = Outstanding(st) \cup {op}
         /\ SameCounts(async_send(st, n), st)
<1> DEFINE size == Least(n, st.configuration.size - st.sent)
           s == [st EXCEPT !.send_slice = size]
<1>1. st \in SessionState
  BY DEF CoreInv
<1>2. size \in Nat /\ st.sent + size <= st.configuration.size
  BY <1>1 DEF Least, SessionState, SessionConfiguration, CoreInv, SendSizeInv
<1> HIDE DEF size
<1>3. /\ s \in SessionState
      /\ SameQueue(st, s) /\ SameCounts(s, st)
      /\ s.socket = st.socket /\ s.receive_slice = st.receive_slice
      /\ s.send_slice = size
  BY <1>1, <1>2 DEF SessionState, SameQueue, SameCounts, SameOutcome
<1> HIDE DEF s
<1>4. Base(s) /\ Outstanding(s) = Outstanding(st) /\ Queued(s) = Queued(st)
  BY <1>3, CoreBase, FrameBase
<1>5. "send" \notin Outstanding(st)
  BY DEF Free, SendLane
<1>6. \A c \in Queued(s) : c.op # "send"
  BY <1>4, <1>5 DEF Outstanding
<1>7. Rest(s)
  BY <1>3, <1>4, <1>5, <1>6 DEF CoreInv, Rest, AbortedInv, CompleteInv,
        ReceiveSizeInv, SendSizeInv, SameCounts, SameOutcome, SameQueue, Free
<1>8. CoreInv(s) /\ Free(s, SendLane) /\ ~s.is_send_complete
  BY <1>3, <1>4, <1>7, CoreSplit DEF Free, SameCounts, SameOutcome
<1>9. "send" \in SendLane \ ReceiveLane /\ "send_throttle" \in SendLane \ ReceiveLane
  BY DEF ReceiveLane, SendLane
<1>10. CASE n = 0
  <2>1. async_send(st, n) = begin(st, "send_throttle")
    BY <1>10 DEF async_send
  <2> QED BY <1>9, <2>1, BeginSendCore DEF SameCounts, SameData
<1>11. CASE n # 0
  <2>1. async_send(st, n) = begin(s, "send")
    BY <1>11 DEF async_send, s, size
  <2>2. s.sent + s.send_slice <= s.configuration.size
    BY <1>2, <1>3 DEF SameCounts
  <2>3. /\ CoreInv(begin(s, "send"))
        /\ Outstanding(begin(s, "send")) = Outstanding(s) \cup {"send"}
        /\ SameData(begin(s, "send"), s)
        /\ SameOutcome(begin(s, "send"), s)
    BY <1>8, <2>2, BeginSendCore
  <2> QED BY <1>3, <1>4, <1>9, <2>1, <2>3 DEF SameCounts, SameData, SameOutcome
<1> QED BY <1>10, <1>11

\* TcpSession::finish_receive goes on to wait for the end of the peer's stream.
LEMMA FinishReceiveCore ==
  ASSUME NEW st, CoreInv(st), Free(st, ReceiveLane), ~st.is_receive_complete,
         \/ st.configuration.direction = "TX"
         \/ st.received >= st.configuration.size
  PROVE  /\ CoreInv(finish_receive(st))
         /\ \E op \in ReceiveLane \ SendLane :
                Outstanding(finish_receive(st)) = Outstanding(st) \cup {op}
         /\ SameCounts(finish_receive(st), st)
<1> DEFINE s == IF st.configuration.shutdown_policy = "RECEIVE_COMPLETE"
                THEN shutdown_send(st) ELSE st
<1>1. CoreInv(s) /\ Outstanding(s) = Outstanding(st) /\ SameData(s, st) /\ SameOutcome(s, st)
  BY ShutdownSendCore DEF SameData, SameOutcome
<1>2. finish_receive(st) = begin(s, "eof")
  BY DEF finish_receive
<1> HIDE DEF s
<1>3. /\ Free(s, ReceiveLane) /\ ~s.is_receive_complete
      /\ \/ s.configuration.direction = "TX"
         \/ s.received >= s.configuration.size
  BY <1>1 DEF Free, SameData, SameOutcome
<1>4. /\ CoreInv(begin(s, "eof"))
      /\ Outstanding(begin(s, "eof")) = Outstanding(s) \cup {"eof"}
      /\ SameData(begin(s, "eof"), s)
      /\ SameOutcome(begin(s, "eof"), s)
  BY <1>1, <1>3, BeginReceiveCore
<1>5. "eof" \in ReceiveLane \ SendLane
  BY DEF ReceiveLane, SendLane
<1> QED BY <1>1, <1>2, <1>4, <1>5 DEF SameCounts, SameData, SameOutcome

\* Session::on_finish: nothing of the session's own is outstanding when it closes
\* the socket, so that only its signal and its timer are cancelled.
LEMMA OnFinishCore ==
  ASSUME NEW st, Base(st), AbortedInv(st), ReceiveSizeInv(st), SendSizeInv(st),
         Free(st, ReceiveLane), Free(st, SendLane), "start" \notin Outstanding(st),
         st.is_receive_complete, st.is_send_complete
  PROVE  /\ CoreInv(on_finish(st))
         /\ Outstanding(on_finish(st)) = Outstanding(st)
         /\ SameData(on_finish(st), st)
         /\ SameOutcome(on_finish(st), st)
<1> DEFINE f == on_finish(st)
<1>1. Outstanding(st) \subseteq {"signal", "timeout"}
  <2>1. Outstanding(st) \subseteq Operation
    BY OutstandingType DEF Base
  <2> QED BY <2>1 DEF Free, ReceiveLane, SendLane, Operation, SocketOps, ThrottleOps
<1>2. /\ Consistent(f) /\ f.socket = "closed" /\ f.waiting = {}
      /\ Outstanding(f) = Outstanding(st)
      /\ \A c \in Queued(f) : \/ c \in Queued(st)
                              \/ c = done("signal", "operation_aborted", <<>>)
                              \/ c = done("timeout", "operation_aborted", <<>>)
      /\ SameData(f, st) /\ SameOutcome(f, st)
  BY <1>1, OnFinishConsistent DEF Base, Consistent
<1> HIDE DEF f
<1>3. Base(f)
  <2>1. \A i \in DOMAIN f.ready : f.ready[i].op \in Outstanding(f)
    BY DEF Outstanding, Queued
  <2>2. StartInv(f)
    BY <1>2, <2>1 DEF StartInv
  <2>3. LaneInv(f)
    BY <1>2 DEF Base, LaneInv
  <2> QED BY <1>2, <2>2, <2>3 DEF Base, Consistent
<1>4. AbortedInv(f)
  BY <1>2 DEF AbortedInv, SameOutcome, done, ThrottleOps
<1>5. CompleteInv(f)
  BY <1>2 DEF CompleteInv, SameOutcome, Free
<1>6. ReceiveSizeInv(f)
  BY <1>2 DEF ReceiveSizeInv, SameData, SameOutcome, done
<1>7. SendSizeInv(f)
  BY <1>2 DEF SendSizeInv, SameData, SameOutcome, done
<1> QED BY <1>2, <1>3, <1>4, <1>5, <1>6, <1>7, CoreSplit DEF Rest, f

\* Session::on_receive_complete, which finishes when sending is complete.
LEMMA OnReceiveCompleteCore ==
  ASSUME NEW st, CoreInv(st), Free(st, ReceiveLane), ~st.is_receive_complete,
         "start" \notin Outstanding(st),
         \/ st.configuration.direction = "TX"
         \/ st.received >= st.configuration.size
  PROVE  /\ CoreInv(on_receive_complete(st))
         /\ on_receive_complete(st).is_receive_complete
         /\ on_receive_complete(st).is_send_complete = st.is_send_complete
         /\ on_receive_complete(st).failure = st.failure
         /\ on_receive_complete(st).exit_requested = st.exit_requested
         /\ SameData(on_receive_complete(st), st)
         /\ Outstanding(on_receive_complete(st)) = Outstanding(st)
<1> DEFINE s == [st EXCEPT !.is_receive_complete = TRUE]
<1>1. st \in SessionState
  BY DEF CoreInv
<1>2. /\ s \in SessionState /\ SameQueue(st, s) /\ SameData(s, st)
      /\ s.socket = st.socket /\ s.is_receive_complete
      /\ s.is_send_complete = st.is_send_complete
      /\ s.failure = st.failure /\ s.exit_requested = st.exit_requested
  BY <1>1 DEF SessionState, SameQueue, SameData
<1>3. on_receive_complete(st) = IF st.is_send_complete THEN on_finish(s) ELSE s
  BY DEF on_receive_complete
<1> HIDE DEF s
<1>4. Base(s) /\ Outstanding(s) = Outstanding(st) /\ Queued(s) = Queued(st)
  BY <1>2, CoreBase, FrameBase
<1>5. AbortedInv(s)
  BY <1>2, <1>4 DEF CoreInv, AbortedInv
<1>6. ReceiveSizeInv(s)
  BY <1>2, <1>4 DEF CoreInv, ReceiveSizeInv, SameData
<1>7. SendSizeInv(s)
  BY <1>2, <1>4 DEF CoreInv, SendSizeInv, SameData
<1>8. CASE st.is_send_complete
  <2>1. Free(s, ReceiveLane) /\ Free(s, SendLane) /\ "start" \notin Outstanding(s)
    BY <1>4, <1>8 DEF Free, CoreInv, CompleteInv
  <2>2. /\ CoreInv(on_finish(s)) /\ Outstanding(on_finish(s)) = Outstanding(s)
        /\ SameData(on_finish(s), s) /\ SameOutcome(on_finish(s), s)
    BY <1>2, <1>4, <1>5, <1>6, <1>7, <1>8, <2>1, OnFinishCore
  <2> QED BY <1>2, <1>3, <1>4, <1>8, <2>2 DEF SameData, SameOutcome
<1>9. CASE ~st.is_send_complete
  <2>1. CompleteInv(s)
    BY <1>2, <1>4, <1>9 DEF CoreInv, CompleteInv, Free, SameQueue
  <2>2. CoreInv(s)
    BY <1>4, <1>5, <1>6, <1>7, <2>1, CoreSplit DEF Rest
  <2> QED BY <1>2, <1>3, <1>4, <1>9, <2>2
<1> QED BY <1>8, <1>9

\* Session::on_send_complete, which finishes when receiving is complete.
LEMMA OnSendCompleteCore ==
  ASSUME NEW st, CoreInv(st), Free(st, SendLane), ~st.is_send_complete,
         st.is_receive_complete => "start" \notin Outstanding(st),
         \/ st.configuration.direction = "RX"
         \/ st.sent = st.configuration.size
  PROVE  /\ CoreInv(on_send_complete(st))
         /\ on_send_complete(st).is_send_complete
         /\ on_send_complete(st).is_receive_complete = st.is_receive_complete
         /\ on_send_complete(st).failure = st.failure
         /\ on_send_complete(st).exit_requested = st.exit_requested
         /\ SameData(on_send_complete(st), st)
         /\ Outstanding(on_send_complete(st)) = Outstanding(st)
<1> DEFINE s == [st EXCEPT !.is_send_complete = TRUE]
<1>1. st \in SessionState
  BY DEF CoreInv
<1>2. /\ s \in SessionState /\ SameQueue(st, s) /\ SameData(s, st)
      /\ s.socket = st.socket /\ s.is_send_complete
      /\ s.is_receive_complete = st.is_receive_complete
      /\ s.failure = st.failure /\ s.exit_requested = st.exit_requested
  BY <1>1 DEF SessionState, SameQueue, SameData
<1>3. on_send_complete(st) = IF st.is_receive_complete THEN on_finish(s) ELSE s
  BY DEF on_send_complete
<1> HIDE DEF s
<1>4. Base(s) /\ Outstanding(s) = Outstanding(st) /\ Queued(s) = Queued(st)
  BY <1>2, CoreBase, FrameBase
<1>5. AbortedInv(s)
  BY <1>2, <1>4 DEF CoreInv, AbortedInv
<1>6. ReceiveSizeInv(s)
  BY <1>2, <1>4 DEF CoreInv, ReceiveSizeInv, SameData
<1>7. SendSizeInv(s)
  BY <1>2, <1>4 DEF CoreInv, SendSizeInv, SameData
<1>8. CASE st.is_receive_complete
  <2>1. Free(s, ReceiveLane) /\ Free(s, SendLane) /\ "start" \notin Outstanding(s)
    BY <1>4, <1>8 DEF Free, CoreInv, CompleteInv
  <2>2. /\ CoreInv(on_finish(s)) /\ Outstanding(on_finish(s)) = Outstanding(s)
        /\ SameData(on_finish(s), s) /\ SameOutcome(on_finish(s), s)
    BY <1>2, <1>4, <1>5, <1>6, <1>7, <1>8, <2>1, OnFinishCore
  <2> QED BY <1>2, <1>3, <1>4, <1>8, <2>2 DEF SameData, SameOutcome
<1>9. CASE ~st.is_receive_complete
  <2>1. CompleteInv(s)
    BY <1>2, <1>4, <1>9 DEF CoreInv, CompleteInv, Free, SameQueue
  <2>2. CoreInv(s)
    BY <1>4, <1>5, <1>6, <1>7, <2>1, CoreSplit DEF Rest
  <2> QED BY <1>2, <1>3, <1>4, <1>9, <2>2
<1> QED BY <1>8, <1>9

\* Dequeuing a handler frees the lane of its operation, whose direction was not
\* complete.
LEMMA DispatchCore ==
  ASSUME NEW st, CoreInv(st), st.ready # <<>>
  PROVE  LET c == Head(st.ready)
             d == dispatch(st)
         IN  /\ CoreInv(d) /\ SameData(d, st) /\ SameOutcome(d, st)
             /\ d.socket = st.socket
             /\ c \in Completion /\ c \in Queued(st) /\ c.op \in Outstanding(st)
             /\ Outstanding(d) = Outstanding(st) \ {c.op}
             /\ c.op \in ReceiveLane =>
                    Free(d, ReceiveLane) /\ ~d.is_receive_complete
             /\ c.op \in SendLane => Free(d, SendLane) /\ ~d.is_send_complete
             /\ c.op # "connect" => "start" \notin Outstanding(d)
<1> DEFINE c == Head(st.ready)
           d == dispatch(st)
<1>1. /\ Base(d)
      /\ c \in Completion /\ c \in Queued(st) /\ c.op \in Outstanding(st)
      /\ Outstanding(d) = Outstanding(st) \ {c.op}
      /\ Queued(d) = Queued(st) \ {c}
      /\ d.waiting = st.waiting /\ d.socket = st.socket
      /\ SameData(d, st) /\ SameOutcome(d, st)
      /\ "start" \in Outstanding(d) => c.op = "connect"
  BY CoreBase, DispatchBase
<1> HIDE DEF c, d
<1>2. Rest(d)
  BY <1>1 DEF CoreInv, Rest, AbortedInv, CompleteInv, ReceiveSizeInv, SendSizeInv,
              SameData, SameOutcome, Free
<1>3. c.op \in ReceiveLane => Free(d, ReceiveLane) /\ ~d.is_receive_complete
  BY <1>1 DEF CoreInv, LaneInv, CompleteInv, Free, SameOutcome
<1>4. c.op \in SendLane => Free(d, SendLane) /\ ~d.is_send_complete
  BY <1>1 DEF CoreInv, LaneInv, CompleteInv, Free, SameOutcome
<1> QED BY <1>1, <1>2, <1>3, <1>4, CoreSplit DEF c, d

\* Session::verify does nothing but abort.
LEMMA VerifyCore ==
  ASSUME NEW st, CoreInv(st), NEW data, FailureStops(st)
  PROVE  /\ CoreInv(verify(st, data)) /\ FailureStops(verify(st, data))
         /\ Reports(verify(st, data), st)
         /\ Outstanding(verify(st, data)) = Outstanding(st)
         /\ SameData(verify(st, data), st)
         /\ verify(st, data).is_receive_complete = st.is_receive_complete
         /\ verify(st, data).is_send_complete = st.is_send_complete
<1> DEFINE b == abort(st, "data_mismatch")
<1>1. "data_mismatch" \in Reported
  BY DEF Reported, ErrorCode, Error
<1>2. CoreInv(b) /\ b.exit_requested /\ b.failure # "success"
  BY <1>1, AbortCore DEF Reported
<1>3. /\ Outstanding(b) = Outstanding(st) /\ SameData(b, st)
      /\ b.is_receive_complete = st.is_receive_complete
      /\ b.is_send_complete = st.is_send_complete
  BY <1>1, AbortCore
<1>4. verify(st, data) = b \/ verify(st, data) = st
  BY DEF verify
<1> HIDE DEF b
<1> QED BY <1>2, <1>3, <1>4 DEF FailureStops, Reports, SameData

\* Counting received bytes between two operations of the lane.
LEMMA ReceivedCore ==
  ASSUME NEW st, CoreInv(st), NEW data \in Seq(Nat), Free(st, ReceiveLane),
         ~st.is_receive_complete
  PROVE  /\ CoreInv(received(st, data))
         /\ Outstanding(received(st, data)) = Outstanding(st)
         /\ received(st, data).configuration = st.configuration
         /\ received(st, data).receive_slice = st.receive_slice
         /\ SameOutcome(received(st, data), st)
<1> DEFINE s == received(st, data)
<1>1. st \in SessionState /\ st.received + Len(data) \in Nat
  BY DEF CoreInv, SessionState
<1>2. /\ s \in SessionState /\ SameQueue(st, s) /\ SameOutcome(s, st)
      /\ s.socket = st.socket /\ s.configuration = st.configuration
      /\ s.receive_slice = st.receive_slice /\ s.send_slice = st.send_slice
      /\ s.sent = st.sent
  BY <1>1 DEF received, SessionState, SameQueue, SameOutcome
<1> HIDE DEF s
<1>3. Base(s) /\ Outstanding(s) = Outstanding(st) /\ Queued(s) = Queued(st)
  BY <1>2, CoreBase, FrameBase
<1>4. "eof" \notin Outstanding(s)
  BY <1>3 DEF Free, ReceiveLane
<1>5. Rest(s)
  BY <1>2, <1>3, <1>4 DEF CoreInv, Rest, AbortedInv, CompleteInv, ReceiveSizeInv,
        SendSizeInv, SameOutcome, SameQueue, Free
<1> QED BY <1>2, <1>3, <1>5, CoreSplit DEF s

\* Counting sent bytes between two operations of the lane.
LEMMA SentCore ==
  ASSUME NEW st, CoreInv(st), NEW data \in Seq(Nat), Free(st, SendLane),
         ~st.is_send_complete, st.sent + Len(data) <= st.configuration.size
  PROVE  /\ CoreInv(sent(st, data))
         /\ Outstanding(sent(st, data)) = Outstanding(st)
         /\ sent(st, data).configuration = st.configuration
         /\ sent(st, data).sent = st.sent + Len(data)
         /\ SameOutcome(sent(st, data), st)
<1> DEFINE s == sent(st, data)
<1>1. st \in SessionState /\ st.sent + Len(data) \in Nat
  BY DEF CoreInv, SessionState
<1>2. /\ s \in SessionState /\ SameQueue(st, s) /\ SameOutcome(s, st)
      /\ s.socket = st.socket /\ s.configuration = st.configuration
      /\ s.receive_slice = st.receive_slice /\ s.send_slice = st.send_slice
      /\ s.received = st.received /\ s.sent = st.sent + Len(data)
  BY <1>1 DEF sent, SessionState, SameQueue, SameOutcome
<1> HIDE DEF s
<1>3. Base(s) /\ Outstanding(s) = Outstanding(st) /\ Queued(s) = Queued(st)
  BY <1>2, CoreBase, FrameBase
<1>4. "send" \notin Outstanding(s)
  BY <1>3 DEF Free, SendLane
<1>5. Rest(s)
  BY <1>2, <1>3, <1>4 DEF CoreInv, Rest, AbortedInv, CompleteInv, ReceiveSizeInv,
        SendSizeInv, SameOutcome, SameQueue, Free
<1> QED BY <1>2, <1>3, <1>5, CoreSplit DEF s

\* Session::on_receive aborts or leaves an operation in the receiving lane.
LEMMA OnReceiveCore ==
  ASSUME NEW st, CoreInv(st), FailureStops(st), Free(st, ReceiveLane),
         ~st.is_receive_complete,
         NEW c \in Completion, c.failure # "operation_aborted",
         Len(c.data) <= st.receive_slice
  PROVE  LET r == on_receive(st, c)
         IN  /\ CoreInv(r) /\ FailureStops(r) /\ Reports(r, st)
             /\ ~r.is_receive_complete
             /\ Outstanding(st) \subseteq Outstanding(r)
             /\ \/ r.exit_requested
                \/ /\ ~Free(r, ReceiveLane)
                   /\ r.is_send_complete = st.is_send_complete
<1>1. c.failure \in ErrorCode /\ c.data \in Seq(Nat) /\ "unexpected_eof" \in Reported
  BY DEF Reported, Completion, ErrorCode, Error
<1>2. CASE c.failure # "success"
  <2>1. \E f \in Reported : on_receive(st, c) = abort(st, f)
    BY <1>1, <1>2 DEF on_receive, Reported
  <2> QED BY <2>1, AbortCore DEF FailureStops, Reports, Reported
<1>3. CASE c.failure = "success"
  <2> DEFINE v == verify(st, c.data)
             s == received(v, c.data)
             n == st.receive_slice - Len(c.data)
  <2>1. on_receive(st, c) = IF s.received < st.configuration.size
                            THEN async_receive(s, n) ELSE finish_receive(s)
    BY <1>3 DEF on_receive
  <2>2. /\ CoreInv(v) /\ FailureStops(v) /\ Reports(v, st)
        /\ Outstanding(v) = Outstanding(st)
        /\ SameData(v, st) /\ ~v.is_receive_complete
        /\ v.is_send_complete = st.is_send_complete
    BY VerifyCore
  <2> HIDE DEF v
  <2>3. /\ CoreInv(s) /\ FailureStops(s) /\ Reports(s, st)
        /\ Outstanding(s) = Outstanding(st)
        /\ s.configuration = st.configuration /\ ~s.is_receive_complete
        /\ s.is_send_complete = st.is_send_complete
        /\ Free(s, ReceiveLane)
    BY <1>1, <2>2, ReceivedCore
    DEF Free, SameData, SameOutcome, FailureStops, Reports
  <2> HIDE DEF s
  <2>4. n \in Nat
    BY <1>1 DEF CoreInv, SessionState
  <2> HIDE DEF n
  <2>5. CASE s.received < st.configuration.size
    <3>1. on_receive(st, c) = async_receive(s, n)
      BY <2>1, <2>5
    <3> QED BY <2>3, <2>4, <3>1, AsyncReceiveCore
            DEF Free, SameCounts, SameOutcome, FailureStops, Reports
  <2>6. CASE ~(s.received < st.configuration.size)
    <3>1. on_receive(st, c) = finish_receive(s)
      BY <2>1, <2>6
    <3>2. s.received >= s.configuration.size
      BY <2>3, <2>6 DEF CoreInv, SessionState, SessionConfiguration
    <3> QED BY <2>3, <3>1, <3>2, FinishReceiveCore
            DEF Free, SameCounts, SameOutcome, FailureStops, Reports
  <2> QED BY <2>5, <2>6
<1> QED BY <1>2, <1>3

\* TcpSession::on_eof aborts or completes the receiving direction.
LEMMA OnEofCore ==
  ASSUME NEW st, CoreInv(st), FailureStops(st), Free(st, ReceiveLane),
         ~st.is_receive_complete, "start" \notin Outstanding(st),
         \/ st.configuration.direction = "TX"
         \/ st.received >= st.configuration.size,
         NEW c \in Completion, c.failure # "operation_aborted"
  PROVE  LET r == on_eof(st, c)
         IN  /\ CoreInv(r) /\ FailureStops(r) /\ Reports(r, st)
             /\ Outstanding(r) = Outstanding(st)
             /\ \/ r.exit_requested /\ ~r.is_receive_complete
                \/ /\ r.is_receive_complete
                   /\ r.exit_requested = st.exit_requested
                   /\ r.is_send_complete = st.is_send_complete
<1> DEFINE a == IF st.configuration.shutdown_policy = "WAIT_FOR_PEER"
                THEN shutdown_send(st) ELSE st
<1>1. /\ CoreInv(a) /\ Outstanding(a) = Outstanding(st)
      /\ SameData(a, st) /\ SameOutcome(a, st)
  BY ShutdownSendCore DEF SameData, SameOutcome
<1>2. c.failure \in ErrorCode /\ "unexpected_data" \in Reported
  BY DEF Reported, Completion, ErrorCode, Error
<1>3. CASE c.failure = "eof"
  <2>1. on_eof(st, c) = on_receive_complete(a)
    BY <1>3 DEF on_eof
  <2> HIDE DEF a
  <2>2. /\ Free(a, ReceiveLane) /\ ~a.is_receive_complete
        /\ "start" \notin Outstanding(a)
        /\ \/ a.configuration.direction = "TX"
           \/ a.received >= a.configuration.size
    BY <1>1 DEF Free, SameData, SameOutcome
  <2> QED BY <1>1, <2>1, <2>2, OnReceiveCompleteCore
          DEF SameOutcome, FailureStops, Reports
<1>4. CASE c.failure # "eof"
  <2>1. \E f \in Reported : on_eof(st, c) = abort(a, f)
    BY <1>2, <1>4 DEF on_eof, Reported
  <2> HIDE DEF a
  <2> QED BY <1>1, <2>1, AbortCore DEF FailureStops, Reports, Reported, SameOutcome
<1> QED BY <1>3, <1>4

\* TcpSession::finish_send completes the sending direction.
LEMMA FinishSendCore ==
  ASSUME NEW st, CoreInv(st), Free(st, SendLane), ~st.is_send_complete,
         st.is_receive_complete => "start" \notin Outstanding(st),
         \/ st.configuration.direction = "RX"
         \/ st.sent = st.configuration.size
  PROVE  LET r == finish_send(st)
         IN  /\ CoreInv(r) /\ r.is_send_complete
             /\ r.is_receive_complete = st.is_receive_complete
             /\ r.failure = st.failure /\ r.exit_requested = st.exit_requested
             /\ Outstanding(r) = Outstanding(st)
<1> DEFINE a == IF st.configuration.shutdown_policy = "SEND_COMPLETE"
                THEN shutdown_send(st) ELSE st
<1>1. /\ CoreInv(a) /\ Outstanding(a) = Outstanding(st)
      /\ SameData(a, st) /\ SameOutcome(a, st)
  BY ShutdownSendCore DEF SameData, SameOutcome
<1>2. finish_send(st) = on_send_complete(a)
  BY DEF finish_send
<1> HIDE DEF a
<1>3. /\ Free(a, SendLane) /\ ~a.is_send_complete
      /\ a.is_receive_complete => "start" \notin Outstanding(a)
      /\ \/ a.configuration.direction = "RX"
         \/ a.sent = a.configuration.size
  BY <1>1 DEF Free, SameData, SameOutcome
<1> QED BY <1>1, <1>2, <1>3, OnSendCompleteCore DEF SameOutcome

\* Session::on_send aborts, leaves an operation in the sending lane or completes it.
LEMMA OnSendCore ==
  ASSUME NEW st, CoreInv(st), FailureStops(st), Free(st, SendLane),
         ~st.is_send_complete, "start" \notin Outstanding(st),
         NEW c \in Completion, c.failure \notin {"operation_aborted", "eof"},
         Len(c.data) <= st.send_slice,
         st.sent + st.send_slice <= st.configuration.size
  PROVE  LET r == on_send(st, c)
         IN  /\ CoreInv(r) /\ FailureStops(r) /\ Reports(r, st)
             /\ Outstanding(st) \subseteq Outstanding(r)
             /\ \/ r.exit_requested /\ ~r.is_send_complete
                \/ /\ ~Free(r, SendLane) \/ r.is_send_complete
                   /\ r.exit_requested = st.exit_requested
                   /\ r.is_receive_complete = st.is_receive_complete
<1>1. c.failure \in ErrorCode /\ c.data \in Seq(Nat)
  BY DEF Completion
<1>2. CASE c.failure # "success"
  <2>1. on_send(st, c) = abort(st, c.failure)
    BY <1>2 DEF on_send
  <2>2. c.failure \in Reported
    BY <1>1, <1>2 DEF Reported
  <2> QED BY <2>1, <2>2, AbortCore DEF FailureStops, Reports, Reported
<1>3. CASE c.failure = "success"
  <2> DEFINE s == sent(st, c.data)
             n == st.send_slice - Len(c.data)
  <2>1. on_send(st, c) = IF s.sent < st.configuration.size
                         THEN async_send(s, n) ELSE finish_send(s)
    BY <1>3 DEF on_send
  <2>2. /\ n \in Nat /\ Len(c.data) \in Nat
        /\ st.sent + Len(c.data) <= st.configuration.size
        /\ st.sent \in Nat /\ st.configuration.size \in Nat
    BY <1>1 DEF CoreInv, SessionState, SessionConfiguration
  <2>3. /\ CoreInv(s) /\ FailureStops(s) /\ Outstanding(s) = Outstanding(st)
        /\ s.configuration = st.configuration /\ s.sent = st.sent + Len(c.data)
        /\ ~s.is_send_complete
        /\ s.is_receive_complete = st.is_receive_complete
        /\ Free(s, SendLane) /\ s.exit_requested = st.exit_requested
    BY <1>1, <2>2, SentCore DEF Free, SameOutcome, FailureStops
  <2> HIDE DEF s, n
  <2>4. CASE s.sent < st.configuration.size
    <3>1. on_send(st, c) = async_send(s, n)
      BY <2>1, <2>4
    <3> QED BY <2>2, <2>3, <3>1, AsyncSendCore
            DEF Free, SameCounts, SameOutcome, FailureStops, Reports
  <2>5. CASE ~(s.sent < st.configuration.size)
    <3>1. on_send(st, c) = finish_send(s)
      BY <2>1, <2>5
    <3>2. s.sent = s.configuration.size
      BY <2>2, <2>3, <2>5
    <3> QED BY <2>3, <3>1, <3>2, FinishSendCore DEF FailureStops, Reports
  <2> QED BY <2>4, <2>5
<1> QED BY <1>2, <1>3

\* Any completion of a waiting operation keeps the invariant.
LEMMA CompleteCore ==
  ASSUME NEW st, CoreInv(st), ProgressInv(st),
         NEW c \in Completion, c.op \in st.waiting,
         c.failure # "operation_aborted",
         c.failure = "eof" => c.op \in {"receive", "eof"},
         c.op \in ThrottleOps \cup {"signal", "timeout"} => c.failure = "success",
         c.op = "receive" => Len(c.data) <= st.receive_slice,
         c.op = "send" => Len(c.data) <= st.send_slice
  PROVE  /\ CoreInv(complete(st, c)) /\ ProgressInv(complete(st, c))
         /\ Outstanding(complete(st, c)) = Outstanding(st)
         /\ Queued(complete(st, c)) = Queued(st) \cup {c}
         /\ complete(st, c).socket = st.socket
         /\ SameOutcome(complete(st, c), st)
<1> DEFINE b == complete(st, c)
<1>1. /\ Base(b)
      /\ Outstanding(b) = Outstanding(st)
      /\ Queued(b) = Queued(st) \cup {c}
      /\ b.waiting = st.waiting \ {c.op}
      /\ b.socket = st.socket
      /\ SameData(b, st)
      /\ SameOutcome(b, st)
  BY CoreBase, CompleteBase
<1> HIDE DEF b
<1>2. AbortedInv(b)
  BY <1>1 DEF CoreInv, AbortedInv, SameOutcome
<1>3. CompleteInv(b)
  BY <1>1 DEF CoreInv, CompleteInv, SameOutcome, Free
<1>4. ReceiveSizeInv(b)
  BY <1>1 DEF CoreInv, ReceiveSizeInv, SameOutcome, SameData
<1>5. SendSizeInv(b)
  BY <1>1 DEF CoreInv, SendSizeInv, SameOutcome, SameData
<1>6. ProgressInv(b)
  BY <1>1 DEF ProgressInv, SameOutcome, Free
<1> QED BY <1>1, <1>2, <1>3, <1>4, <1>5, <1>6, CoreSplit DEF Rest, b

\* A connection that succeeds or fails keeps the invariant.
LEMMA ConnectCore ==
  ASSUME NEW st, CoreInv(st), ProgressInv(st), "connect" \in st.waiting,
         NEW b \in {connected(st), refused(st)}
  PROVE  /\ CoreInv(b) /\ ProgressInv(b)
         /\ Outstanding(b) = Outstanding(st) /\ SameOutcome(b, st)
         /\ \A d \in Queued(b) : d \in Queued(st) \/ d.op = "connect"
<1>1. PICK failure \in {"success", "connection_refused"},
           socket \in {"connected", "unconnected"} :
        b = [complete(st, done("connect", failure, <<>>)) EXCEPT !.socket = socket]
  BY DEF connected, refused
<1> DEFINE c == done("connect", failure, <<>>)
           e == complete(st, c)
<1>2. c \in Completion /\ c.op = "connect" /\ c.failure = failure /\ c.op \notin ThrottleOps
  BY DEF done, ThrottleOps, Completion, Operation, SocketOps, ErrorCode, Error, SystemError
<1>3. /\ CoreInv(e) /\ ProgressInv(e) /\ Outstanding(e) = Outstanding(st)
      /\ Queued(e) = Queued(st) \cup {c} /\ SameOutcome(e, st)
  BY <1>2, CompleteCore
<1>4. b = [e EXCEPT !.socket = socket]
  BY <1>1
<1> HIDE DEF e, c
<1>5. /\ b \in SessionState /\ SameQueue(e, b) /\ SameData(b, e) /\ SameOutcome(b, e)
      /\ b.socket # "closed"
  BY <1>3, <1>4 DEF CoreInv, SessionState, SameQueue, SameData, SameOutcome
<1>6. Base(b) /\ Outstanding(b) = Outstanding(e) /\ Queued(b) = Queued(e)
  BY <1>3, <1>5, CoreBase, FrameBase
<1>7. "connect" \in Outstanding(e) /\ "connect" \in ReceiveLane
  BY <1>3 DEF Outstanding, ReceiveLane
<1>8. ~e.is_receive_complete /\ e.socket # "closed"
  BY <1>3, <1>7 DEF CoreInv, CompleteInv, Free
<1>9. Rest(b) /\ ProgressInv(b)
  BY <1>3, <1>5, <1>6, <1>8 DEF CoreInv, Rest, AbortedInv, CompleteInv,
        ReceiveSizeInv, SendSizeInv, ProgressInv, SameData, SameOutcome,
        SameQueue, Free
<1> QED BY <1>2, <1>3, <1>5, <1>6, <1>9, CoreSplit DEF SameOutcome

\* A session as its constructor and TcpSocket::open leave it.
LEMMA NewCore ==
  ASSUME NEW c \in SessionConfiguration
  PROVE  /\ CoreInv(new(c)) /\ ProgressInv(new(c))
         /\ Outstanding(new(c)) = {"signal", "connect"}
         /\ Queued(new(c)) = {} /\ "connect" \in new(c).waiting
<1> DEFINE n == new(c)
<1>1. n \in SessionState
  BY DEF new, SessionState, Operation, SocketOps, ErrorCode, Error
<1>2. /\ n.configuration = c /\ n.socket = "connecting"
      /\ n.waiting = {"signal", "connect"} /\ n.ready = <<>>
      /\ n.memory = [m \in HandlerMemory |-> 0] /\ n.sent = 0
      /\ n.is_receive_complete = FALSE /\ n.is_send_complete = FALSE
      /\ n.failure = "success" /\ n.exit_requested = FALSE
  BY DEF new
<1> HIDE DEF n
<1>3. Queued(n) = {} /\ Outstanding(n) = {"signal", "connect"}
  BY <1>2 DEF Queued, Outstanding
<1>4. QueueInv(n) /\ StartInv(n)
  BY <1>2, <1>3 DEF QueueInv, StartInv
<1>5. LaneInv(n)
  BY <1>3 DEF LaneInv, ReceiveLane, SendLane
<1>6. \A m \in HandlerMemory : ~uses("signal", m) /\ ~uses("connect", m)
  BY DEF uses, MemoryOf, ThrottleOps
<1>7. MemoryInv(n)
  BY <1>2, <1>3, <1>6 DEF MemoryInv
<1>8. AbortedInv(n) /\ CompleteInv(n)
  BY <1>2, <1>3 DEF AbortedInv, CompleteInv
<1>9. ReceiveSizeInv(n) /\ SendSizeInv(n)
  BY <1>2, <1>3 DEF ReceiveSizeInv, SendSizeInv, SessionConfiguration
<1>10. ProgressInv(n)
  BY <1>2, <1>3 DEF ProgressInv, Free, ReceiveLane, SendLane
<1> QED BY <1>1, <1>2, <1>3, <1>4, <1>5, <1>7, <1>8, <1>9, <1>10 DEF CoreInv, n

\* TcpSession::initialize posts the start of the timer behind the connection only.
LEMMA PostStartCore ==
  ASSUME NEW st, CoreInv(st), ProgressInv(st),
         Outstanding(st) = {"signal", "connect"},
         \A d \in Queued(st) : d.op = "connect"
  PROVE  LET b == post(st, done("start", "success", <<>>))
         IN  CoreInv(b) /\ ProgressInv(b)
<1> DEFINE c == done("start", "success", <<>>)
           b == post(st, c)
<1>1. c \in Completion /\ c.op = "start" /\ c.failure = "success" /\ c.data = <<>>
  BY DEF done, Completion, Operation, ErrorCode, Error
<1>2. st \in SessionState
  BY DEF CoreInv
<1>3. /\ b.waiting = st.waiting /\ b.ready = Append(st.ready, c)
      /\ b.memory = st.memory /\ b.socket = st.socket
      /\ SameData(b, st) /\ SameOutcome(b, st)
  BY <1>2 DEF post, SessionState, SameData, SameOutcome
<1>4. b \in SessionState
  <2>1. Append(st.ready, c) \in Seq(Completion)
    BY <1>1, <1>2 DEF SessionState
  <2> QED BY <1>2, <2>1 DEF post, SessionState
<1> HIDE DEF b, c
<1>5. /\ Len(st.ready) \in Nat
      /\ DOMAIN st.ready = 1 .. Len(st.ready)
      /\ DOMAIN b.ready = 1 .. Len(st.ready) + 1
      /\ b.ready[Len(st.ready) + 1] = c
      /\ \A i \in DOMAIN st.ready : b.ready[i] = st.ready[i]
  BY <1>1, <1>2, <1>3 DEF SessionState
<1>6. Queued(b) = Queued(st) \cup {c}
  BY <1>5 DEF Queued
<1>7. Outstanding(b) = Outstanding(st) \cup {"start"}
  BY <1>1, <1>3, <1>6 DEF Outstanding
<1>8. \A i \in DOMAIN st.ready : st.ready[i].op = "connect"
  BY DEF Queued
<1>9. QueueInv(b)
  <2>1. "start" \notin st.waiting
    BY DEF Outstanding
  <2> QED BY <1>1, <1>3, <1>5, <1>8, <2>1 DEF CoreInv, QueueInv
<1>10. StartInv(b)
  <2>1. "start" \notin b.waiting /\ "timeout" \notin Outstanding(b)
    <3>1. "start" \notin st.waiting
      BY DEF Outstanding
    <3> QED BY <1>3, <1>7, <3>1
  <2>2. ASSUME NEW i \in DOMAIN b.ready, NEW j \in DOMAIN b.ready, j < i
        PROVE  b.ready[j].op = "connect"
    <3>1. j \in DOMAIN st.ready
      BY <1>5, <2>2
    <3> QED BY <1>5, <1>8, <3>1
  <2> QED BY <2>1, <2>2 DEF StartInv
<1>11. LaneInv(b)
  BY <1>7 DEF CoreInv, LaneInv, ReceiveLane, SendLane
<1>12. MemoryInv(b)
  <2>1. \A m \in HandlerMemory : ~uses("start", m)
    BY DEF uses, MemoryOf, ThrottleOps
  <2> QED BY <1>3, <1>7, <2>1 DEF CoreInv, MemoryInv
<1>13. AbortedInv(b)
  BY <1>1, <1>3, <1>6 DEF CoreInv, AbortedInv, SameOutcome, ThrottleOps
<1>14. CompleteInv(b)
  <2>1. ~st.is_receive_complete /\ ~st.is_send_complete
    BY DEF CoreInv, CompleteInv, Free, ReceiveLane, SendLane
  <2> QED BY <1>3, <2>1 DEF CoreInv, CompleteInv, SameOutcome
<1>15. ReceiveSizeInv(b) /\ SendSizeInv(b)
  BY <1>1, <1>3, <1>6, <1>7 DEF CoreInv, ReceiveSizeInv, SendSizeInv, SameData, SameOutcome
<1>16. ProgressInv(b)
  BY <1>3, <1>7 DEF ProgressInv, SameOutcome, Free
<1> QED BY <1>4, <1>9, <1>10, <1>11, <1>12, <1>13, <1>14, <1>15, <1>16 DEF CoreInv, b, c

\* The invariant holds initially.
LEMMA InitControl == Init => ControlInv
<1> SUFFICES ASSUME Init PROVE ControlInv
  OBVIOUS
<1>1. PICK c \in Configurations : session \in initialize(c)
  BY DEF Init
<1>2. c \in SessionConfiguration
  BY ConfigurationsAssumption
<1>3. PICK opened \in {new(c), connected(new(c)), refused(new(c))} :
        session = post(opened, done("start", "success", <<>>))
  BY <1>1 DEF initialize
<1>4. /\ CoreInv(opened) /\ ProgressInv(opened)
      /\ Outstanding(opened) = {"signal", "connect"}
      /\ \A d \in Queued(opened) : d.op = "connect"
  BY <1>2, NewCore, ConnectCore
<1>5. CoreInv(session) /\ ProgressInv(session)
  BY <1>3, <1>4, PostStartCore
<1>6. TypeOK
  BY <1>5 DEF TypeOK, CoreInv, Init
<1> QED BY <1>5, <1>6 DEF ControlInv

\* Completions keep the invariant.
LEMMA CompleteControl ==
  ASSUME ControlInv, Complete
  PROVE  ControlInv'
<1> USE DEF ControlInv
<1>0. /\ {"receive", "eof", "send", "receive_throttle", "send_throttle",
          "timeout", "signal"} \subseteq Operation
      /\ {"success", "eof", "connection_reset", "not_connected", "broken_pipe"}
            \subseteq ErrorCode
      /\ {"receive", "eof", "send", "signal"} \cap ThrottleOps = {}
      /\ session \in SessionState
      /\ session.receive_slice \in Nat /\ session.send_slice \in Nat
  BY DEF Operation, SocketOps, ThrottleOps, ErrorCode, Error, SystemError, TypeOK, SessionState
<1>1. CASE ConnectSucceeds \/ ConnectFails
  <2>1. session' \in {connected(session), refused(session)}
    BY <1>1 DEF ConnectSucceeds, ConnectFails
  <2>2. "connect" \in session.waiting
    BY <1>1 DEF ConnectSucceeds, ConnectFails, Waits
  <2>3. CoreInv(session') /\ ProgressInv(session')
    BY <2>1, <2>2, ConnectCore
  <2> QED BY <1>1, <2>3 DEF TypeOK, CoreInv, ConnectSucceeds, ConnectFails
<1>2. ASSUME NEW op \in {"receive", "eof"}, ReceivesData(op)
      PROVE  ControlInv'
  <2>1. PICK n \in 1 .. Least(receive_size(op), Len(inbound)) :
            /\ session' = complete(session, done(op, "success", SubSeq(inbound, 1, n)))
            /\ inbound' = SubSeq(inbound, n + 1, Len(inbound))
    BY <1>2 DEF ReceivesData
  <2>2. Len(inbound) \in Nat /\ BUFFER_SIZE \in Nat
    BY BufferAssumption DEF TypeOK
  <2>3. n \in 1 .. Len(inbound) /\ (op = "receive" => n <= session.receive_slice)
    BY <1>0, <1>2, <2>2 DEF receive_size, Least
  <2> DEFINE data == SubSeq(inbound, 1, n)
             c == done(op, "success", data)
  <2>4. data \in Seq(Byte) /\ Len(data) = n /\ inbound' \in Seq(Byte)
    BY <2>1, <2>3, SubSeqType DEF TypeOK
  <2> HIDE DEF data
  <2>5. c \in Completion /\ c.op = op /\ c.failure = "success" /\ c.data = data
    BY <1>0, <2>4, ByteSeq, DoneType
  <2>6. session' = complete(session, c)
    BY <2>1 DEF data
  <2>7. op \in session.waiting
    BY <1>2 DEF ReceivesData, Waits
  <2> HIDE DEF c
  <2>8. CoreInv(session') /\ ProgressInv(session')
    BY <1>0, <1>2, <2>3, <2>4, <2>5, <2>6, <2>7, CompleteCore
  <2> QED BY <1>2, <2>4, <2>8 DEF ReceivesData, TypeOK, CoreInv
<1>3. ASSUME NEW op \in {"receive", "eof"}, ReceiveFails(op)
      PROVE  ControlInv'
  <2>1. PICK failure \in {"eof", "connection_reset", "not_connected"} :
            session' = complete(session, done(op, failure, <<>>))
    BY <1>3 DEF ReceiveFails
  <2> DEFINE c == done(op, failure, <<>>)
  <2>2. c \in Completion /\ c.op = op /\ c.failure = failure /\ Len(c.data) = 0
    BY <1>0, DoneEmptyType
  <2>3. op \in session.waiting
    BY <1>3 DEF ReceiveFails, Waits
  <2> HIDE DEF c
  <2>4. CoreInv(session') /\ ProgressInv(session')
    BY <1>0, <1>3, <2>1, <2>2, <2>3, CompleteCore DEF c
  <2> QED BY <1>3, <2>4 DEF ReceiveFails, TypeOK, CoreInv
<1>4. CASE SendsData
  <2>1. PICK n \in 1 .. Least(send_size(session), ROOM - Len(outbound)) :
            /\ session' = complete(session, done("send", "success",
                                        BytesToSend(send_offset(session), n)))
            /\ outbound' = outbound \o BytesToSend(send_offset(session), n)
    BY <1>4 DEF SendsData
  <2> DEFINE offset == send_offset(session)
             data == BytesToSend(offset, n)
             c == done("send", "success", data)
  <2>2. offset \in Nat /\ BUFFER_SIZE - offset \in Int
    BY BufferAssumption DEF send_offset, TypeOK, SessionState
  <2>3. n \in Nat /\ n <= session.send_slice /\ n <= BUFFER_SIZE - offset
    <3>1. send_size(session) = Least(session.send_slice, BUFFER_SIZE - offset)
      BY DEF send_size
    <3>2. ROOM - Len(outbound) \in Int
      BY EnvironmentAssumption DEF TypeOK
    <3> HIDE DEF offset
    <3> QED BY <1>0, <2>1, <2>2, <3>1, <3>2 DEF Least
  <2>4. data \in Seq(Byte) /\ Len(data) = n
    <3>1. offset = session.sent % BYTE_VALUES /\ session.sent \in Nat
      BY DEF send_offset, TypeOK, SessionState
    <3> HIDE DEF offset
    <3>2. n <= BUFFER_SIZE - (session.sent % BYTE_VALUES)
      BY <2>3, <3>1
    <3>3. /\ BytesToSend(session.sent % BYTE_VALUES, n) \in Seq(Byte)
          /\ Len(BytesToSend(session.sent % BYTE_VALUES, n)) = n
      BY <2>3, <3>1, <3>2, BytesToSendType
    <3> QED BY <3>1, <3>3
  <2> HIDE DEF data, offset
  <2>5. outbound' \in Seq(Byte)
    BY <2>1, <2>4 DEF TypeOK, data, offset
  <2>6. c \in Completion /\ c.op = "send" /\ c.failure = "success" /\ c.data = data
    BY <1>0, <2>4, ByteSeq, DoneType
  <2>7. session' = complete(session, c)
    BY <2>1 DEF data, offset
  <2>8. "send" \in session.waiting
    BY <1>4 DEF SendsData, Waits
  <2> HIDE DEF c
  <2>9. CoreInv(session') /\ ProgressInv(session')
    BY <1>0, <2>3, <2>4, <2>6, <2>7, <2>8, CompleteCore
  <2> QED BY <1>4, <2>5, <2>9 DEF SendsData, TypeOK, CoreInv
<1>5. CASE SendFails
  <2>1. PICK failure \in {"broken_pipe", "connection_reset"} :
            session' = complete(session, done("send", failure, <<>>))
    BY <1>5 DEF SendFails
  <2> DEFINE c == done("send", failure, <<>>)
  <2>2. c \in Completion /\ c.op = "send" /\ c.failure = failure /\ Len(c.data) = 0
    BY <1>0, DoneEmptyType
  <2>3. "send" \in session.waiting
    BY <1>5 DEF SendFails, Waits
  <2> HIDE DEF c
  <2>4. CoreInv(session') /\ ProgressInv(session')
    BY <1>0, <2>1, <2>2, <2>3, CompleteCore DEF c
  <2> QED BY <1>5, <2>4 DEF SendFails, TypeOK, CoreInv
<1>6. ASSUME NEW op \in {"receive_throttle", "send_throttle", "timeout"},
             TimerExpires(op)
      PROVE  ControlInv'
  <2> DEFINE c == done(op, "success", <<>>)
  <2>1. session' = complete(session, c) /\ op \in session.waiting
    BY <1>6 DEF TimerExpires, Waits
  <2>2. c \in Completion /\ c.op = op /\ c.failure = "success" /\ Len(c.data) = 0
    BY <1>0, DoneEmptyType
  <2> HIDE DEF c
  <2>3. CoreInv(session') /\ ProgressInv(session')
    BY <1>0, <1>6, <2>1, <2>2, CompleteCore
  <2> QED BY <1>6, <2>3 DEF TimerExpires, TypeOK, CoreInv
<1>7. ASSUME NEW number \in Signal, SignalArrives(number)
      PROVE  ControlInv'
  <2> DEFINE data == <<number>>
             c == done("signal", "success", data)
  <2>1. session' = complete(session, c) /\ "signal" \in session.waiting
    BY <1>7 DEF SignalArrives, Waits
  <2>2. data \in Seq(Nat)
    BY DEF Signal, SIGHUP, SIGINT, SIGTERM
  <2> HIDE DEF data
  <2>3. c \in Completion /\ c.op = "signal" /\ c.failure = "success"
    BY <1>0, <2>2, DoneType
  <2> HIDE DEF c
  <2>4. CoreInv(session') /\ ProgressInv(session')
    BY <1>0, <2>1, <2>3, CompleteCore
  <2> QED BY <1>7, <2>4 DEF SignalArrives, TypeOK, CoreInv
<1> QED BY <1>1, <1>2, <1>3, <1>4, <1>5, <1>6, <1>7 DEF Complete

\* What holds of the session from which a handler has been dequeued.
LEMMA DispatchControl ==
  ASSUME ControlInv, Running, session.ready # <<>>
  PROVE  LET c == Head(session.ready)
             d == dispatch(session)
         IN  /\ CoreInv(d) /\ FailureStops(d) /\ ~d.exit_requested
             /\ d.socket = session.socket
             /\ c.op # "signal" => d.socket = "closed" \/ "signal" \in Outstanding(d)
             /\ c \in Completion /\ c \in Queued(session)
             /\ c.op \in Outstanding(session)
             /\ Outstanding(d) = Outstanding(session) \ {c.op}
             /\ SameData(d, session) /\ SameOutcome(d, session)
             /\ c.op # "connect" => "start" \notin Outstanding(d)
             /\ c.op \in ReceiveLane =>
                    Free(d, ReceiveLane) /\ ~d.is_receive_complete
             /\ c.op \in SendLane => Free(d, SendLane) /\ ~d.is_send_complete
             /\ c.op \notin ReceiveLane =>
                    d.is_receive_complete \/ ~Free(d, ReceiveLane)
             /\ c.op \notin SendLane => d.is_send_complete \/ ~Free(d, SendLane)
<1> DEFINE c == Head(session.ready)
           d == dispatch(session)
<1>1. /\ CoreInv(d) /\ SameData(d, session) /\ SameOutcome(d, session)
      /\ d.socket = session.socket
      /\ c \in Completion /\ c \in Queued(session) /\ c.op \in Outstanding(session)
      /\ Outstanding(d) = Outstanding(session) \ {c.op}
      /\ c.op \in ReceiveLane => Free(d, ReceiveLane) /\ ~d.is_receive_complete
      /\ c.op \in SendLane => Free(d, SendLane) /\ ~d.is_send_complete
      /\ c.op # "connect" => "start" \notin Outstanding(d)
  BY DispatchCore DEF ControlInv
<1> HIDE DEF c, d
<1>2. FailureStops(d) /\ ~d.exit_requested
  BY <1>1 DEF ControlInv, ProgressInv, FailureStops, SameOutcome, Running
<1>3. /\ c.op \notin ReceiveLane => d.is_receive_complete \/ ~Free(d, ReceiveLane)
      /\ c.op \notin SendLane => d.is_send_complete \/ ~Free(d, SendLane)
      /\ c.op # "signal" => d.socket = "closed" \/ "signal" \in Outstanding(d)
  BY <1>1 DEF ControlInv, ProgressInv, SameOutcome, Free, Running
<1> QED BY <1>1, <1>2, <1>3 DEF c, d

\* An abort in a handler keeps the invariant.
LEMMA AbortControl ==
  ASSUME NEW d, CoreInv(d), FailureStops(d),
         NEW f \in Reported
  PROVE  CoreInv(abort(d, f)) /\ ProgressInv(abort(d, f))
BY AbortCore DEF ProgressInv, Reported

\* The handler that starts the timer, Session::start_timer.
LEMMA StartControl ==
  ASSUME ControlInv, Dispatches("start")
  PROVE  LET r == start_timer(dispatch(session))
         IN  CoreInv(r) /\ ProgressInv(r) /\ Handled(r, dispatch(session))
<1> DEFINE d == dispatch(session)
           s == begin(d, "timeout")
<1>1. "start" \notin ReceiveLane /\ "start" \notin SendLane
      /\ "timeout" \notin ReceiveLane /\ "timeout" \notin SendLane
      /\ "timeout" \in Operation \ {"start"}
  BY DEF ReceiveLane, SendLane, Operation
<1>2. /\ CoreInv(d) /\ FailureStops(d) /\ ~d.exit_requested
      /\ "start" \in Outstanding(session)
      /\ Outstanding(d) = Outstanding(session) \ {"start"}
      /\ d.is_receive_complete \/ ~Free(d, ReceiveLane)
      /\ d.is_send_complete \/ ~Free(d, SendLane)
      /\ SameOutcome(d, session)
      /\ "start" \notin Outstanding(d)
      /\ d.socket = "closed" \/ "signal" \in Outstanding(d)
  BY <1>1, DispatchControl DEF Dispatches
<1>3. "timeout" \notin Outstanding(d)
  BY <1>2 DEF ControlInv, CoreInv, StartInv
<1>4. ~(d.is_receive_complete /\ d.is_send_complete) /\ d.socket # "closed"
  BY <1>2 DEF ControlInv, CoreInv, CompleteInv, SameOutcome
<1> HIDE DEF d
<1>5. /\ Base(s) /\ Outstanding(s) = Outstanding(d) \cup {"timeout"}
      /\ Queued(s) = Queued(d) /\ s.socket = d.socket
      /\ SameData(s, d) /\ SameOutcome(s, d)
  BY <1>1, <1>2, <1>3, CoreBase, BeginBase
<1> HIDE DEF s
<1>6. Rest(s)
  BY <1>1, <1>2, <1>4, <1>5 DEF CoreInv, Rest, AbortedInv, CompleteInv, ReceiveSizeInv,
        SendSizeInv, SameData, SameOutcome, Free
<1>7. ProgressInv(s)
  BY <1>2, <1>5 DEF ProgressInv, FailureStops, SameOutcome, Free
<1>8. Handled(s, d)
  BY <1>2, <1>5 DEF Handled, SameOutcome
<1> QED BY <1>5, <1>6, <1>7, <1>8, CoreSplit DEF start_timer, s, d

\* The handler of the connection, Session::start_transfer.
LEMMA ConnectControl ==
  ASSUME ControlInv, Dispatches("connect")
  PROVE  LET r == start_transfer(dispatch(session))
         IN  CoreInv(r) /\ ProgressInv(r) /\ Handled(r, dispatch(session))
<1> DEFINE d == dispatch(session)
           s == start_receiving(d)
           t == start_sending(s)
<1>1. "connect" \in ReceiveLane /\ "connect" \in SendLane
  BY DEF ReceiveLane, SendLane
<1>2. /\ CoreInv(d) /\ FailureStops(d) /\ ~d.exit_requested
      /\ Free(d, ReceiveLane) /\ ~d.is_receive_complete
      /\ Free(d, SendLane) /\ ~d.is_send_complete
      /\ d.socket = "closed" \/ "signal" \in Outstanding(d)
  BY <1>1, DispatchControl DEF Dispatches
<1>7. "signal" \in Outstanding(d)
  BY <1>2 DEF CoreInv, CompleteInv
<1> HIDE DEF d
<1>3. /\ CoreInv(s) /\ SameCounts(s, d)
      /\ \E op \in ReceiveLane \ SendLane : Outstanding(s) = Outstanding(d) \cup {op}
  <2>1. CASE d.configuration.direction = "TX"
    <3>1. s = finish_receive(d)
      BY <2>1 DEF start_receiving
    <3> QED BY <1>2, <2>1, <3>1, FinishReceiveCore
  <2>2. CASE d.configuration.direction # "TX"
    <3>1. s = async_receive(d, 0)
      BY <2>2 DEF start_receiving
    <3> QED BY <1>2, <3>1, AsyncReceiveCore
  <2> QED BY <2>1, <2>2
<1> HIDE DEF s
<1>4. /\ Free(s, SendLane) /\ ~s.is_send_complete
      /\ ~Free(s, ReceiveLane) /\ ~s.is_receive_complete
      /\ FailureStops(s) /\ ~s.exit_requested
      /\ "signal" \in Outstanding(s) /\ Outstanding(d) \subseteq Outstanding(s)
  BY <1>2, <1>3, <1>7 DEF Free, SameCounts, SameOutcome, FailureStops
<1>5. CASE s.configuration.direction = "RX"
  <2>1. t = finish_send(s)
    BY <1>5 DEF start_sending
  <2>2. /\ CoreInv(t) /\ t.is_send_complete
        /\ t.is_receive_complete = s.is_receive_complete
        /\ t.failure = s.failure /\ t.exit_requested = s.exit_requested
        /\ Outstanding(t) = Outstanding(s)
    BY <1>3, <1>4, <1>5, <2>1, FinishSendCore
  <2>3. ProgressInv(t) /\ Handled(t, d)
    BY <1>4, <2>2 DEF ProgressInv, Free, FailureStops, Handled
  <2> QED BY <2>2, <2>3 DEF start_transfer, s, d
<1>6. CASE s.configuration.direction # "RX"
  <2>1. t = async_send(s, 0)
    BY <1>6 DEF start_sending
  <2>2. /\ CoreInv(t) /\ SameCounts(t, s)
        /\ \E op \in SendLane \ ReceiveLane : Outstanding(t) = Outstanding(s) \cup {op}
    BY <1>3, <1>4, <2>1, AsyncSendCore
  <2>3. ProgressInv(t) /\ Handled(t, d)
    BY <1>4, <2>2 DEF ProgressInv, Free, FailureStops, SameCounts, SameOutcome, Handled
  <2> QED BY <2>2, <2>3 DEF start_transfer, s, d
<1> QED BY <1>5, <1>6

\* The handler of the receiving throttle.
LEMMA ReceiveThrottleControl ==
  ASSUME ControlInv, Dispatches("receive_throttle")
  PROVE  LET r == on_receive_slice(dispatch(session), Head(session.ready))
         IN  CoreInv(r) /\ ProgressInv(r) /\ Handled(r, dispatch(session))
<1> DEFINE d == dispatch(session)
           c == Head(session.ready)
           r == on_receive_slice(d, c)
<1>1. "receive_throttle" \in ReceiveLane \ SendLane
  BY DEF ReceiveLane, SendLane
<1>2. /\ CoreInv(d) /\ FailureStops(d) /\ ~d.exit_requested
      /\ d.socket = "closed" \/ "signal" \in Outstanding(d)
      /\ c \in Queued(session) /\ c.op = "receive_throttle"
      /\ Free(d, ReceiveLane) /\ ~d.is_receive_complete
      /\ d.is_send_complete \/ ~Free(d, SendLane)
  BY <1>1, DispatchControl DEF Dispatches
<1> HIDE DEF c, d
<1>3. d.configuration.receive_slice \in Nat
  BY <1>2 DEF CoreInv, SessionState, SessionConfiguration
<1>4. c.failure = "success"
  BY <1>2 DEF ControlInv, CoreInv, AbortedInv, ThrottleOps
<1>5. r = async_receive(d, d.configuration.receive_slice)
  BY <1>4 DEF on_receive_slice
<1> HIDE DEF r
<1>6. /\ CoreInv(r) /\ SameCounts(r, d)
      /\ \E op \in ReceiveLane \ SendLane : Outstanding(r) = Outstanding(d) \cup {op}
  BY <1>2, <1>3, <1>5, AsyncReceiveCore
<1>7. "signal" \in Outstanding(d)
  BY <1>2 DEF CoreInv, CompleteInv
<1>8. ProgressInv(r) /\ Handled(r, d)
  BY <1>2, <1>6, <1>7
  DEF ProgressInv, Free, FailureStops, SameCounts, SameOutcome, Handled
<1> QED BY <1>6, <1>8 DEF r, c, d

\* The handler of the sending throttle.
LEMMA SendThrottleControl ==
  ASSUME ControlInv, Dispatches("send_throttle")
  PROVE  LET r == on_send_slice(dispatch(session), Head(session.ready))
         IN  CoreInv(r) /\ ProgressInv(r) /\ Handled(r, dispatch(session))
<1> DEFINE d == dispatch(session)
           c == Head(session.ready)
           r == on_send_slice(d, c)
<1>1. "send_throttle" \in SendLane \ ReceiveLane
  BY DEF ReceiveLane, SendLane
<1>2. /\ CoreInv(d) /\ FailureStops(d) /\ ~d.exit_requested
      /\ d.socket = "closed" \/ "signal" \in Outstanding(d)
      /\ c \in Queued(session) /\ c.op = "send_throttle"
      /\ Free(d, SendLane) /\ ~d.is_send_complete
      /\ d.is_receive_complete \/ ~Free(d, ReceiveLane)
  BY <1>1, DispatchControl DEF Dispatches
<1> HIDE DEF c, d
<1>3. d.configuration.send_slice \in Nat
  BY <1>2 DEF CoreInv, SessionState, SessionConfiguration
<1>4. c.failure = "success"
  BY <1>2 DEF ControlInv, CoreInv, AbortedInv, ThrottleOps
<1>5. r = async_send(d, d.configuration.send_slice)
  BY <1>4 DEF on_send_slice
<1> HIDE DEF r
<1>6. /\ CoreInv(r) /\ SameCounts(r, d)
      /\ \E op \in SendLane \ ReceiveLane : Outstanding(r) = Outstanding(d) \cup {op}
  BY <1>2, <1>3, <1>5, AsyncSendCore
<1>7. "signal" \in Outstanding(d)
  BY <1>2 DEF CoreInv, CompleteInv
<1>8. ProgressInv(r) /\ Handled(r, d)
  BY <1>2, <1>6, <1>7
  DEF ProgressInv, Free, FailureStops, SameCounts, SameOutcome, Handled
<1> QED BY <1>6, <1>8 DEF r, c, d

\* The handler of a receive.
LEMMA ReceiveControl ==
  ASSUME ControlInv, Dispatches("receive")
  PROVE  LET r == on_receive(dispatch(session), Head(session.ready))
         IN  CoreInv(r) /\ ProgressInv(r) /\ Handled(r, dispatch(session))
<1> DEFINE d == dispatch(session)
           c == Head(session.ready)
           r == on_receive(d, c)
<1>1. "receive" \in ReceiveLane \ SendLane
  BY DEF ReceiveLane, SendLane
<1>2. /\ CoreInv(d) /\ FailureStops(d) /\ ~d.exit_requested
      /\ d.socket = "closed" \/ "signal" \in Outstanding(d)
      /\ c \in Completion /\ c \in Queued(session) /\ c.op = "receive"
      /\ Free(d, ReceiveLane) /\ ~d.is_receive_complete
      /\ d.is_send_complete \/ ~Free(d, SendLane)
      /\ SameData(d, session)
  BY <1>1, DispatchControl DEF Dispatches
<1> HIDE DEF c, d
<1>3. c.failure # "operation_aborted" /\ Len(c.data) <= d.receive_slice
  BY <1>2 DEF ControlInv, CoreInv, AbortedInv, ReceiveSizeInv, SameData
<1>4. /\ CoreInv(r) /\ FailureStops(r) /\ Reports(r, d) /\ ~r.is_receive_complete
      /\ Outstanding(d) \subseteq Outstanding(r)
      /\ \/ r.exit_requested
         \/ /\ ~Free(r, ReceiveLane)
            /\ r.is_send_complete = d.is_send_complete
  BY <1>2, <1>3, OnReceiveCore
<1> HIDE DEF r
<1>5. "signal" \in Outstanding(d)
  BY <1>2 DEF CoreInv, CompleteInv
<1>6. r.socket = "closed" <=> r.is_receive_complete /\ r.is_send_complete
  BY <1>4 DEF CoreInv, CompleteInv
<1>7. Handled(r, d)
  BY <1>2, <1>4, <1>6 DEF Handled, Reports
<1>8. ProgressInv(r)
  BY <1>2, <1>4, <1>5 DEF ProgressInv, Free, FailureStops
<1> QED BY <1>4, <1>7, <1>8 DEF r, c, d

\* The handler of the receive that waits for the end of the peer's stream.
LEMMA EofControl ==
  ASSUME ControlInv, Dispatches("eof")
  PROVE  LET r == on_eof(dispatch(session), Head(session.ready))
         IN  CoreInv(r) /\ ProgressInv(r) /\ Handled(r, dispatch(session))
<1> DEFINE d == dispatch(session)
           c == Head(session.ready)
           r == on_eof(d, c)
<1>1. "eof" \in ReceiveLane \ SendLane
  BY DEF ReceiveLane, SendLane
<1>2. /\ CoreInv(d) /\ FailureStops(d) /\ ~d.exit_requested
      /\ d.socket = "closed" \/ "signal" \in Outstanding(d)
      /\ c \in Completion /\ c \in Queued(session) /\ c.op = "eof"
      /\ c.op \in Outstanding(session)
      /\ Free(d, ReceiveLane) /\ ~d.is_receive_complete
      /\ "start" \notin Outstanding(d)
      /\ d.is_send_complete \/ ~Free(d, SendLane)
      /\ SameData(d, session)
  BY <1>1, DispatchControl DEF Dispatches
<1> HIDE DEF c, d
<1>3. /\ c.failure # "operation_aborted"
      /\ \/ d.configuration.direction = "TX"
         \/ d.received >= d.configuration.size
  BY <1>2 DEF ControlInv, CoreInv, AbortedInv, ReceiveSizeInv, SameData
<1>4. /\ CoreInv(r) /\ FailureStops(r) /\ Reports(r, d)
      /\ Outstanding(r) = Outstanding(d)
      /\ \/ r.exit_requested /\ ~r.is_receive_complete
         \/ /\ r.is_receive_complete
            /\ r.exit_requested = d.exit_requested
            /\ r.is_send_complete = d.is_send_complete
  BY <1>2, <1>3, OnEofCore
<1> HIDE DEF r
<1>5. "signal" \in Outstanding(d)
  BY <1>2 DEF CoreInv, CompleteInv
<1>6. r.socket = "closed" <=> r.is_receive_complete /\ r.is_send_complete
  BY <1>4 DEF CoreInv, CompleteInv
<1>7. Handled(r, d)
  BY <1>2, <1>4, <1>6 DEF Handled, Reports
<1>8. ProgressInv(r)
  BY <1>2, <1>4, <1>5 DEF ProgressInv, Free, FailureStops
<1> QED BY <1>4, <1>7, <1>8 DEF r, c, d

\* The handler of a send.
LEMMA SendControl ==
  ASSUME ControlInv, Dispatches("send")
  PROVE  LET r == on_send(dispatch(session), Head(session.ready))
         IN  CoreInv(r) /\ ProgressInv(r) /\ Handled(r, dispatch(session))
<1> DEFINE d == dispatch(session)
           c == Head(session.ready)
           r == on_send(d, c)
<1>1. "send" \in SendLane \ ReceiveLane
  BY DEF ReceiveLane, SendLane
<1>2. /\ CoreInv(d) /\ FailureStops(d) /\ ~d.exit_requested
      /\ d.socket = "closed" \/ "signal" \in Outstanding(d)
      /\ c \in Completion /\ c \in Queued(session) /\ c.op = "send"
      /\ c.op \in Outstanding(session)
      /\ Free(d, SendLane) /\ ~d.is_send_complete
      /\ "start" \notin Outstanding(d)
      /\ d.is_receive_complete \/ ~Free(d, ReceiveLane)
      /\ SameData(d, session)
  BY <1>1, DispatchControl DEF Dispatches
<1> HIDE DEF c, d
<1>3. /\ c.failure \notin {"operation_aborted", "eof"} /\ Len(c.data) <= d.send_slice
      /\ d.sent + d.send_slice <= d.configuration.size
  BY <1>2 DEF ControlInv, CoreInv, AbortedInv, SendSizeInv, SameData
<1>4. /\ CoreInv(r) /\ FailureStops(r) /\ Reports(r, d)
      /\ Outstanding(d) \subseteq Outstanding(r)
      /\ \/ r.exit_requested /\ ~r.is_send_complete
         \/ /\ ~Free(r, SendLane) \/ r.is_send_complete
            /\ r.exit_requested = d.exit_requested
            /\ r.is_receive_complete = d.is_receive_complete
  BY <1>2, <1>3, OnSendCore
<1> HIDE DEF r
<1>5. "signal" \in Outstanding(d)
  BY <1>2 DEF CoreInv, CompleteInv
<1>6. r.socket = "closed" <=> r.is_receive_complete /\ r.is_send_complete
  BY <1>4 DEF CoreInv, CompleteInv
<1>7. Handled(r, d)
  BY <1>2, <1>4, <1>6 DEF Handled, Reports
<1>8. ProgressInv(r)
  BY <1>2, <1>4, <1>5 DEF ProgressInv, Free, FailureStops
<1> QED BY <1>4, <1>7, <1>8 DEF r, c, d

\* The handlers of the timer and of signals: they report, but for those of a closed
\* session, which may have been cancelled.
LEMMA TimeoutControl ==
  ASSUME ControlInv, Dispatches("timeout") \/ Dispatches("signal"),
         NEW r, \/ Dispatches("timeout") /\ r = on_timeout(dispatch(session), Head(session.ready))
                \/ Dispatches("signal") /\ r = on_signal(dispatch(session), Head(session.ready))
  PROVE  /\ CoreInv(r) /\ ProgressInv(r)
         /\ \/ r = dispatch(session) /\ session.socket = "closed"
            \/ \E f \in Interruptions : r = abort(dispatch(session), f)
<1> DEFINE d == dispatch(session)
           c == Head(session.ready)
<1>1. {"timeout", "signal"} \cap (ReceiveLane \cup SendLane) = {}
  BY DEF ReceiveLane, SendLane
<1>2. /\ CoreInv(d) /\ FailureStops(d) /\ d.socket = session.socket
      /\ c \in Queued(session) /\ c.op \in {"timeout", "signal"}
      /\ d.is_receive_complete \/ ~Free(d, ReceiveLane)
      /\ d.is_send_complete \/ ~Free(d, SendLane)
  BY <1>1, DispatchControl DEF Dispatches
<1>3. Interruptions \subseteq Reported
  BY DEF Interruptions, Reported, ErrorCode, Error
<1>4. c.failure = "success" \/ session.socket = "closed"
  BY <1>2 DEF ControlInv, CoreInv, AbortedInv
<1>5. \/ r = d /\ session.socket = "closed"
      \/ \E f \in Interruptions : r = abort(d, f)
  BY <1>4 DEF on_timeout, on_signal, Interruptions
<1> HIDE DEF d, c
<1>6. CASE r = d /\ session.socket = "closed"
  BY <1>2, <1>6 DEF ProgressInv, FailureStops, d
<1>7. CASE \E f \in Interruptions : r = abort(d, f)
  BY <1>2, <1>3, <1>7, AbortControl DEF d
<1> QED BY <1>5, <1>6, <1>7

\* Every handler keeps the invariant.
LEMMA HandleControl ==
  ASSUME ControlInv, Handle
  PROVE  ControlInv'
<1>1. CoreInv(session') /\ ProgressInv(session')
  <2>1. CASE HandleStart BY <2>1, StartControl DEF HandleStart
  <2>2. CASE HandleConnect BY <2>2, ConnectControl DEF HandleConnect
  <2>3. CASE HandleReceiveThrottle
    BY <2>3, ReceiveThrottleControl DEF HandleReceiveThrottle
  <2>4. CASE HandleReceive BY <2>4, ReceiveControl DEF HandleReceive
  <2>5. CASE HandleEof BY <2>5, EofControl DEF HandleEof
  <2>6. CASE HandleSendThrottle
    BY <2>6, SendThrottleControl DEF HandleSendThrottle
  <2>7. CASE HandleSend BY <2>7, SendControl DEF HandleSend
  <2>8. CASE HandleTimeout BY <2>8, TimeoutControl DEF HandleTimeout
  <2>9. CASE HandleSignal BY <2>9, TimeoutControl DEF HandleSignal
  <2> QED BY <2>1, <2>2, <2>3, <2>4, <2>5, <2>6, <2>7, <2>8, <2>9 DEF Handle
<1>2. UNCHANGED <<inbound, outbound, peer>>
  BY DEF Handle, HandleStart, HandleConnect, HandleReceiveThrottle, HandleReceive,
         HandleEof, HandleSendThrottle, HandleSend, HandleTimeout, HandleSignal
<1> QED BY <1>1, <1>2 DEF ControlInv, TypeOK, CoreInv

\* The peer and the other sessions keep the invariant.
LEMMA EnvironmentControl ==
  ASSUME ControlInv, Environment
  PROVE  ControlInv'
<1>1. CASE ExitRequestedElsewhere
  <2>1. session \in SessionState
    BY DEF ControlInv, TypeOK
  <2>2. /\ session' \in SessionState /\ SameQueue(session, session')
        /\ SameData(session', session) /\ session'.socket = session.socket
        /\ session'.is_receive_complete = session.is_receive_complete
        /\ session'.is_send_complete = session.is_send_complete
        /\ session'.failure = session.failure /\ session'.exit_requested
    BY <1>1, <2>1 DEF ExitRequestedElsewhere, SessionState, SameQueue, SameData
  <2>3. Base(session') /\ Outstanding(session') = Outstanding(session)
        /\ Queued(session') = Queued(session)
    BY <2>2, CoreBase, FrameBase DEF ControlInv
  <2>4. Rest(session')
    BY <2>2, <2>3 DEF ControlInv, CoreInv, Rest, AbortedInv, CompleteInv,
          ReceiveSizeInv, SendSizeInv, SameData, SameQueue, Free
  <2>5. CoreInv(session') /\ ProgressInv(session')
    BY <2>2, <2>3, <2>4, CoreSplit DEF ProgressInv
  <2> QED BY <1>1, <2>2, <2>5 DEF ControlInv, TypeOK, ExitRequestedElsewhere
<1>2. ASSUME NEW byte \in Byte, PeerSends(byte) PROVE ControlInv'
  <2>1. inbound' \in Seq(Byte)
    BY <1>2 DEF PeerSends, ControlInv, TypeOK
  <2>2. peer' \in [sent : Nat, corrupted : SUBSET Nat, end : {"open", "fin", "reset"}]
    <3>1. peer.sent + 1 \in Nat /\ peer.corrupted \cup {peer.sent} \in SUBSET Nat
      BY DEF ControlInv, TypeOK
    <3> QED BY <1>2, <3>1 DEF PeerSends, ControlInv, TypeOK
  <2> QED BY <1>2, <2>1, <2>2 DEF PeerSends, ControlInv, TypeOK
<1>3. CASE PeerShutsDown \/ PeerResets
  <2>1. peer' \in [sent : Nat, corrupted : SUBSET Nat, end : {"open", "fin", "reset"}]
    BY <1>3 DEF PeerShutsDown, PeerResets, ControlInv, TypeOK
  <2> QED BY <1>3, <2>1 DEF PeerShutsDown, PeerResets, ControlInv, TypeOK
<1>4. CASE PeerReads
  <2>1. outbound' \in Seq(Byte)
    BY <1>4 DEF PeerReads, ControlInv, TypeOK
  <2> QED BY <1>4, <2>1 DEF PeerReads, ControlInv, TypeOK
<1> QED BY <1>1, <1>2, <1>3, <1>4 DEF Environment

\* Every step keeps the invariant.
LEMMA ControlStep ==
  ASSUME ControlInv, [Next]_vars
  PROVE  ControlInv'
<1>1. CASE Next
  BY <1>1, CompleteControl, HandleControl, EnvironmentControl DEF Next
<1>2. CASE UNCHANGED vars
  BY <1>2 DEF vars, ControlInv, TypeOK
<1> QED BY <1>1, <1>2

\* The inductive invariant: the control of a session, whatever its peer does.
THEOREM ControlInvariant == Spec => []ControlInv
BY InitControl, ControlStep, PTL DEF Spec

\* Every variable keeps its type; slice_remaining_size - bytes_transferred in
\* Session.cpp:173,246 and size - sent in TcpSession.cpp:125 never wrap around.
THEOREM TypeCorrect == Spec => []TypeOK
<1>1. ControlInv => TypeOK
  BY DEF ControlInv
<1> QED BY <1>1, ControlInvariant, PTL

\* Each HandlerMemory, and each buffer, serves one outstanding operation at most
\* (HandlerAllocator.hpp:43), for every configuration, peer and schedule.
THEOREM ExclusiveHandlerMemory == Spec => []HandlerMemoryExclusive
<1>1. ControlInv => HandlerMemoryExclusive
  BY DEF ControlInv, CoreInv, MemoryInv, LaneInv, HandlerMemoryExclusive
<1> QED BY <1>1, ControlInvariant, PTL

\* No session fails with operation_aborted, because on_finish cancels none of its
\* operations on the socket (Session.cpp:278-284).
THEOREM NoSelfAbort == Spec => []NeverAbortsItself
<1>1. ControlInv => NeverAbortsItself
  BY DEF ControlInv, CoreInv, AbortedInv, NeverAbortsItself
<1> QED BY <1>1, ControlInvariant, PTL

\* After on_finish nothing keeps the io_service of the session alive: its timer
\* has been started and is cancelled (TcpSession.hpp:50-51, Session.cpp:278-284).
THEOREM NothingLeft == Spec => []FinishedLeavesNothing
<1>1. ASSUME ControlInv, session.socket = "closed"
      PROVE  session.waiting = {}
             /\ \A c \in Queued(session) : c.op \in {"signal", "timeout"}
  <2>1. /\ session.waiting = {} /\ "start" \notin Outstanding(session)
        /\ Free(session, ReceiveLane) /\ Free(session, SendLane)
    BY <1>1 DEF ControlInv, CoreInv, CompleteInv
  <2>2. Outstanding(session) \subseteq Operation
    BY <1>1, OutstandingType DEF ControlInv, TypeOK
  <2>3. Outstanding(session) \subseteq {"signal", "timeout"}
    BY <2>1, <2>2 DEF Free, ReceiveLane, SendLane, Operation, SocketOps, ThrottleOps
  <2> QED BY <2>1, <2>3 DEF Outstanding
<1>2. ControlInv => FinishedLeavesNothing
  BY <1>1 DEF FinishedLeavesNothing
<1> QED BY <1>2, ControlInvariant, PTL

\* A session that runs out of work without a failure has sent and received all it
\* was to (Session.cpp:174-177,247-250).
THEOREM SuccessTransfers == Spec => []SuccessMeansTransferred
<1>1. ASSUME ControlInv, stopped(session), Running
      PROVE  /\ session.failure = "success"
             /\ session.socket = "closed"
             /\ session.configuration.direction # "RX" =>
                    session.sent = session.configuration.size
             /\ session.configuration.direction # "TX" =>
                    session.received >= session.configuration.size
  <2>1. Outstanding(session) = {}
    BY <1>1 DEF stopped, Outstanding, Queued
  <2>2. /\ session.failure = "success"
        /\ session.is_receive_complete /\ session.is_send_complete
    BY <1>1, <2>1 DEF ControlInv, ProgressInv, Running, Free
  <2> QED BY <1>1, <2>2 DEF ControlInv, CoreInv, CompleteInv, ReceiveSizeInv, SendSizeInv
<1>2. ControlInv => SuccessMeansTransferred
  BY <1>1 DEF SuccessMeansTransferred
<1> QED BY <1>2, ControlInvariant, PTL

\* The first failure is the one reported: Thread::run dispatches nothing after the
\* exit is requested (Application.cpp:93).
THEOREM FinalFailure == Spec => FailureIsFinal
<1>1. ASSUME ControlInv, [Next]_vars, session.failure # "success"
      PROVE  session'.failure = session.failure
  <2>1. ~Running
    BY <1>1 DEF ControlInv, ProgressInv, Running
  <2>2. ~Handle
    BY <2>1 DEF Handle, HandleStart, HandleConnect, HandleReceiveThrottle, HandleReceive,
         HandleEof, HandleSendThrottle, HandleSend, HandleTimeout, HandleSignal, Dispatches
  <2>3. ~Complete
    BY <2>1 DEF Complete, ConnectSucceeds, ConnectFails, ReceivesData, ReceiveFails,
         SendsData, SendFails, TimerExpires, SignalArrives, Waits
  <2>4. CASE Environment
    BY <2>1, <2>4 DEF Environment, PeerSends, PeerShutsDown, PeerResets, PeerReads,
         ExitRequestedElsewhere
  <2> QED BY <1>1, <2>2, <2>3, <2>4 DEF Next, vars
<1>2. ControlInv /\ [Next]_vars =>
        [session.failure # "success" => session'.failure = session.failure]_vars
  BY <1>1
<1> QED BY <1>2, ControlInvariant, PTL DEF Spec, FailureIsFinal

-----------------------------------------------------------------------------
(* 2. The bytes.                                                           *)
(* What the methods of a TCP session leave alone.                          *)

\* TcpSocket::shutdown_send.
LEMMA KeepsShutdown ==
  ASSUME NEW st \in SessionState
  PROVE  Keeps(shutdown_send(st), st)
BY KeepsSocket, KeepsNothing DEF shutdown_send

\* async_receive.
LEMMA KeepsAsyncReceive ==
  ASSUME NEW st \in SessionState, NEW slice \in Nat
  PROVE  Keeps(async_receive(st, slice), st)
BY KeepsReceiving DEF async_receive

\* async_send.
LEMMA KeepsAsyncSend ==
  ASSUME NEW st \in SessionState, NEW slice \in Nat, st.sent <= st.configuration.size
  PROVE  Keeps(async_send(st, slice), st)
BY KeepsSending DEF async_send

\* TcpSession::finish_receive,
LEMMA KeepsFinishReceive ==
  ASSUME NEW st \in SessionState
  PROVE  Keeps(finish_receive(st), st)
<1> DEFINE s == IF st.configuration.shutdown_policy = "RECEIVE_COMPLETE"
                THEN shutdown_send(st) ELSE st
<1>1. "eof" \in Operation \ {"connect"}
  BY DEF Operation, SocketOps
<1>2. Keeps(s, st) /\ s \in SessionState
  BY KeepsShutdown, KeepsNothing DEF Keeps
<1>3. finish_receive(st) = begin(s, "eof")
  BY DEF finish_receive
<1> HIDE DEF s
<1> QED BY <1>1, <1>2, <1>3, KeepsBegin, KeepsTransitive

\* and finish_send.
LEMMA KeepsFinishSend ==
  ASSUME NEW st \in SessionState
  PROVE  Keeps(finish_send(st), st)
<1> DEFINE s == IF st.configuration.shutdown_policy = "SEND_COMPLETE"
                THEN shutdown_send(st) ELSE st
<1>1. Keeps(s, st) /\ s \in SessionState
  BY KeepsShutdown, KeepsNothing DEF Keeps
<1>2. finish_send(st) = on_send_complete(s)
  BY DEF finish_send
<1> HIDE DEF s
<1> QED BY <1>1, <1>2, KeepsSendComplete, KeepsTransitive

-----------------------------------------------------------------------------
(* What the handler of a completion does to the data of the session.       *)

\* Bytes that a handler adds to a counter.
Added(c, op) == IF c.op = op THEN Len(c.data) ELSE 0

\* The receive whose bytes differ from the pattern where they are compared with it.
Mismatches(c) ==
    /\ c.op = "receive" /\ c.failure = "success"
    /\ \E i \in Checked(session, c.data) : c.data[i] # Pattern(session.received + i - 1)

Effect(r, c) ==
    /\ r \in SessionState
    /\ r.configuration = session.configuration
    /\ r.received = session.received + Added(c, "receive")
    /\ r.sent = session.sent + Added(c, "send")
    /\ Queued(session) \ {c} \subseteq Queued(r)
    /\ \A e \in Queued(r) \ (Queued(session) \ {c}) : e.failure = "operation_aborted"
    /\ "connect" \in r.waiting => "connect" \in session.waiting
    /\ Later(r, session)
    /\ r.failure = "data_mismatch" <=> Mismatches(c)
    /\ MayReport(r.failure, c)
    /\ c.op = "eof" /\ c.failure = "success" => r.exit_requested
    /\ r.is_receive_complete =>
            \/ session.is_receive_complete
            \/ c.op = "eof" /\ c.failure = "eof"

\* The rest of the handler keeps it.
LEMMA EffectKept ==
  ASSUME NEW m, NEW c, Effect(m, c), NEW r, Keeps(r, m)
  PROVE  Effect(r, c)
<1>1. Later(r, session)
  BY DEF Effect, Keeps, Later
<1>2. /\ Queued(session) \ {c} \subseteq Queued(r)
      /\ \A e \in Queued(r) \ (Queued(session) \ {c}) : e.failure = "operation_aborted"
      /\ "connect" \in r.waiting => "connect" \in session.waiting
  BY DEF Effect, Keeps, Extends
<1> QED BY <1>1, <1>2 DEF Effect, Keeps

\* The dequeued handler, before it is called.
LEMMA DispatchData ==
  ASSUME ControlInv, Running, session.ready # <<>>
  PROVE  LET c == Head(session.ready)
             d == dispatch(session)
         IN  /\ d \in SessionState /\ c \in Completion /\ c \in Queued(session)
             /\ Queued(d) = Queued(session) \ {c}
             /\ d.waiting = session.waiting /\ d.socket = session.socket
             /\ d.configuration = session.configuration
             /\ d.received = session.received /\ d.sent = session.sent
             /\ d.receive_slice = session.receive_slice
             /\ d.send_slice = session.send_slice
             /\ d.is_receive_complete = session.is_receive_complete
             /\ d.failure = "success" /\ ~d.exit_requested
<1>1. session.failure = "success"
  BY DEF ControlInv, ProgressInv, Running
<1>2. Base(session)
  BY CoreBase DEF ControlInv
<1> QED BY <1>1, <1>2, DispatchBase DEF Base, Consistent, SameData, SameOutcome, Running

\* Fields of the session that a handler changes itself.
LEMMA EffectOfFields ==
  ASSUME ControlInv, Running, session.ready # <<>>, NEW m \in SessionState,
         SameQueue(m, dispatch(session)),
         m.socket = session.socket,
         m.configuration = session.configuration,
         m.received = session.received + Added(Head(session.ready), "receive"),
         m.sent = session.sent + Added(Head(session.ready), "send"),
         m.failure = "data_mismatch" <=> Mismatches(Head(session.ready)),
         MayReport(m.failure, Head(session.ready)),
         Head(session.ready).op = "eof" /\ Head(session.ready).failure = "success" =>
            m.exit_requested,
         m.is_receive_complete =>
            \/ session.is_receive_complete
            \/ Head(session.ready).op = "eof" /\ Head(session.ready).failure = "eof"
  PROVE  Effect(m, Head(session.ready))
<1> DEFINE c == Head(session.ready)
           d == dispatch(session)
<1>1. Queued(d) = Queued(session) \ {c} /\ d.waiting = session.waiting
  BY DispatchData
<1>2. Queued(m) = Queued(d) /\ m.waiting = d.waiting
  BY DEF SameQueue, Queued
<1> HIDE DEF c, d
<1>3. Later(m, session)
  BY DEF Later
<1> QED BY <1>1, <1>2, <1>3 DEF Effect, c, d

\* A handler that does nothing with the bytes,
LEMMA EffectOfDispatch ==
  ASSUME ControlInv, Running, session.ready # <<>>,
         Head(session.ready).op \notin {"receive", "eof", "send"}
  PROVE  Effect(dispatch(session), Head(session.ready))
<1> DEFINE c == Head(session.ready)
           d == dispatch(session)
<1>1. /\ d \in SessionState /\ SameQueue(d, d) /\ d.socket = session.socket
      /\ d.configuration = session.configuration
      /\ d.received = session.received /\ d.sent = session.sent
      /\ d.is_receive_complete = session.is_receive_complete
      /\ d.failure = "success"
      /\ session.received \in Nat /\ session.sent \in Nat
  BY DispatchData DEF SameQueue, ControlInv, TypeOK, SessionState
<1>2. Added(c, "receive") = 0 /\ Added(c, "send") = 0 /\ ~Mismatches(c)
  BY DEF Added, Mismatches
<1> HIDE DEF c, d
<1>3. MayReport(d.failure, c)
  BY <1>1 DEF MayReport
<1> QED BY <1>1, <1>2, <1>3, EffectOfFields DEF c, d

\* or that fails.
LEMMA EffectOfAbort ==
  ASSUME ControlInv, ResultInv, Running, session.ready # <<>>,
         NEW f \in ErrorCode \ {"data_mismatch"}, MayReport(f, Head(session.ready)),
         Head(session.ready).op \in {"receive", "send"} =>
            Head(session.ready).failure # "success"
  PROVE  Effect(abort(dispatch(session), f), Head(session.ready))
<1> DEFINE c == Head(session.ready)
           d == dispatch(session)
           m == abort(d, f)
<1>1. /\ d \in SessionState /\ d.socket = session.socket /\ c \in Queued(session)
      /\ d.configuration = session.configuration
      /\ d.received = session.received /\ d.sent = session.sent
      /\ d.is_receive_complete = session.is_receive_complete
      /\ session.received \in Nat /\ session.sent \in Nat
  BY DispatchData DEF ControlInv, TypeOK, SessionState
<1>2. Added(c, "receive") = 0 /\ Added(c, "send") = 0 /\ ~Mismatches(c)
  <2>1. c.op \in {"receive", "send"} => c.data = <<>>
    BY <1>1 DEF ResultInv
  <2> QED BY <2>1 DEF Added, Mismatches
<1> HIDE DEF c, d
<1>3. /\ m \in SessionState /\ SameQueue(m, d) /\ m.socket = d.socket
      /\ m.configuration = d.configuration
      /\ m.received = d.received /\ m.sent = d.sent
      /\ m.is_receive_complete = d.is_receive_complete
      /\ m.failure = f /\ m.exit_requested
  BY <1>1 DEF abort, SessionState, SameQueue
<1> HIDE DEF m
<1> QED BY <1>1, <1>2, <1>3, EffectOfFields DEF c, d, m

-----------------------------------------------------------------------------
(* The handlers.                                                           *)

\* Those of the start, of the connection and of the throttles.
LEMMA EffectOfStarting ==
  ASSUME ControlInv, Running, session.ready # <<>>,
         NEW r,
         LET c == Head(session.ready)
             d == dispatch(session)
         IN  \/ c.op = "start" /\ r = start_timer(d)
             \/ c.op = "connect" /\ r = start_transfer(d)
             \/ c.op = "receive_throttle" /\ r = on_receive_slice(d, c)
             \/ c.op = "send_throttle" /\ r = on_send_slice(d, c)
  PROVE  Effect(r, Head(session.ready))
<1> DEFINE c == Head(session.ready)
           d == dispatch(session)
<1>1. /\ d \in SessionState /\ d.sent <= d.configuration.size
      /\ d.configuration.receive_slice \in Nat /\ d.configuration.send_slice \in Nat
  BY DispatchData DEF ControlInv, CoreInv, SendSizeInv, SessionState, SessionConfiguration
<1>2. "timeout" \in Operation \ {"connect"} /\ 0 \in Nat
  BY DEF Operation
<1>3. c.op \notin {"receive", "eof", "send"} => Effect(d, c)
  BY EffectOfDispatch
<1>4. \/ c.op = "start" /\ r = start_timer(d)
      \/ c.op = "connect" /\ r = start_transfer(d)
      \/ c.op = "receive_throttle" /\ r = on_receive_slice(d, c)
      \/ c.op = "send_throttle" /\ r = on_send_slice(d, c)
  OBVIOUS
<1> HIDE DEF c, d
<1>5. Keeps(d, d)
  BY <1>1, KeepsNothing
<1>6. CASE c.op = "start" /\ r = start_timer(d)
  BY <1>1, <1>2, <1>3, <1>6, KeepsBegin, EffectKept DEF start_timer, c
<1>7. CASE c.op = "connect" /\ r = start_transfer(d)
  <2> DEFINE s == start_receiving(d)
  <2>1. Keeps(s, d)
    BY <1>1, <1>2, KeepsFinishReceive, KeepsAsyncReceive DEF start_receiving
  <2> HIDE DEF s
  <2>2. s \in SessionState /\ s.sent <= s.configuration.size
    BY <1>1, <2>1 DEF Keeps
  <2>3. Keeps(start_sending(s), s)
    BY <1>2, <2>2, KeepsFinishSend, KeepsAsyncSend DEF start_sending
  <2>4. Keeps(start_sending(s), d)
    BY <2>1, <2>3, KeepsTransitive
  <2> QED BY <1>3, <1>7, <2>4, EffectKept DEF start_transfer, s, c
<1>8. CASE c.op = "receive_throttle" /\ r = on_receive_slice(d, c)
  <2>1. Keeps(r, d)
    BY <1>1, <1>5, <1>8, KeepsAsyncReceive DEF on_receive_slice
  <2> QED BY <1>3, <1>8, <2>1, EffectKept DEF c
<1>9. CASE c.op = "send_throttle" /\ r = on_send_slice(d, c)
  <2>1. Keeps(r, d)
    BY <1>1, <1>5, <1>9, KeepsAsyncSend DEF on_send_slice
  <2> QED BY <1>3, <1>9, <2>1, EffectKept DEF c
<1> QED BY <1>4, <1>6, <1>7, <1>8, <1>9

\* That of a receive, which verifies what it counts.
LEMMA EffectOfReceive ==
  ASSUME ControlInv, ResultInv, Running, session.ready # <<>>,
         Head(session.ready).op = "receive"
  PROVE  Effect(on_receive(dispatch(session), Head(session.ready)), Head(session.ready))
<1> DEFINE c == Head(session.ready)
           d == dispatch(session)
           v == verify(d, c.data)
           m == received(v, c.data)
<1>1. /\ d \in SessionState /\ d.socket = session.socket /\ c \in Queued(session)
      /\ c \in Completion
      /\ d.configuration = session.configuration
      /\ d.received = session.received /\ d.sent = session.sent
      /\ d.receive_slice = session.receive_slice
      /\ d.is_receive_complete = session.is_receive_complete
      /\ d.failure = "success"
      /\ session.received \in Nat /\ session.sent \in Nat
  BY DispatchData DEF ControlInv, TypeOK, SessionState
<1>2. /\ c.failure \in ErrorCode \ {"operation_aborted", "data_mismatch"}
      /\ c.op = "receive"
      /\ Len(c.data) <= d.receive_slice
      /\ Len(c.data) \in Nat /\ d.receive_slice \in Nat
  <2>1. c.failure \in SystemError \cup {"success"} /\ c.failure # "operation_aborted"
    BY <1>1 DEF ControlInv, CoreInv, AbortedInv, ResultInv
  <2>2. Len(c.data) <= d.receive_slice
    BY <1>1 DEF ControlInv, CoreInv, ReceiveSizeInv
  <2>3. Len(c.data) \in Nat /\ d.receive_slice \in Nat
    BY <1>1 DEF Completion, SessionState
  <2>4. SystemError \cup {"success"} \subseteq ErrorCode \ {"data_mismatch"}
    BY DEF ErrorCode, Error, SystemError
  <2> HIDE DEF c, d
  <2> QED BY <2>1, <2>2, <2>3, <2>4 DEF c
<1>3. CASE c.failure # "success"
  <2>1. \E f \in ErrorCode \ {"data_mismatch"} :
            on_receive(d, c) = abort(d, f) /\ MayReport(f, c)
    <3>1. "unexpected_eof" \in ErrorCode \ {"data_mismatch"}
      BY DEF ErrorCode, Error
    <3>2. on_receive(d, c) = abort(d, IF c.failure = "eof" THEN "unexpected_eof"
                                      ELSE c.failure)
      BY <1>2, <1>3 DEF on_receive
    <3> QED BY <1>2, <3>1, <3>2 DEF MayReport, Reason
  <2>2. PICK f \in ErrorCode \ {"data_mismatch"} :
            on_receive(d, c) = abort(d, f) /\ MayReport(f, c)
    BY <2>1
  <2> QED BY <1>2, <1>3, <2>2, EffectOfAbort
<1>4. CASE c.failure = "success"
  <2>1. Checked(d, c.data) = Checked(session, c.data)
    BY <1>1 DEF Checked
  <2>2. v = IF Mismatches(c) THEN abort(d, "data_mismatch") ELSE d
    BY <1>1, <1>2, <1>4, <2>1 DEF verify, Mismatches
  <2> HIDE DEF c, d
  <2>3. /\ v \in SessionState /\ SameQueue(v, d) /\ v.socket = d.socket
        /\ v.configuration = d.configuration
        /\ v.received = d.received /\ v.sent = d.sent
        /\ v.is_receive_complete = d.is_receive_complete
        /\ v.failure = "data_mismatch" <=> Mismatches(c)
        /\ v.failure \in {"success", "data_mismatch"}
    <3>1. "data_mismatch" \in ErrorCode
      BY DEF ErrorCode, Error
    <3>2. CASE Mismatches(c)
      <4>1. v = abort(d, "data_mismatch")
        BY <2>2, <3>2
      <4> QED BY <1>1, <3>1, <3>2, <4>1 DEF abort, SessionState, SameQueue
    <3>3. CASE ~Mismatches(c)
      <4>1. v = d
        BY <2>2, <3>3
      <4> QED BY <1>1, <3>3, <4>1 DEF SameQueue
    <3> QED BY <3>2, <3>3
  <2> HIDE DEF v
  <2>4. /\ m \in SessionState /\ SameQueue(m, v) /\ m.socket = v.socket
        /\ m.configuration = v.configuration
        /\ m.received = v.received + Len(c.data) /\ m.sent = v.sent
        /\ m.is_receive_complete = v.is_receive_complete
        /\ m.failure = v.failure
    <3>1. v.received + Len(c.data) \in Nat
      BY <1>1, <1>2, <2>3
    <3>2. m = [v EXCEPT !.received = v.received + Len(c.data)] /\ v \in SessionState
      BY <2>3 DEF received
    <3> HIDE DEF m
    <3> QED BY <3>1, <3>2 DEF SessionState, SameQueue
  <2>5. on_receive(d, c) =
            IF m.received < d.configuration.size
            THEN async_receive(m, d.receive_slice - Len(c.data))
            ELSE finish_receive(m)
    BY <1>4 DEF on_receive, m, v
  <2> HIDE DEF m
  <2>6. Effect(m, c)
    <3>1. Added(c, "receive") = Len(c.data) /\ Added(c, "send") = 0
      BY <1>2 DEF Added
    <3>2. /\ SameQueue(m, d) /\ m.socket = session.socket
          /\ m.configuration = session.configuration
          /\ m.received = session.received + Added(c, "receive")
          /\ m.sent = session.sent + Added(c, "send")
          /\ m.is_receive_complete = session.is_receive_complete
          /\ m.failure = "data_mismatch" <=> Mismatches(c)
      BY <1>1, <2>3, <2>4, <3>1 DEF SameQueue
    <3>3. MayReport(m.failure, c)
      BY <2>3, <2>4 DEF MayReport
    <3> QED BY <1>2, <2>4, <3>2, <3>3, EffectOfFields DEF c, d
  <2>7. d.receive_slice - Len(c.data) \in Nat
    BY <1>2
  <2>8. Keeps(on_receive(d, c), m)
    BY <2>4, <2>5, <2>7, KeepsAsyncReceive, KeepsFinishReceive
  <2> QED BY <2>6, <2>8, EffectKept DEF c, d
<1> QED BY <1>3, <1>4

\* That of the receive that awaits the end of the stream.
LEMMA EffectOfEof ==
  ASSUME ControlInv, ResultInv, Running, session.ready # <<>>,
         Head(session.ready).op = "eof"
  PROVE  Effect(on_eof(dispatch(session), Head(session.ready)), Head(session.ready))
<1> DEFINE c == Head(session.ready)
           d == dispatch(session)
           a == IF d.configuration.shutdown_policy = "WAIT_FOR_PEER"
                THEN shutdown_send(d) ELSE d
           m == [d EXCEPT !.is_receive_complete = TRUE]
           n == [a EXCEPT !.is_receive_complete = TRUE]
<1>1. /\ d \in SessionState /\ d.socket = session.socket /\ c \in Queued(session)
      /\ d.configuration = session.configuration
      /\ d.received = session.received /\ d.sent = session.sent
      /\ d.is_receive_complete = session.is_receive_complete
      /\ d.failure = "success"
      /\ session.received \in Nat /\ session.sent \in Nat
  BY DispatchData DEF ControlInv, TypeOK, SessionState
<1>2. /\ c.failure \in SystemError \cup {"success"}
      /\ c.op = "eof"
  BY <1>1 DEF ResultInv
<1>3. /\ SystemError \cup {"unexpected_data"} \subseteq ErrorCode \ {"data_mismatch"}
      /\ "success" \notin SystemError
  BY DEF ErrorCode, Error, SystemError
<1>4. CASE c.failure # "eof"
  <2> DEFINE f == IF c.failure = "success" THEN "unexpected_data" ELSE c.failure
  <2>1. on_eof(d, c) = abort(a, f)
    BY <1>4 DEF on_eof
  <2>2. f \in ErrorCode \ {"data_mismatch"} /\ MayReport(f, c)
    BY <1>2, <1>3 DEF MayReport, Reason
  <2> HIDE DEF f
  <2>3. Effect(abort(d, f), c)
    BY <1>2, <2>2, EffectOfAbort
  <2> HIDE DEF c, d
  <2>4. Keeps(abort(a, f), abort(d, f))
    <3>1. CASE a = d
      <4>1. abort(d, f) \in SessionState
        BY <1>1, <2>2 DEF abort, SessionState
      <4> HIDE DEF a
      <4> QED BY <3>1, <4>1, KeepsNothing
    <3>2. CASE a # d
      <4>1. a = [d EXCEPT !.socket = "shutdown"] /\ d.socket = "connected"
        BY <3>2 DEF shutdown_send
      <4> HIDE DEF a
      <4>2. /\ abort(a, f) = [abort(d, f) EXCEPT !.socket = "shutdown"]
            /\ abort(d, f) \in SessionState /\ abort(d, f).socket = "connected"
        BY <1>1, <2>2, <4>1 DEF abort, SessionState
      <4> QED BY <4>2, KeepsSocket
    <3> QED BY <3>1, <3>2
  <2> QED BY <2>1, <2>3, <2>4, EffectKept DEF c, d
<1>5. CASE c.failure = "eof"
  <2>1. on_eof(d, c) = on_receive_complete(a)
    BY <1>5 DEF on_eof
  <2>2. Added(c, "receive") = 0 /\ Added(c, "send") = 0 /\ ~Mismatches(c)
    BY <1>2 DEF Added, Mismatches
  <2> HIDE DEF c, d
  <2>3. /\ m \in SessionState /\ SameQueue(m, d) /\ m.socket = d.socket
        /\ m.configuration = d.configuration
        /\ m.received = d.received /\ m.sent = d.sent
        /\ m.failure = d.failure
    BY <1>1 DEF SessionState, SameQueue
  <2> HIDE DEF m
  <2>4. Effect(m, c)
    <3>1. /\ m.socket = session.socket
          /\ m.configuration = session.configuration
          /\ m.received = session.received + Added(c, "receive")
          /\ m.sent = session.sent + Added(c, "send")
          /\ m.failure = "data_mismatch" <=> Mismatches(c)
          /\ MayReport(m.failure, c)
      BY <1>1, <2>2, <2>3 DEF MayReport
    <3> QED BY <1>2, <1>5, <2>3, <3>1, EffectOfFields DEF c, d
  <2>5. Keeps(n, m) /\ a \in SessionState
    <3>1. CASE a = d
      BY <1>1, <2>3, <3>1, KeepsNothing DEF m
    <3>2. CASE a # d
      <4>1. a = [d EXCEPT !.socket = "shutdown"] /\ d.socket = "connected"
        BY <3>2 DEF shutdown_send
      <4> HIDE DEF a
      <4>2. a \in SessionState /\ n = [m EXCEPT !.socket = "shutdown"]
        BY <1>1, <4>1 DEF SessionState, m
      <4> QED BY <1>1, <2>3, <4>1, <4>2, KeepsSocket
    <3> QED BY <3>1, <3>2
  <2> HIDE DEF a
  <2>6. Keeps(on_receive_complete(a), n)
    BY <2>5, KeepsReceiveComplete
  <2> HIDE DEF n
  <2> QED BY <2>1, <2>4, <2>5, <2>6, KeepsTransitive, EffectKept DEF c, d
<1> QED BY <1>4, <1>5

\* That of a send.
LEMMA EffectOfSend ==
  ASSUME ControlInv, ResultInv, Running, session.ready # <<>>,
         Head(session.ready).op = "send"
  PROVE  Effect(on_send(dispatch(session), Head(session.ready)), Head(session.ready))
<1> DEFINE c == Head(session.ready)
           d == dispatch(session)
           m == sent(d, c.data)
<1>1. /\ d \in SessionState /\ d.socket = session.socket /\ c \in Queued(session)
      /\ c \in Completion /\ c.op \in Outstanding(session)
      /\ d.configuration = session.configuration
      /\ d.received = session.received /\ d.sent = session.sent
      /\ d.send_slice = session.send_slice
      /\ d.is_receive_complete = session.is_receive_complete
      /\ d.failure = "success"
      /\ session.received \in Nat /\ session.sent \in Nat
      /\ d.configuration.size \in Nat
  BY DispatchData DEF ControlInv, TypeOK, SessionState, SessionConfiguration, Outstanding
<1>2. /\ c.failure \in ErrorCode \ {"operation_aborted", "data_mismatch"}
      /\ c.op = "send"
      /\ Len(c.data) <= d.send_slice
      /\ Len(c.data) \in Nat /\ d.send_slice \in Nat
  <2>1. c.failure \in SystemError \cup {"success"} /\ c.failure # "operation_aborted"
    BY <1>1 DEF ControlInv, CoreInv, AbortedInv, ResultInv
  <2>2. Len(c.data) <= d.send_slice
    BY <1>1 DEF ControlInv, CoreInv, SendSizeInv
  <2>3. Len(c.data) \in Nat /\ d.send_slice \in Nat
    BY <1>1 DEF Completion, SessionState
  <2>4. SystemError \cup {"success"} \subseteq ErrorCode \ {"data_mismatch"}
    BY DEF ErrorCode, Error, SystemError
  <2> HIDE DEF c, d
  <2> QED BY <2>1, <2>2, <2>3, <2>4 DEF c
<1>3. CASE c.failure # "success"
  <2>1. on_send(d, c) = abort(d, c.failure) /\ MayReport(c.failure, c)
    BY <1>2, <1>3 DEF on_send, MayReport, Reason
  <2> QED BY <1>2, <1>3, <2>1, EffectOfAbort
<1>4. CASE c.failure = "success"
  <2>1. on_send(d, c) = IF m.sent < d.configuration.size
                        THEN async_send(m, d.send_slice - Len(c.data))
                        ELSE finish_send(m)
    BY <1>4 DEF on_send
  <2> HIDE DEF c, d
  <2>2. d.sent + Len(c.data) \in Nat
    BY <1>1, <1>2
  <2>3. /\ m \in SessionState /\ SameQueue(m, d) /\ m.socket = d.socket
        /\ m.configuration = d.configuration
        /\ m.received = d.received /\ m.sent = d.sent + Len(c.data)
        /\ m.is_receive_complete = d.is_receive_complete
        /\ m.failure = d.failure
    BY <1>1, <2>2 DEF sent, SessionState, SameQueue
  <2> HIDE DEF m
  <2>4. Effect(m, c)
    <3>1. /\ Added(c, "send") = Len(c.data) /\ Added(c, "receive") = 0
          /\ ~Mismatches(c)
      BY <1>2 DEF Added, Mismatches
    <3>2. /\ m.socket = session.socket
          /\ m.configuration = session.configuration
          /\ m.received = session.received + Added(c, "receive")
          /\ m.sent = session.sent + Added(c, "send")
          /\ m.is_receive_complete = session.is_receive_complete
          /\ m.failure = "data_mismatch" <=> Mismatches(c)
          /\ MayReport(m.failure, c)
      BY <1>1, <2>3, <3>1 DEF MayReport
    <3> QED BY <1>2, <2>3, <3>2, EffectOfFields DEF c, d
  <2>5. d.send_slice - Len(c.data) \in Nat
    BY <1>2
  <2>6. Keeps(on_send(d, c), m)
    <3>1. CASE m.sent < d.configuration.size
      <4>1. m.sent <= m.configuration.size
        BY <1>1, <1>2, <2>3, <3>1
      <4> QED BY <2>1, <2>3, <2>5, <3>1, <4>1, KeepsAsyncSend
    <3>2. CASE ~(m.sent < d.configuration.size)
      BY <2>1, <2>3, <3>2, KeepsFinishSend
    <3> QED BY <3>1, <3>2
  <2> QED BY <2>4, <2>6, EffectKept DEF c, d
<1> QED BY <1>3, <1>4

\* All handlers.
LEMMA HandleEffect ==
  ASSUME ControlInv, ResultInv, Handle
  PROVE  /\ Running /\ session.ready # <<>>
         /\ Effect(session', Head(session.ready))
         /\ UNCHANGED <<inbound, outbound, peer>>
<1>1. Running /\ session.ready # <<>> /\ UNCHANGED <<inbound, outbound, peer>>
  BY DEF Handle, HandleStart, HandleConnect, HandleReceiveThrottle, HandleReceive,
         HandleEof, HandleSendThrottle, HandleSend, HandleTimeout, HandleSignal, Dispatches
<1>2. CASE HandleStart \/ HandleConnect \/ HandleReceiveThrottle \/ HandleSendThrottle
  BY <1>1, <1>2, EffectOfStarting DEF Dispatches, HandleStart, HandleConnect,
     HandleReceiveThrottle, HandleSendThrottle
<1>3. CASE HandleReceive
  BY <1>1, <1>3, EffectOfReceive DEF Dispatches, HandleReceive
<1>4. CASE HandleEof
  BY <1>1, <1>4, EffectOfEof DEF Dispatches, HandleEof
<1>5. CASE HandleSend
  BY <1>1, <1>5, EffectOfSend DEF Dispatches, HandleSend
<1>6. CASE HandleTimeout
  <2>1. session' \in {dispatch(session), abort(dispatch(session), "test_timeout")}
    BY <1>6 DEF HandleTimeout, on_timeout
  <2>2. Head(session.ready).op = "timeout"
    BY <1>6 DEF HandleTimeout, Dispatches
  <2>3. /\ "test_timeout" \in ErrorCode \ {"data_mismatch"}
        /\ MayReport("test_timeout", Head(session.ready))
    BY <2>2 DEF ErrorCode, Error, MayReport
  <2> QED BY <1>1, <2>1, <2>2, <2>3, EffectOfDispatch, EffectOfAbort
<1>7. CASE HandleSignal
  <2>1. \/ session' = dispatch(session)
        \/ \E f \in Interruptions : session' = abort(dispatch(session), f)
    BY <1>7 DEF HandleSignal, on_signal, Interruptions
  <2>2. Head(session.ready).op = "signal"
    BY <1>7 DEF HandleSignal, Dispatches
  <2>3. /\ Interruptions \subseteq ErrorCode \ {"data_mismatch"}
        /\ \A f \in Interruptions : MayReport(f, Head(session.ready))
    BY <2>2 DEF Interruptions, ErrorCode, Error, MayReport
  <2> QED BY <1>1, <2>1, <2>2, <2>3, EffectOfDispatch, EffectOfAbort
<1> QED BY <1>1, <1>2, <1>3, <1>4, <1>5, <1>6, <1>7 DEF Handle

-----------------------------------------------------------------------------
(* The invariant of the bytes.                                             *)

\* What is in hand after a handler was in hand before it, and is not its completion.
LEMMA InHandKept ==
  ASSUME ControlInv', NEW r, r = session', NEW c, Effect(r, c),
         NEW ops, ops \in SUBSET {"receive", "eof", "send"}
  PROVE  InHand(r, ops) = InHand(session, ops) \ {c}
<1>1. \A e \in Queued(r) : e.failure = "operation_aborted" => e.op \in {"signal", "timeout"}
  BY DEF ControlInv, CoreInv, AbortedInv
<1>2. \A e \in Queued(r) : e.op \in ops => e \in Queued(session) \ {c}
  BY <1>1 DEF Effect
<1>3. Queued(session) \ {c} \subseteq Queued(r)
  BY DEF Effect
<1> QED BY <1>2, <1>3 DEF InHand

\* One completion at a time is in hand in each direction.
LEMMA OneInHand ==
  ASSUME ControlInv, NEW c \in Queued(session)
  PROVE  /\ c.op \in {"receive", "eof"} => InHand(session, {"receive", "eof"}) = {c}
         /\ c.op = "send" => InHand(session, {"send"}) = {c}
<1>1. \A e \in Queued(session) : e.op = c.op => e = c
  BY DEF ControlInv, CoreInv, QueueInv, Queued
<1>2. \A e \in Queued(session) :
        (e.op \in {"receive", "eof"} /\ c.op \in {"receive", "eof"}) => e.op = c.op
  BY DEF ControlInv, CoreInv, LaneInv, ReceiveLane, Outstanding
<1> QED BY <1>1, <1>2 DEF InHand

\* None is while an operation of the direction waits.
LEMMA NoneInHand ==
  ASSUME ControlInv, NEW op \in session.waiting
  PROVE  /\ op \in {"connect", "receive", "eof"} => InHand(session, {"receive", "eof"}) = {}
         /\ op \in {"connect", "send"} => InHand(session, {"send"}) = {}
<1>1. \A e \in Queued(session) : e.op # op /\ e.op \in Outstanding(session)
  BY DEF ControlInv, CoreInv, QueueInv, Queued, Outstanding
<1>2. op \in Outstanding(session)
  BY DEF Outstanding
<1> QED BY <1>1, <1>2 DEF InHand, ControlInv, CoreInv, LaneInv, ReceiveLane, SendLane

\* While a session runs it has not received more than the peer sent.
LEMMA ReceivedOfPeer ==
  ASSUME ControlInv, StreamInv, Running
  PROVE  /\ session.received + Len(inbound) <= peer.sent
         /\ \A c \in InHand(session, {"receive", "eof"}) :
                session.received + Len(c.data) + Len(inbound) = peer.sent
<1>1. /\ session.received \in Nat /\ Len(inbound) \in Nat /\ peer.sent \in Nat
      /\ \A c \in Queued(session) : Len(c.data) \in Nat
  BY OutstandingType DEF ControlInv, TypeOK, SessionState, Completion
<1>2. \A c \in InHand(session, {"receive", "eof"}) :
        session.received + Len(c.data) + Len(inbound) = peer.sent
  BY DEF StreamInv
<1>3. InHand(session, {"receive", "eof"}) = {} =>
        session.received + Len(inbound) = peer.sent
  BY DEF StreamInv
<1> QED BY <1>1, <1>2, <1>3 DEF InHand

\* A handler keeps the invariant of the bytes.
LEMMA HandleData ==
  ASSUME ControlInv, ControlInv', DataInv, Handle
  PROVE  DataInv'
<1> DEFINE c == Head(session.ready)
           hand == InHand(session, {"receive", "eof"})
<1>1. /\ Running /\ session.ready # <<>>
      /\ Effect(session', c)
      /\ UNCHANGED <<inbound, outbound, peer>>
  BY HandleEffect DEF DataInv
<1>2. c \in Queued(session) /\ c \in Completion /\ session.failure = "success"
  BY <1>1, DispatchData DEF ControlInv, ProgressInv, Running
<1> HIDE DEF c, hand
<1>3. /\ session.received \in Nat /\ session.sent \in Nat /\ Len(inbound) \in Nat
      /\ peer.sent \in Nat /\ Len(c.data) \in Nat
      /\ session.configuration \in SessionConfiguration
      /\ session.configuration.size \in Nat
  <2>1. session \in SessionState /\ peer.sent \in Nat /\ inbound \in Seq(Byte)
    BY DEF ControlInv, TypeOK
  <2>2. Len(c.data) \in Nat /\ Len(inbound) \in Nat
    BY <1>2, <2>1 DEF Completion
  <2>3. session.configuration \in SessionConfiguration
    BY <2>1 DEF SessionState
  <2>4. session.configuration.size \in Nat
    BY <2>3 DEF SessionConfiguration
  <2> QED BY <2>1, <2>2, <2>3, <2>4 DEF SessionState
<1>4. \A ops \in SUBSET {"receive", "eof", "send"} :
        InHand(session', ops) = InHand(session, ops) \ {c}
  BY <1>1, InHandKept
<1>5. /\ c.op \in {"receive", "eof"} => hand = {c}
      /\ c.op \notin {"receive", "eof"} => c \notin hand
      /\ c.op = "send" => InHand(session, {"send"}) = {c}
      /\ c.op # "send" => c \notin InHand(session, {"send"})
  BY <1>2, OneInHand DEF hand, InHand
<1>6. /\ session'.configuration = session.configuration
      /\ c.op # "receive" => session'.received = session.received
      /\ c.op # "send" => session'.sent = session.sent
      /\ c.op = "receive" => session'.received = session.received + Len(c.data)
      /\ c.op = "send" => session'.sent = session.sent + Len(c.data)
  BY <1>1, <1>3 DEF Effect, Added
<1>7. c.failure \in SystemError \cup {"success"}
      /\ (c.op \in {"receive", "eof", "send"} => (c.failure = "success" <=> c.data # <<>>))
  BY <1>2 DEF DataInv, ResultInv
<1>8. ResultInv'
  <2>1. SUFFICES ASSUME NEW e \in Queued(session')
                 PROVE  /\ e.failure \in SystemError \cup {"success"}
                        /\ e.op \in {"receive", "eof", "send"} =>
                                (e.failure = "success" <=> e.data # <<>>)
    BY DEF ResultInv
  <2>2. CASE e \in Queued(session)
    BY <2>2 DEF DataInv, ResultInv
  <2>3. CASE e \notin Queued(session)
    <3>1. e.failure = "operation_aborted"
      BY <1>1, <2>1, <2>3 DEF Effect
    <3>2. e.op \in {"signal", "timeout"}
      BY <2>1, <3>1 DEF ControlInv, CoreInv, AbortedInv
    <3> QED BY <3>1, <3>2 DEF SystemError
  <2> QED BY <2>2, <2>3
<1>9. StreamInv'
  <2>1. hand \ {c} = InHand(session, {"receive", "eof"})'
    BY <1>4 DEF hand
  <2>2. (\A p \in peer.corrupted : p < peer.sent)'
    BY <1>1 DEF DataInv, StreamInv
  <2>3. Marked(inbound, peer.sent - Len(inbound))'
    BY <1>1 DEF DataInv, StreamInv, Marked
  <2>4. ASSUME NEW e \in hand \ {c}
        PROVE  /\ session'.received + Len(e.data) + Len(inbound') = peer'.sent
               /\ Marked(e.data, session.received)'
    <3>1. c.op # "receive"
      BY <1>5, <2>4
    <3>2. /\ session.received + Len(e.data) + Len(inbound) = peer.sent
          /\ Marked(e.data, session.received)
      BY <1>1, <2>4 DEF DataInv, StreamInv, hand
    <3> QED BY <1>1, <1>6, <3>1, <3>2 DEF Marked
  <2>5. ASSUME (Running \/ session.is_receive_complete)', hand \ {c} = {}
        PROVE  session'.received + Len(inbound') = peer'.sent
    <3>1. CASE c.op = "receive"
      BY <1>1, <1>3, <1>5, <1>6, <3>1 DEF DataInv, StreamInv, hand
    <3>2. CASE c.op = "eof"
      <4>1. session.received + Len(c.data) + Len(inbound) = peer.sent
        BY <1>1, <1>5, <3>2 DEF DataInv, StreamInv, hand
      <4>2. ~session.is_receive_complete
        <5>1. "eof" \in Outstanding(session) \cap ReceiveLane
          BY <1>2, <3>2 DEF Outstanding, ReceiveLane
        <5> QED BY <5>1 DEF ControlInv, CoreInv, CompleteInv, Free
      <4>3. c.failure # "success"
        BY <1>1, <2>5, <3>2, <4>2 DEF Effect, Running
      <4>4. c.data = <<>>
        BY <1>7, <3>2, <4>3
      <4> QED BY <1>1, <1>3, <1>6, <3>2, <4>1, <4>4
    <3>3. CASE c.op \notin {"receive", "eof"}
      <4>1. hand = {}
        BY <1>5, <2>5, <3>3
      <4> QED BY <1>1, <1>6, <3>3, <4>1 DEF DataInv, StreamInv, hand
    <3> QED BY <3>1, <3>2, <3>3
  <2> QED BY <2>1, <2>2, <2>3, <2>4, <2>5 DEF StreamInv
<1>10. ~Linked(session) => session'.received = 0 /\ session'.sent = 0
  <2>1. SUFFICES ASSUME ~Linked(session)
                 PROVE  session'.received = 0 /\ session'.sent = 0
    OBVIOUS
  <2>2. session.received = 0 /\ session.sent = 0
    BY <2>1 DEF DataInv, LinkInv
  <2>3. c.op \in {"receive", "send"} => c.data = <<>>
    BY <1>2, <2>1 DEF DataInv, LinkInv, InHand
  <2> QED BY <1>6, <2>2, <2>3
<1>11. session'.socket = "closed" => Linked(session)
  <2>1. SUFFICES ASSUME session'.socket = "closed", ~Linked(session) PROVE FALSE
    OBVIOUS
  <2>2. session'.received = 0 /\ session'.sent = 0 /\ session'.configuration.size # 0
    BY <1>6, <1>10, <2>1 DEF DataInv, LinkInv
  <2>3. session'.is_receive_complete /\ session'.is_send_complete
    BY <2>1 DEF ControlInv, CoreInv, CompleteInv
  <2>4. \/ session'.configuration.direction = "TX"
        \/ session'.received >= session'.configuration.size
    BY <2>3 DEF ControlInv, CoreInv, ReceiveSizeInv
  <2>5. \/ session'.configuration.direction = "RX"
        \/ session'.sent = session'.configuration.size
    BY <2>3 DEF ControlInv, CoreInv, SendSizeInv
  <2> QED BY <1>3, <1>6, <2>2, <2>4, <2>5
<1>12. /\ Linked(session)' => Linked(session)
       /\ ~Linked(session)' => ~Linked(session)
       /\ session'.socket \in {session.socket, "shutdown", "closed"}
       /\ session'.socket = "shutdown" => session.socket \in {"connected", "shutdown"}
  BY <1>1, <1>11 DEF Linked, Effect, Later
<1>13. LinkInv'
  <2>1. session'.configuration.size # 0
    BY <1>6 DEF DataInv, LinkInv
  <2>2. "connect" \in session'.waiting => session'.socket = "connecting"
    <3>1. SUFFICES ASSUME "connect" \in session'.waiting
                   PROVE  session'.socket = "connecting"
      OBVIOUS
    <3>2. session'.socket # "closed"
      BY <3>1 DEF ControlInv, CoreInv, CompleteInv
    <3>3. session.socket = "connecting"
      BY <1>1, <3>1 DEF Effect, DataInv, LinkInv
    <3> QED BY <1>12, <3>2, <3>3
  <2>3. ~Linked(session)' =>
            /\ session'.received = 0 /\ session'.sent = 0
            /\ \A e \in InHand(session', {"receive", "eof", "send"}) : e.data = <<>>
    <3>1. InHand(session', {"receive", "eof", "send"}) \subseteq
                InHand(session, {"receive", "eof", "send"})
      BY <1>4
    <3> QED BY <1>10, <1>12, <3>1 DEF DataInv, LinkInv
  <2> QED BY <2>1, <2>2, <2>3 DEF LinkInv
<1>14. EndInv'
  <2>1. InHand(session', {"eof"}) \subseteq InHand(session, {"eof"})
    BY <1>4
  <2>2. session'.is_receive_complete =>
            \/ session.is_receive_complete
            \/ \E e \in InHand(session, {"eof"}) : e.failure = "eof"
    BY <1>1, <1>2 DEF Effect, InHand
  <2>3. SUFFICES ASSUME Linked(session)',
                        \/ session'.is_receive_complete
                        \/ \E e \in InHand(session', {"eof"}) : e.failure = "eof"
                 PROVE  inbound' = <<>> /\ peer'.end # "open"
    BY DEF EndInv
  <2>4. inbound = <<>> /\ peer.end # "open"
    BY <1>12, <2>1, <2>2, <2>3 DEF DataInv, EndInv
  <2> QED BY <1>1, <2>4
<1>15. OutboundInv'
  <2>1. InHand(session', {"send"}) = InHand(session, {"send"}) \ {c}
    BY <1>4
  <2>2. CASE c.op = "send"
    <3>1. InHand(session', {"send"}) = {}
      BY <1>5, <2>1, <2>2
    <3>2. Unbroken(session.sent + Len(c.data))
      BY <1>5, <2>2 DEF DataInv, OutboundInv
    <3>3. Unbroken(session.sent)'
      BY <1>1, <1>6, <2>2, <3>2 DEF Unbroken
    <3> QED BY <3>1, <3>3 DEF OutboundInv
  <2>3. CASE c.op # "send"
    <3>1. InHand(session', {"send"}) = InHand(session, {"send"})
      BY <1>5, <2>1, <2>3
    <3>2. session'.sent = session.sent /\ outbound' = outbound
      BY <1>1, <1>6, <2>3
    <3> QED BY <3>1, <3>2 DEF DataInv, OutboundInv, Unbroken
  <2> QED BY <2>2, <2>3
<1>16. VerificationExact'
  <2> DEFINE mismatch == {p \in peer.corrupted : p < session.received}
             mismatch2 == {p \in peer.corrupted : p < session'.received}
  <2>1. session.configuration.verify = "ALL" => mismatch = {}
    BY <1>2 DEF DataInv, VerificationExact
  <2>2. session'.failure = "data_mismatch" <=> Mismatches(c)
    BY <1>1 DEF Effect
  <2>3. CASE c.op # "receive"
    <3>1. mismatch2 = mismatch /\ session'.failure # "data_mismatch"
      BY <1>6, <2>2, <2>3 DEF Mismatches
    <3> QED BY <1>1, <1>6, <2>1, <3>1 DEF VerificationExact
  <2>4. CASE c.op = "receive"
    <3>1. Marked(c.data, session.received)
      BY <1>1, <1>5, <2>4 DEF DataInv, StreamInv, hand
    <3>2. DOMAIN c.data = 1 .. Len(c.data)
      BY <1>2 DEF Completion
    <3>3. \A p \in peer.corrupted : p \in Nat
      BY DEF ControlInv, TypeOK
    <3>4. ASSUME session.configuration.verify = "ALL", NEW p \in mismatch2
          PROVE  Mismatches(c)
      <4>1. p \in peer.corrupted /\ p \in Nat
            /\ p < session.received + Len(c.data) /\ p >= session.received
        BY <1>3, <1>6, <2>1, <2>4, <3>3, <3>4
      <4> DEFINE i == p - session.received + 1
      <4>2. i \in 1 .. Len(c.data) /\ session.received + i - 1 = p
        BY <1>3, <4>1
      <4> HIDE DEF i
      <4>3. c.data[i] # Pattern(session.received + i - 1)
        BY <3>1, <3>2, <4>1, <4>2 DEF Marked
      <4>4. c.failure = "success"
        BY <1>7, <2>4, <4>2
      <4>5. i \in Checked(session, c.data)
        BY <3>4, <4>2 DEF Checked
      <4> QED BY <2>4, <4>3, <4>4, <4>5 DEF Mismatches
    <3>5. ASSUME Mismatches(c)
          PROVE  mismatch2 # {} /\ session.configuration.verify # "NONE"
      <4>1. PICK i \in Checked(session, c.data) :
                c.data[i] # Pattern(session.received + i - 1)
        BY <3>5 DEF Mismatches
      <4>2. c.data # <<>>
        BY <1>7, <2>4, <3>5 DEF Mismatches
      <4>3. i \in 1 .. Len(c.data) /\ session.configuration.verify # "NONE"
        <5>1. session.configuration.verify \in {"NONE", "FIRST", "ALL"}
          BY <1>3 DEF SessionConfiguration, Verify
        <5>2. 1 \in 1 .. Len(c.data)
          BY <1>2, <4>2 DEF Completion
        <5>3. CASE session.configuration.verify = "NONE"
          BY <4>1, <5>3 DEF Checked
        <5>4. CASE session.configuration.verify = "FIRST"
          BY <4>1, <5>2, <5>4 DEF Checked
        <5>5. CASE session.configuration.verify = "ALL"
          BY <4>1, <5>5 DEF Checked
        <5> QED BY <5>1, <5>3, <5>4, <5>5
      <4> DEFINE p == session.received + i - 1
      <4>4. p \in peer.corrupted
        <5>1. p \in Nat
          BY <1>3, <4>3
        <5> QED BY <3>1, <3>2, <4>1, <4>3 DEF Marked
      <4>5. p < session'.received
        BY <1>3, <1>6, <2>4, <4>3
      <4> QED BY <4>3, <4>4, <4>5
    <3>6. /\ session'.configuration.verify = "ALL" /\ mismatch2 # {} =>
                session'.failure = "data_mismatch"
          /\ session'.failure = "data_mismatch" =>
                mismatch2 # {} /\ session'.configuration.verify # "NONE"
      BY <1>6, <2>2, <3>4, <3>5
    <3> QED BY <1>1, <3>6 DEF VerificationExact
  <2> QED BY <2>3, <2>4
<1> QED BY <1>8, <1>9, <1>13, <1>14, <1>15, <1>16 DEF DataInv

-----------------------------------------------------------------------------
(* Completions.                                                            *)

\* A completion, and what became of the socket.
Completed(r, c, s) ==
    \/ r = complete(session, c) /\ s = session.socket
    \/ r = [complete(session, c) EXCEPT !.socket = s]

\* The fields that a completion leaves alone, and what it adds to the queue.
LEMMA CompleteData ==
  ASSUME ControlInv, NEW r, NEW c,
         NEW s \in {"connecting", "unconnected", "connected", "shutdown", "closed"},
         Completed(r, c, s)
  PROVE  /\ r.socket = s
         /\ r.configuration = session.configuration
         /\ r.received = session.received /\ r.sent = session.sent
         /\ r.is_receive_complete = session.is_receive_complete
         /\ r.failure = session.failure
         /\ r.exit_requested = session.exit_requested
         /\ r.waiting = session.waiting \ {c.op}
         /\ Queued(r) = Queued(session) \cup {c}
<1>1. session \in SessionState
  BY DEF ControlInv, TypeOK
<1>2. /\ r.socket = s
      /\ r.configuration = session.configuration
      /\ r.received = session.received /\ r.sent = session.sent
      /\ r.is_receive_complete = session.is_receive_complete
      /\ r.failure = session.failure
      /\ r.exit_requested = session.exit_requested
      /\ r.waiting = session.waiting \ {c.op}
      /\ r.ready = Append(session.ready, c)
  BY <1>1 DEF Completed, complete, SessionState
<1>3. Queued(r) = Queued(session) \cup {c}
  BY <1>1, <1>2, QueuedAppend
<1> QED BY <1>2, <1>3

\* Verification does not look at what has only completed.
LEMMA VerificationKept ==
  ASSUME VerificationExact,
         session'.configuration = session.configuration,
         session'.received = session.received,
         session'.failure = session.failure,
         peer'.corrupted = peer.corrupted
  PROVE  VerificationExact'
BY DEF VerificationExact

\* The connection succeeds or fails.
LEMMA ConnectData ==
  ASSUME ControlInv, DataInv, ConnectSucceeds \/ ConnectFails
  PROVE  DataInv'
<1>1. /\ "connect" \in session.waiting /\ Running
      /\ UNCHANGED <<inbound, outbound, peer>>
  BY DEF ConnectSucceeds, ConnectFails, Waits
<1>2. PICK c \in Completion, s \in {"connected", "unconnected"} :
        /\ Completed(session', c, s)
        /\ c.op = "connect" /\ c.failure \in SystemError \cup {"success"}
  <2> DEFINE a == done("connect", "success", <<>>)
             b == done("connect", "connection_refused", <<>>)
  <2>1. /\ a.op = "connect" /\ a.failure \in SystemError \cup {"success"}
        /\ b.op = "connect" /\ b.failure \in SystemError \cup {"success"}
    BY DEF done, SystemError
  <2>2. a \in Completion /\ b \in Completion
    BY DEF done, Completion, Operation, SocketOps, ErrorCode, Error, SystemError
  <2>3. ConnectSucceeds => Completed(session', a, "connected")
    BY DEF ConnectSucceeds, connected, Completed
  <2>4. ConnectFails => Completed(session', b, "unconnected")
    BY DEF ConnectFails, refused, Completed
  <2> HIDE DEF a, b
  <2>5. CASE ConnectSucceeds
    BY <2>1, <2>2, <2>3, <2>5
  <2>6. CASE ConnectFails
    BY <2>1, <2>2, <2>4, <2>6
  <2> QED BY <2>5, <2>6
<1>3. s \in {"connecting", "unconnected", "connected", "shutdown", "closed"}
  BY <1>2
<1>4. /\ session'.socket = s
      /\ session'.configuration = session.configuration
      /\ session'.received = session.received /\ session'.sent = session.sent
      /\ session'.is_receive_complete = session.is_receive_complete
      /\ session'.failure = session.failure
      /\ session'.exit_requested = session.exit_requested
      /\ session'.waiting = session.waiting \ {c.op}
      /\ Queued(session') = Queued(session) \cup {c}
  BY <1>2, <1>3, CompleteData
<1>5. /\ InHand(session, {"receive", "eof"}) = {} /\ InHand(session, {"send"}) = {}
      /\ ~session.is_receive_complete
  <2>1. "connect" \in Outstanding(session) \cap ReceiveLane
    BY <1>1 DEF Outstanding, ReceiveLane
  <2> QED BY <1>1, <2>1, NoneInHand DEF ControlInv, CoreInv, CompleteInv, Free
<1>6. /\ InHand(session', {"receive", "eof"}) = {} /\ InHand(session', {"send"}) = {}
      /\ InHand(session', {"receive", "eof", "send"}) = {}
      /\ InHand(session', {"eof"}) = {}
  BY <1>2, <1>4, <1>5 DEF InHand
<1>7. ResultInv'
  BY <1>2, <1>4 DEF DataInv, ResultInv
<1>8. StreamInv'
  BY <1>1, <1>4, <1>5, <1>6 DEF DataInv, StreamInv, Marked
<1>9. LinkInv'
  <2>1. session.received = 0 /\ session.sent = 0
    BY <1>1 DEF DataInv, LinkInv, Linked
  <2> QED BY <1>2, <1>4, <1>6, <2>1 DEF DataInv, LinkInv
<1>10. EndInv'
  BY <1>4, <1>5, <1>6 DEF EndInv
<1>11. OutboundInv'
  BY <1>1, <1>4, <1>5, <1>6 DEF DataInv, OutboundInv, Unbroken
<1>12. VerificationExact'
  BY <1>1, <1>4, VerificationKept DEF DataInv
<1> QED BY <1>7, <1>8, <1>9, <1>10, <1>11, <1>12 DEF DataInv

\* Timers and signals carry no bytes.
LEMMA TimerData ==
  ASSUME ControlInv, DataInv,
         NEW c, c.op \in session.waiting \ {"connect", "receive", "eof", "send"},
         c.failure = "success",
         session' = complete(session, c), UNCHANGED <<inbound, outbound, peer>>
  PROVE  DataInv'
<1>0. session.socket \in {"connecting", "unconnected", "connected", "shutdown", "closed"}
  BY DEF ControlInv, TypeOK, SessionState
<1>4. /\ session'.socket = session.socket
      /\ session'.configuration = session.configuration
      /\ session'.received = session.received /\ session'.sent = session.sent
      /\ session'.is_receive_complete = session.is_receive_complete
      /\ session'.failure = session.failure
      /\ session'.exit_requested = session.exit_requested
      /\ session'.waiting = session.waiting \ {c.op}
      /\ Queued(session') = Queued(session) \cup {c}
  BY <1>0, CompleteData DEF Completed
<1>6. \A ops \in SUBSET {"receive", "eof", "send"} :
        InHand(session', ops) = InHand(session, ops)
  BY <1>4 DEF InHand
<1>7. ResultInv'
  BY <1>4 DEF DataInv, ResultInv
<1>8. StreamInv'
  <2>1. InHand(session', {"receive", "eof"}) = InHand(session, {"receive", "eof"})
    BY <1>6
  <2> QED BY <1>4, <2>1 DEF DataInv, StreamInv, Marked, Running
<1>9. LinkInv'
  <2>1. InHand(session', {"receive", "eof", "send"}) =
            InHand(session, {"receive", "eof", "send"})
    BY <1>6
  <2> QED BY <1>4, <2>1 DEF DataInv, LinkInv, Linked
<1>10. EndInv'
  <2>1. InHand(session', {"eof"}) = InHand(session, {"eof"})
    BY <1>6
  <2> QED BY <1>4, <2>1 DEF DataInv, EndInv, Linked
<1>11. OutboundInv'
  <2>1. InHand(session', {"send"}) = InHand(session, {"send"})
    BY <1>6
  <2> QED BY <1>4, <2>1 DEF DataInv, OutboundInv, Unbroken
<1>12. VerificationExact'
  BY <1>4, VerificationKept DEF DataInv
<1> QED BY <1>7, <1>8, <1>9, <1>10, <1>11, <1>12 DEF DataInv

\* The two parts into which a receive splits what is on its way.
LEMMA SubSeqParts ==
  ASSUME NEW S, NEW s \in Seq(S), NEW n \in 1 .. Len(s)
  PROVE  LET front == SubSeq(s, 1, n)
             rest == SubSeq(s, n + 1, Len(s))
         IN  /\ Len(front) = n /\ DOMAIN front = 1 .. n
             /\ \A i \in 1 .. n : front[i] = s[i]
             /\ Len(rest) = Len(s) - n /\ DOMAIN rest = 1 .. Len(s) - n
             /\ \A i \in 1 .. Len(s) - n : rest[i] = s[n + i]
<1> DEFINE front == SubSeq(s, 1, n)
           rest == SubSeq(s, n + 1, Len(s))
<1>1. Len(s) \in Nat /\ n \in Nat /\ n <= Len(s)
  OBVIOUS
<1>2. front \in Seq(S) /\ Len(front) = n
  OBVIOUS
<1>3. ASSUME NEW i \in 1 .. n PROVE front[i] = s[i]
  BY <1>1
<1>4. rest \in Seq(S) /\ Len(rest) = Len(s) - n
  BY <1>1
<1>5. ASSUME NEW i \in 1 .. Len(s) - n PROVE rest[i] = s[n + i]
  BY <1>1
<1>6. DOMAIN front = 1 .. n /\ DOMAIN rest = 1 .. Len(s) - n
  <2> HIDE DEF front, rest
  <2> QED BY <1>2, <1>4
<1> QED BY <1>2, <1>3, <1>4, <1>5, <1>6

\* A receive that brings bytes takes them from the front of those on their way.
LEMMA ReceivesDataData ==
  ASSUME ControlInv, DataInv, NEW op \in {"receive", "eof"}, ReceivesData(op)
  PROVE  DataInv'
<1>1. /\ op \in session.waiting /\ Running
      /\ session.socket \in {"connected", "shutdown"}
      /\ UNCHANGED <<outbound, peer>>
  BY DEF ReceivesData, Waits
<1>2. Len(inbound) \in Nat /\ receive_size(op) \in Nat
      /\ DOMAIN inbound = 1 .. Len(inbound) /\ inbound \in Seq(Byte)
      /\ session.received \in Nat /\ peer.sent \in Nat
  BY BufferAssumption DEF ControlInv, TypeOK, SessionState, receive_size, Least
<1>3. PICK n \in 1 .. Least(receive_size(op), Len(inbound)) :
        /\ session' = complete(session, done(op, "success", SubSeq(inbound, 1, n)))
        /\ inbound' = SubSeq(inbound, n + 1, Len(inbound))
  BY DEF ReceivesData
<1>4. n \in 1 .. Len(inbound)
  BY <1>2, <1>3 DEF Least
<1>5. PICK data, rest :
        /\ session' = complete(session, done(op, "success", data))
        /\ inbound' = rest
        /\ Len(data) = n /\ DOMAIN data = 1 .. n
        /\ \A i \in 1 .. n : data[i] = inbound[i]
        /\ Len(rest) = Len(inbound) - n /\ DOMAIN rest = 1 .. Len(inbound) - n
        /\ \A i \in 1 .. Len(inbound) - n : rest[i] = inbound[n + i]
  <2> DEFINE front == SubSeq(inbound, 1, n)
             back == SubSeq(inbound, n + 1, Len(inbound))
  <2>1. /\ Len(front) = n /\ DOMAIN front = 1 .. n
        /\ \A i \in 1 .. n : front[i] = inbound[i]
        /\ Len(back) = Len(inbound) - n /\ DOMAIN back = 1 .. Len(inbound) - n
        /\ \A i \in 1 .. Len(inbound) - n : back[i] = inbound[n + i]
    BY <1>2, <1>4, SubSeqParts
  <2>2. session' = complete(session, done(op, "success", front)) /\ inbound' = back
    BY <1>3
  <2> HIDE DEF front, back
  <2> QED BY <2>1, <2>2
<1> DEFINE c == done(op, "success", data)
<1>6. c.op = op /\ c.failure = "success" /\ c.data = data
  BY DEF done
<1>7. session' = complete(session, c) /\ inbound' = rest
  BY <1>5
<1> HIDE DEF c
<1>8. /\ session'.socket = session.socket
      /\ session'.configuration = session.configuration
      /\ session'.received = session.received /\ session'.sent = session.sent
      /\ session'.is_receive_complete = session.is_receive_complete
      /\ session'.failure = session.failure
      /\ session'.exit_requested = session.exit_requested
      /\ session'.waiting = session.waiting \ {c.op}
      /\ Queued(session') = Queued(session) \cup {c}
  <2>1. session.socket \in {"connecting", "unconnected", "connected", "shutdown", "closed"}
    BY <1>1
  <2>2. Completed(session', c, session.socket)
    BY <1>7 DEF Completed
  <2> QED BY <2>1, <2>2, CompleteData
<1>9. InHand(session, {"receive", "eof"}) = {} /\ ~session.is_receive_complete
  <2>1. op \in Outstanding(session) \cap ReceiveLane
    BY <1>1 DEF Outstanding, ReceiveLane
  <2> QED BY <1>1, <2>1, NoneInHand DEF ControlInv, CoreInv, CompleteInv, Free
<1>10. /\ InHand(session', {"receive", "eof"}) = {c}
       /\ InHand(session', {"eof"}) \subseteq {c}
       /\ InHand(session', {"send"}) = InHand(session, {"send"})
  BY <1>6, <1>8, <1>9 DEF InHand
<1>11. ResultInv'
  <2>1. data # <<>>
    BY <1>4, <1>5
  <2> QED BY <1>6, <1>8, <2>1 DEF DataInv, ResultInv
<1>12. StreamInv'
  <2>1. /\ session.received + Len(inbound) = peer.sent
        /\ Marked(inbound, peer.sent - Len(inbound))
        /\ \A p \in peer.corrupted : p < peer.sent
    BY <1>1, <1>9 DEF DataInv, StreamInv
  <2>2. /\ session'.received + Len(c.data) + Len(inbound') = peer'.sent
        /\ peer.sent - Len(inbound) = session.received
        /\ peer'.sent - Len(inbound') = session.received + n
    <3>1. /\ Len(c.data) = n /\ Len(inbound') = Len(inbound) - n
          /\ session'.received = session.received /\ peer' = peer
          /\ n \in Nat
      BY <1>1, <1>4, <1>5, <1>6, <1>7, <1>8
    <3>2. session.received + Len(inbound) = peer.sent
      BY <2>1
    <3>3. peer'.sent = peer.sent
      BY <3>1
    <3>4. Len(inbound) \in Nat /\ session.received \in Nat
      BY <1>2
    <3>5. session'.received + Len(c.data) + Len(inbound') = peer'.sent
      BY <3>1, <3>2, <3>3, <3>4
    <3>6. peer.sent - Len(inbound) = session.received
      BY <3>2, <3>4
    <3>7. peer'.sent - Len(inbound') = session.received + n
      BY <3>1, <3>2, <3>3, <3>4
    <3> QED BY <3>5, <3>6, <3>7
  <2>3. \A i \in 1 .. Len(inbound) :
            inbound[i] = Pattern(session.received + i - 1)
                <=> session.received + i - 1 \notin peer.corrupted
    BY <1>2, <2>1, <2>2 DEF Marked
  <2>4. Marked(c.data, session.received)'
    <3>1. \A i \in 1 .. n :
            data[i] = Pattern(session.received + i - 1)
                <=> session.received + i - 1 \notin peer.corrupted
      <4> TAKE i \in 1 .. n
      <4>1. i \in 1 .. Len(inbound) /\ data[i] = inbound[i]
        BY <1>2, <1>4, <1>5
      <4> QED BY <2>3, <4>1
    <3>2. DOMAIN c.data = 1 .. n /\ session'.received = session.received /\ peer' = peer
      BY <1>1, <1>5, <1>6, <1>8
    <3> QED BY <1>6, <3>1, <3>2 DEF Marked
  <2>5. Marked(inbound, peer.sent - Len(inbound))'
    <3>1. \A i \in 1 .. Len(inbound) - n :
            rest[i] = Pattern(session.received + n + i - 1)
                <=> session.received + n + i - 1 \notin peer.corrupted
      <4> TAKE i \in 1 .. Len(inbound) - n
      <4>1. n + i \in 1 .. Len(inbound)
        BY <1>2, <1>4
      <4>2. session.received + (n + i) - 1 = session.received + n + i - 1
        BY <1>2, <1>4
      <4>3. rest[i] = inbound[n + i]
        BY <1>5
      <4> QED BY <2>3, <4>1, <4>2, <4>3
    <3>2. DOMAIN inbound' = 1 .. Len(inbound) - n /\ peer' = peer
      BY <1>1, <1>5, <1>7
    <3> QED BY <1>7, <2>2, <3>1, <3>2 DEF Marked
  <2> QED BY <1>1, <1>10, <2>1, <2>2, <2>4, <2>5 DEF StreamInv
<1>13. LinkInv'
  BY <1>1, <1>8 DEF DataInv, LinkInv, Linked
<1>14. EndInv'
  BY <1>6, <1>8, <1>9, <1>10 DEF EndInv
<1>15. OutboundInv'
  BY <1>1, <1>8, <1>10 DEF DataInv, OutboundInv, Unbroken
<1>16. VerificationExact'
  BY <1>1, <1>8, VerificationKept DEF DataInv
<1> QED BY <1>11, <1>12, <1>13, <1>14, <1>15, <1>16 DEF DataInv

\* One that fails brings none; at the end of the stream nothing is on its way.
LEMMA ReceiveFailsData ==
  ASSUME ControlInv, DataInv, NEW op \in {"receive", "eof"}, ReceiveFails(op)
  PROVE  DataInv'
<1>1. /\ op \in session.waiting /\ Running
      /\ UNCHANGED <<inbound, outbound, peer>>
  BY DEF ReceiveFails, Waits
<1>2. PICK failure \in {"eof", "connection_reset", "not_connected"} :
        /\ \/ /\ session.socket \in {"connected", "shutdown"}
              /\ \/ failure = "eof" /\ peer.end = "fin" /\ inbound = <<>>
                 \/ failure = "connection_reset" /\ peer.end = "reset"
           \/ session.socket = "unconnected" /\ failure # "connection_reset"
        /\ session' = complete(session, done(op, failure, <<>>))
  BY DEF ReceiveFails
<1> DEFINE c == done(op, failure, <<>>)
<1>3. /\ c.op = op /\ c.failure = failure /\ c.data = <<>>
      /\ c.failure \in SystemError /\ c.failure # "success"
  BY <1>2 DEF done, SystemError
<1>4. session' = complete(session, c)
  BY <1>2
<1> HIDE DEF c
<1>5. /\ session'.socket = session.socket
      /\ session'.configuration = session.configuration
      /\ session'.received = session.received /\ session'.sent = session.sent
      /\ session'.is_receive_complete = session.is_receive_complete
      /\ session'.failure = session.failure
      /\ session'.exit_requested = session.exit_requested
      /\ session'.waiting = session.waiting \ {c.op}
      /\ Queued(session') = Queued(session) \cup {c}
  <2>1. session.socket \in {"connecting", "unconnected", "connected", "shutdown", "closed"}
    BY DEF ControlInv, TypeOK, SessionState
  <2>2. Completed(session', c, session.socket)
    BY <1>4 DEF Completed
  <2> QED BY <2>1, <2>2, CompleteData
<1>6. InHand(session, {"receive", "eof"}) = {} /\ ~session.is_receive_complete
  <2>1. op \in Outstanding(session) \cap ReceiveLane
    BY <1>1 DEF Outstanding, ReceiveLane
  <2> QED BY <1>1, <2>1, NoneInHand DEF ControlInv, CoreInv, CompleteInv, Free
<1>7. /\ InHand(session', {"receive", "eof"}) = {c}
      /\ InHand(session', {"eof"}) \subseteq {c}
      /\ InHand(session', {"send"}) = InHand(session, {"send"})
      /\ InHand(session', {"receive", "eof", "send"}) =
            InHand(session, {"receive", "eof", "send"}) \cup {c}
  BY <1>3, <1>5, <1>6 DEF InHand
<1>8. ResultInv'
  BY <1>3, <1>5 DEF DataInv, ResultInv
<1>9. StreamInv'
  <2>1. /\ session.received + Len(inbound) = peer.sent
        /\ Marked(inbound, peer.sent - Len(inbound))
        /\ \A p \in peer.corrupted : p < peer.sent
        /\ session.received \in Nat
    BY <1>1, <1>6 DEF DataInv, StreamInv, ControlInv, TypeOK, SessionState
  <2>2. session'.received + Len(c.data) + Len(inbound') = peer'.sent
    BY <1>1, <1>3, <1>5, <2>1
  <2>3. Marked(c.data, session.received)' /\ Marked(inbound, peer.sent - Len(inbound))'
    BY <1>1, <1>3, <2>1 DEF Marked
  <2> QED BY <1>1, <1>7, <2>1, <2>2, <2>3 DEF StreamInv
<1>10. LinkInv'
  BY <1>3, <1>5, <1>7 DEF DataInv, LinkInv, Linked
<1>11. EndInv'
  <2>1. SUFFICES ASSUME Linked(session)', c.failure = "eof"
                 PROVE  inbound' = <<>> /\ peer'.end # "open"
    BY <1>5, <1>6, <1>7 DEF EndInv
  <2>2. session.socket # "unconnected"
    BY <1>5, <2>1 DEF Linked
  <2> QED BY <1>1, <1>2, <1>3, <2>1, <2>2
<1>12. OutboundInv'
  BY <1>1, <1>5, <1>7 DEF DataInv, OutboundInv, Unbroken
<1>13. VerificationExact'
  BY <1>1, <1>5, VerificationKept DEF DataInv
<1> QED BY <1>8, <1>9, <1>10, <1>11, <1>12, <1>13 DEF DataInv

\* The two parts of what is on its way after a send.
LEMMA ConcatParts ==
  ASSUME NEW S, NEW s \in Seq(S), NEW t \in Seq(S)
  PROVE  /\ Len(s \o t) = Len(s) + Len(t)
         /\ DOMAIN (s \o t) = 1 .. Len(s) + Len(t)
         /\ \A i \in 1 .. Len(s) : (s \o t)[i] = s[i]
         /\ \A i \in 1 .. Len(t) : (s \o t)[Len(s) + i] = t[i]
<1>1. Len(s \o t) = Len(s) + Len(t) /\ Len(s) \in Nat /\ Len(t) \in Nat
  OBVIOUS
<1>2. DOMAIN (s \o t) = 1 .. Len(s) + Len(t)
  OBVIOUS
<1>3. ASSUME NEW i \in 1 .. Len(s) PROVE (s \o t)[i] = s[i]
  OBVIOUS
<1>4. ASSUME NEW i \in 1 .. Len(t) PROVE (s \o t)[Len(s) + i] = t[i]
  BY <1>1
<1> QED BY <1>1, <1>2, <1>3, <1>4

\* A send that succeeds.
LEMMA SendsDataData ==
  ASSUME ControlInv, DataInv, SendsData
  PROVE  DataInv'
<1>1. /\ "send" \in session.waiting /\ Running /\ session.socket = "connected"
      /\ UNCHANGED <<inbound, peer>>
  BY DEF SendsData, Waits
<1>2. PICK n \in 1 .. Least(send_size(session), ROOM - Len(outbound)) :
        LET data == BytesToSend(send_offset(session), n)
        IN  /\ session' = complete(session, done("send", "success", data))
            /\ outbound' = outbound \o data
  BY DEF SendsData
<1>3. /\ session.sent \in Nat /\ session.send_slice \in Nat /\ Len(outbound) \in Nat
      /\ outbound \in Seq(Byte) /\ DOMAIN outbound = 1 .. Len(outbound)
      /\ session.received \in Nat
  BY DEF ControlInv, TypeOK, SessionState
<1>4. n \in Nat \ {0} /\ n <= BUFFER_SIZE - (session.sent % BYTE_VALUES)
  <2>1. session.sent % BYTE_VALUES \in Nat /\ BUFFER_SIZE \in Nat /\ ROOM \in Nat
    BY <1>3, BufferAssumption, EnvironmentAssumption
  <2>2. send_size(session) =
            Least(session.send_slice, BUFFER_SIZE - (session.sent % BYTE_VALUES))
    BY DEF send_size, send_offset
  <2> QED BY <1>2, <1>3, <2>1, <2>2 DEF Least
<1>5. PICK data :
        /\ session' = complete(session, done("send", "success", data))
        /\ outbound' = outbound \o data
        /\ data \in Seq(Byte)
        /\ Len(data) = n /\ DOMAIN data = 1 .. n
        /\ \A i \in 1 .. n : data[i] = Pattern(session.sent + i - 1)
  <2> DEFINE data == BytesToSend(send_offset(session), n)
  <2>1. data \in Seq(Byte)
    BY <1>3, <1>4, BytesToSendType DEF send_offset
  <2>2. /\ Len(data) = n /\ DOMAIN data = 1 .. n
        /\ \A i \in 1 .. n : data[i] = Pattern(session.sent + i - 1)
    BY <1>3, <1>4, BytesToSendPattern DEF send_offset
  <2>3. /\ session' = complete(session, done("send", "success", data))
        /\ outbound' = outbound \o data
    BY <1>2
  <2> HIDE DEF data
  <2> QED BY <2>1, <2>2, <2>3
<1> DEFINE c == done("send", "success", data)
<1>6. c.op = "send" /\ c.failure = "success" /\ c.data = data
  BY DEF done
<1>7. session' = complete(session, c)
  BY <1>5
<1> HIDE DEF c
<1>8. /\ session'.socket = session.socket
      /\ session'.configuration = session.configuration
      /\ session'.received = session.received /\ session'.sent = session.sent
      /\ session'.is_receive_complete = session.is_receive_complete
      /\ session'.failure = session.failure
      /\ session'.exit_requested = session.exit_requested
      /\ session'.waiting = session.waiting \ {c.op}
      /\ Queued(session') = Queued(session) \cup {c}
  <2>1. session.socket \in {"connecting", "unconnected", "connected", "shutdown", "closed"}
    BY <1>1
  <2>2. Completed(session', c, session.socket)
    BY <1>7 DEF Completed
  <2> QED BY <2>1, <2>2, CompleteData
<1>9. InHand(session, {"send"}) = {}
  BY <1>1, NoneInHand
<1>10. /\ InHand(session', {"receive", "eof"}) = InHand(session, {"receive", "eof"})
       /\ InHand(session', {"eof"}) = InHand(session, {"eof"})
       /\ InHand(session', {"send"}) = {c}
  BY <1>6, <1>8, <1>9 DEF InHand
<1>11. ResultInv'
  <2>1. data # <<>>
    BY <1>4, <1>5
  <2> QED BY <1>6, <1>8, <2>1 DEF DataInv, ResultInv
<1>12. StreamInv'
  BY <1>1, <1>8, <1>10 DEF DataInv, StreamInv, Marked, Running
<1>13. LinkInv'
  BY <1>1, <1>8 DEF DataInv, LinkInv, Linked
<1>14. EndInv'
  BY <1>1, <1>8, <1>10 DEF DataInv, EndInv, Linked
<1>15. OutboundInv'
  <2>1. \A i \in 1 .. Len(outbound) :
            outbound[i] = Pattern(session.sent - Len(outbound) + i - 1)
    BY <1>3, <1>9 DEF DataInv, OutboundInv, Unbroken
  <2>2. /\ Len(outbound') = Len(outbound) + n
        /\ DOMAIN outbound' = 1 .. Len(outbound) + n
        /\ \A i \in 1 .. Len(outbound) : outbound'[i] = outbound[i]
        /\ \A i \in 1 .. n : outbound'[Len(outbound) + i] = data[i]
    <3>1. /\ Len(outbound \o data) = Len(outbound) + Len(data)
          /\ DOMAIN (outbound \o data) = 1 .. Len(outbound) + Len(data)
          /\ \A i \in 1 .. Len(outbound) : (outbound \o data)[i] = outbound[i]
          /\ \A i \in 1 .. Len(data) : (outbound \o data)[Len(outbound) + i] = data[i]
      <4>1. outbound \in Seq(Byte) /\ data \in Seq(Byte)
        BY <1>3, <1>5
      <4> QED BY <4>1, ConcatParts
    <3>2. outbound' = outbound \o data /\ Len(data) = n
      BY <1>5
    <3> QED BY <3>1, <3>2
  <2>3. ASSUME NEW i \in 1 .. Len(outbound) + n
        PROVE  outbound'[i] = Pattern(session.sent + n - (Len(outbound) + n) + i - 1)
    <3>1. session.sent + n - (Len(outbound) + n) + i - 1
            = session.sent - Len(outbound) + i - 1
      BY <1>3, <1>4
    <3>2. CASE i <= Len(outbound)
      <4>1. i \in 1 .. Len(outbound)
        BY <1>3, <3>2
      <4> QED BY <2>1, <2>2, <3>1, <4>1
    <3>3. CASE i > Len(outbound)
      <4> DEFINE j == i - Len(outbound)
      <4>1. j \in 1 .. n /\ i = Len(outbound) + j
        BY <1>3, <1>4, <3>3
      <4>2. session.sent + j - 1 = session.sent - Len(outbound) + i - 1
        BY <1>3, <1>4
      <4> HIDE DEF j
      <4>3. outbound'[i] = Pattern(session.sent + j - 1)
        BY <1>5, <2>2, <4>1
      <4> QED BY <3>1, <4>2, <4>3
    <3> QED BY <1>3, <1>4, <3>2, <3>3
  <2>4. ASSUME NEW e \in InHand(session', {"send"})
        PROVE  Unbroken(session.sent + Len(e.data))'
    <3>1. Len(e.data) = n
      BY <1>5, <1>6, <1>10, <2>4
    <3>2. /\ session'.sent = session.sent /\ session.sent \in Nat
          /\ n \in Nat /\ Len(outbound) \in Nat
      BY <1>3, <1>4, <1>8
    <3>3. ASSUME NEW i \in 1 .. Len(outbound) + n
          PROVE  outbound'[i] =
                    Pattern((session'.sent + Len(e.data)) - Len(outbound') + i - 1)
      <4>1. Len(outbound') = Len(outbound) + n
        BY <2>2
      <4>2. (session'.sent + Len(e.data)) - Len(outbound') + i - 1
              = session.sent + n - (Len(outbound) + n) + i - 1
        BY <3>1, <3>2, <4>1
      <4> QED BY <2>3, <4>2
    <3> QED BY <2>2, <3>3 DEF Unbroken
  <2> QED BY <1>10, <2>4 DEF OutboundInv
<1>16. VerificationExact'
  BY <1>1, <1>8, VerificationKept DEF DataInv
<1> QED BY <1>11, <1>12, <1>13, <1>14, <1>15, <1>16 DEF DataInv

\* A send that fails.
LEMMA SendFailsData ==
  ASSUME ControlInv, DataInv, SendFails
  PROVE  DataInv'
<1>1. /\ "send" \in session.waiting /\ Running
      /\ UNCHANGED <<inbound, outbound, peer>>
  BY DEF SendFails, Waits
<1>2. PICK failure \in {"broken_pipe", "connection_reset"} :
        session' = complete(session, done("send", failure, <<>>))
  BY DEF SendFails
<1> DEFINE c == done("send", failure, <<>>)
<1>3. /\ c.op = "send" /\ c.data = <<>> /\ c.failure = failure
      /\ c.failure \in SystemError /\ c.failure # "success"
  BY <1>2 DEF done, SystemError
<1>4. session' = complete(session, c)
  BY <1>2
<1> HIDE DEF c
<1>5. /\ session'.socket = session.socket
      /\ session'.configuration = session.configuration
      /\ session'.received = session.received /\ session'.sent = session.sent
      /\ session'.is_receive_complete = session.is_receive_complete
      /\ session'.failure = session.failure
      /\ session'.exit_requested = session.exit_requested
      /\ session'.waiting = session.waiting \ {c.op}
      /\ Queued(session') = Queued(session) \cup {c}
  <2>1. session.socket \in {"connecting", "unconnected", "connected", "shutdown", "closed"}
    BY DEF ControlInv, TypeOK, SessionState
  <2>2. Completed(session', c, session.socket)
    BY <1>4 DEF Completed
  <2> QED BY <2>1, <2>2, CompleteData
<1>6. InHand(session, {"send"}) = {}
  BY <1>1, NoneInHand
<1>7. /\ InHand(session', {"receive", "eof"}) = InHand(session, {"receive", "eof"})
      /\ InHand(session', {"eof"}) = InHand(session, {"eof"})
      /\ InHand(session', {"send"}) = {c}
      /\ InHand(session', {"receive", "eof", "send"}) =
            InHand(session, {"receive", "eof", "send"}) \cup {c}
  BY <1>3, <1>5, <1>6 DEF InHand
<1>8. ResultInv'
  BY <1>3, <1>5 DEF DataInv, ResultInv
<1>9. StreamInv'
  BY <1>1, <1>5, <1>7 DEF DataInv, StreamInv, Marked, Running
<1>10. LinkInv'
  BY <1>3, <1>5, <1>7 DEF DataInv, LinkInv, Linked
<1>11. EndInv'
  BY <1>1, <1>5, <1>7 DEF DataInv, EndInv, Linked
<1>12. OutboundInv'
  <2>1. session.sent + Len(c.data) = session.sent
    BY <1>3 DEF ControlInv, TypeOK, SessionState
  <2>2. Unbroken(session.sent)
    BY <1>6 DEF DataInv, OutboundInv
  <2>3. ASSUME NEW e \in InHand(session', {"send"})
        PROVE  Unbroken(session.sent + Len(e.data))'
    BY <1>1, <1>5, <1>7, <2>1, <2>2, <2>3 DEF Unbroken
  <2> QED BY <1>7, <2>3 DEF OutboundInv
<1>13. VerificationExact'
  BY <1>1, <1>5, VerificationKept DEF DataInv
<1> QED BY <1>8, <1>9, <1>10, <1>11, <1>12, <1>13 DEF DataInv

\* Every completion keeps the invariant of the bytes.
LEMMA CompletesData ==
  ASSUME ControlInv, DataInv, Complete
  PROVE  DataInv'
<1>1. ASSUME NEW op \in {"receive_throttle", "send_throttle", "timeout"}, TimerExpires(op)
      PROVE  DataInv'
  <2> DEFINE c == done(op, "success", <<>>)
  <2>1. /\ session' = complete(session, c)
        /\ UNCHANGED <<inbound, outbound, peer>>
        /\ op \in session.waiting
    BY <1>1 DEF TimerExpires, Waits
  <2>2. c.op = op /\ c.failure = "success"
    BY DEF done
  <2> HIDE DEF c
  <2> QED BY <2>1, <2>2, TimerData
<1>2. ASSUME NEW number \in Signal, SignalArrives(number)
      PROVE  DataInv'
  <2> DEFINE c == done("signal", "success", <<number>>)
  <2>1. /\ session' = complete(session, c)
        /\ UNCHANGED <<inbound, outbound, peer>>
        /\ "signal" \in session.waiting
    BY <1>2 DEF SignalArrives, Waits
  <2>2. c.op = "signal" /\ c.failure = "success"
    BY DEF done
  <2> HIDE DEF c
  <2> QED BY <2>1, <2>2, TimerData
<1> QED BY <1>1, <1>2, ConnectData, ReceivesDataData, ReceiveFailsData, SendsDataData,
           SendFailsData DEF Complete

-----------------------------------------------------------------------------
(* The peer and the other sessions.                                        *)

\* A byte of the peer goes to the end of what is on its way.
LEMMA PeerSendsData ==
  ASSUME ControlInv, DataInv, NEW byte \in Byte, PeerSends(byte)
  PROVE  DataInv'
<1>1. /\ Running /\ Linked(session) /\ peer.end = "open"
      /\ inbound' = Append(inbound, byte)
      /\ session' = session /\ outbound' = outbound
  BY DEF PeerSends, Linked
<1>2. /\ peer.sent \in Nat /\ peer.corrupted \subseteq Nat
      /\ inbound \in Seq(Byte) /\ Len(inbound) \in Nat
      /\ session.received \in Nat
  BY DEF ControlInv, TypeOK, SessionState
<1>3. /\ peer'.sent = peer.sent + 1 /\ peer'.end = peer.end
      /\ peer'.corrupted = IF byte = Pattern(peer.sent)
                           THEN peer.corrupted ELSE peer.corrupted \cup {peer.sent}
  BY DEF PeerSends, ControlInv, TypeOK
<1>4. /\ Len(inbound') = Len(inbound) + 1
      /\ DOMAIN inbound' = 1 .. Len(inbound) + 1 /\ DOMAIN inbound = 1 .. Len(inbound)
      /\ \A i \in 1 .. Len(inbound) : inbound'[i] = inbound[i]
      /\ inbound'[Len(inbound) + 1] = byte
  BY <1>1, <1>2
<1>5. /\ session.received + Len(inbound) <= peer.sent
      /\ \A c \in InHand(session, {"receive", "eof"}) :
            session.received + Len(c.data) + Len(inbound) = peer.sent
  BY <1>1, ReceivedOfPeer DEF DataInv
<1>6. \A p \in Nat : p < peer.sent => (p \in peer'.corrupted <=> p \in peer.corrupted)
  BY <1>2, <1>3
<1>7. peer.sent \in peer'.corrupted <=> byte # Pattern(peer.sent)
  <2>1. peer.sent \notin peer.corrupted
    BY <1>2 DEF DataInv, StreamInv
  <2> QED BY <1>3, <2>1
<1>8. ResultInv' /\ LinkInv' /\ OutboundInv'
  BY <1>1 DEF DataInv, ResultInv, LinkInv, OutboundInv, Unbroken, Linked
<1>9. ~session.is_receive_complete
      /\ ~ \E c \in InHand(session, {"eof"}) : c.failure = "eof"
  BY <1>1 DEF DataInv, EndInv
<1>10. EndInv'
  BY <1>1, <1>9 DEF EndInv
<1>11. StreamInv'
  <2>1. \A p \in peer'.corrupted : p < peer'.sent
    BY <1>2, <1>3 DEF DataInv, StreamInv
  <2>2. Marked(inbound, peer.sent - Len(inbound))'
    <3>1. ASSUME NEW i \in 1 .. Len(inbound) + 1
          PROVE  inbound'[i] = Pattern((peer'.sent - Len(inbound')) + i - 1)
                    <=> (peer'.sent - Len(inbound')) + i - 1 \notin peer'.corrupted
      <4>1. (peer'.sent - Len(inbound')) + i - 1 = (peer.sent - Len(inbound)) + i - 1
        BY <1>2, <1>3, <1>4
      <4>2. CASE i <= Len(inbound)
        <5> DEFINE p == (peer.sent - Len(inbound)) + i - 1
        <5>1. p \in Nat /\ p < peer.sent /\ i \in 1 .. Len(inbound)
          BY <1>2, <1>5, <4>2
        <5>2. inbound[i] = Pattern(p) <=> p \notin peer.corrupted
          BY <1>4, <5>1 DEF DataInv, StreamInv, Marked
        <5> HIDE DEF p
        <5>3. inbound'[i] = Pattern(p) <=> p \notin peer'.corrupted
          BY <1>4, <1>6, <5>1, <5>2
        <5> QED BY <4>1, <5>3 DEF p
      <4>3. CASE i = Len(inbound) + 1
        <5>1. (peer.sent - Len(inbound)) + i - 1 = peer.sent
          BY <1>2, <4>3
        <5> QED BY <1>4, <1>7, <4>1, <4>3, <5>1
      <4> QED BY <1>2, <4>2, <4>3
    <3> QED BY <1>4, <3>1 DEF Marked
  <2>3. ASSUME NEW c \in InHand(session, {"receive", "eof"})
        PROVE  /\ session.received + Len(c.data) + Len(inbound') = peer'.sent
               /\ Marked(c.data, session.received)'
    <3>0. Len(c.data) \in Nat /\ DOMAIN c.data = 1 .. Len(c.data)
      <4>1. c \in Completion
        BY <2>3, OutstandingType DEF InHand, ControlInv, TypeOK
      <4> QED BY <4>1 DEF Completion
    <3>1. session.received + Len(c.data) + Len(inbound) = peer.sent
      BY <1>5, <2>3
    <3>2. session.received + Len(c.data) + Len(inbound') = peer'.sent
      BY <1>2, <1>3, <1>4, <3>0, <3>1
    <3>3. ASSUME NEW i \in 1 .. Len(c.data)
          PROVE  c.data[i] = Pattern(session.received + i - 1)
                    <=> session.received + i - 1 \notin peer'.corrupted
      <4> DEFINE p == session.received + i - 1
      <4>1. p \in Nat /\ p < peer.sent
        BY <1>2, <3>0, <3>1
      <4>2. c.data[i] = Pattern(p) <=> p \notin peer.corrupted
        BY <1>1, <2>3, <3>0 DEF DataInv, StreamInv, Marked
      <4> HIDE DEF p
      <4>3. c.data[i] = Pattern(p) <=> p \notin peer'.corrupted
        BY <1>6, <4>1, <4>2
      <4> QED BY <4>3 DEF p
    <3> QED BY <1>1, <3>0, <3>2, <3>3 DEF Marked
  <2>4. InHand(session, {"receive", "eof"}) = {} =>
            session.received + Len(inbound') = peer'.sent
    <3>1. InHand(session, {"receive", "eof"}) = {} =>
            session.received + Len(inbound) = peer.sent
      BY <1>1 DEF DataInv, StreamInv
    <3> QED BY <1>2, <1>3, <1>4, <3>1
  <2> QED BY <1>1, <2>1, <2>2, <2>3, <2>4 DEF StreamInv
<1>12. VerificationExact'
  <2>1. session.received <= peer.sent
    BY <1>2, <1>5
  <2>2. {p \in peer'.corrupted : p < session.received}
            = {p \in peer.corrupted : p < session.received}
    BY <1>2, <1>3, <2>1
  <2> QED BY <1>1, <2>2 DEF DataInv, VerificationExact
<1> QED BY <1>8, <1>10, <1>11, <1>12 DEF DataInv

\* The peer ends its stream, whatever is still on its way.
LEMMA PeerEndsData ==
  ASSUME ControlInv, DataInv, PeerShutsDown \/ PeerResets
  PROVE  DataInv'
<1>1. /\ UNCHANGED <<session, inbound, outbound>>
      /\ peer'.sent = peer.sent /\ peer'.corrupted = peer.corrupted
      /\ peer'.end # "open"
  BY DEF PeerShutsDown, PeerResets, ControlInv, TypeOK
<1>2. ResultInv' /\ LinkInv' /\ OutboundInv'
  BY <1>1 DEF DataInv, ResultInv, LinkInv, OutboundInv, Unbroken, Linked
<1>3. StreamInv'
  BY <1>1 DEF DataInv, StreamInv, Marked, Running
<1>4. EndInv'
  BY <1>1 DEF DataInv, EndInv, Linked
<1>5. VerificationExact'
  BY <1>1, VerificationKept DEF DataInv
<1> QED BY <1>2, <1>3, <1>4, <1>5 DEF DataInv

\* The peer reads the first byte on its way.
LEMMA PeerReadsData ==
  ASSUME ControlInv, DataInv, PeerReads
  PROVE  DataInv'
<1>1. /\ outbound # <<>> /\ outbound' = Tail(outbound)
      /\ session' = session /\ inbound' = inbound /\ peer' = peer
  BY DEF PeerReads
<1>2. outbound \in Seq(Byte) /\ session.sent \in Nat
  BY DEF ControlInv, TypeOK, SessionState
<1>3. /\ Len(outbound) \in Nat \ {0} /\ DOMAIN outbound = 1 .. Len(outbound)
      /\ Len(outbound') = Len(outbound) - 1
      /\ DOMAIN outbound' = 1 .. Len(outbound) - 1
      /\ \A i \in 1 .. Len(outbound) - 1 : outbound'[i] = outbound[i + 1]
  BY <1>1, <1>2
<1>4. ASSUME NEW a \in Nat, Unbroken(a) PROVE Unbroken(a)'
  <2>1. ASSUME NEW i \in 1 .. Len(outbound) - 1
        PROVE  outbound'[i] = Pattern(a - Len(outbound') + i - 1)
    <3>1. i + 1 \in 1 .. Len(outbound)
      BY <1>3
    <3>2. outbound[i + 1] = Pattern(a - Len(outbound) + (i + 1) - 1)
      BY <1>3, <1>4, <3>1 DEF Unbroken
    <3>3. a - Len(outbound) + (i + 1) - 1 = a - Len(outbound') + i - 1
      BY <1>3
    <3> QED BY <1>3, <3>2, <3>3
  <2> QED BY <1>3, <2>1 DEF Unbroken
<1>5. OutboundInv'
  <2>1. InHand(session', {"send"}) = InHand(session, {"send"}) /\ session'.sent = session.sent
    BY <1>1
  <2>2. ASSUME NEW c \in InHand(session, {"send"})
        PROVE  Unbroken(session.sent + Len(c.data))'
    <3> DEFINE a == session.sent + Len(c.data)
    <3>1. c \in Completion
      BY <2>2, OutstandingType DEF InHand, ControlInv, TypeOK
    <3>2. a \in Nat
      BY <1>2, <3>1 DEF Completion
    <3>3. PICK b \in Nat : b = a
      BY <3>2
    <3>4. Unbroken(b)
      BY <3>3 DEF DataInv, OutboundInv
    <3>5. Unbroken(b)'
      BY <1>4, <3>4
    <3> QED BY <2>1, <3>3, <3>5 DEF Unbroken
  <2>3. InHand(session, {"send"}) = {} => Unbroken(session.sent)'
    <3>1. SUFFICES ASSUME InHand(session, {"send"}) = {} PROVE Unbroken(session.sent)'
      OBVIOUS
    <3>2. PICK b \in Nat : b = session.sent
      BY <1>2
    <3>3. Unbroken(b)
      BY <3>1, <3>2 DEF DataInv, OutboundInv
    <3>4. Unbroken(b)'
      BY <1>4, <3>3
    <3> QED BY <2>1, <3>2, <3>4 DEF Unbroken
  <2> QED BY <2>1, <2>2, <2>3 DEF OutboundInv
<1>6. ResultInv' /\ LinkInv' /\ StreamInv' /\ EndInv' /\ VerificationExact'
  BY <1>1 DEF DataInv, ResultInv, LinkInv, StreamInv, Marked, EndInv, Linked,
     VerificationExact, Running
<1> QED BY <1>5, <1>6 DEF DataInv

\* Another session requests the exit.
LEMMA ExitData ==
  ASSUME ControlInv, DataInv, ExitRequestedElsewhere
  PROVE  DataInv'
<1>1. /\ Running /\ ~Running'
      /\ inbound' = inbound /\ outbound' = outbound /\ peer' = peer
      /\ session'.socket = session.socket
      /\ session'.configuration = session.configuration
      /\ session'.received = session.received /\ session'.sent = session.sent
      /\ session'.is_receive_complete = session.is_receive_complete
      /\ session'.failure = session.failure
      /\ session'.waiting = session.waiting
      /\ Queued(session') = Queued(session)
  BY DEF ExitRequestedElsewhere, Running, ControlInv, TypeOK, SessionState, Queued
<1>2. \A ops : InHand(session', ops) = InHand(session, ops)
  BY <1>1 DEF InHand
<1>3. ResultInv' /\ LinkInv' /\ EndInv'
  <2>1. /\ InHand(session', {"eof"}) = InHand(session, {"eof"})
        /\ InHand(session', {"receive", "eof", "send"}) =
                InHand(session, {"receive", "eof", "send"})
    BY <1>2
  <2> QED BY <1>1, <2>1 DEF DataInv, ResultInv, LinkInv, EndInv, Linked
<1>4. StreamInv'
  <2>1. InHand(session', {"receive", "eof"}) = InHand(session, {"receive", "eof"})
    BY <1>2
  <2> QED BY <1>1, <2>1 DEF DataInv, StreamInv, Marked
<1>5. OutboundInv'
  <2>1. InHand(session', {"send"}) = InHand(session, {"send"})
    BY <1>2
  <2> QED BY <1>1, <2>1 DEF DataInv, OutboundInv, Unbroken
<1>6. VerificationExact'
  BY <1>1, VerificationKept DEF DataInv
<1> QED BY <1>3, <1>4, <1>5, <1>6 DEF DataInv

\* A session that has just been initialized.
LEMMA InitData == Init => DataInv
<1> SUFFICES ASSUME Init PROVE DataInv
  OBVIOUS
<1>1. PICK k \in Configurations : session \in initialize(k)
  BY DEF Init
<1>2. PICK opened \in {new(k), connected(new(k)), refused(new(k))} :
        session = post(opened, done("start", "success", <<>>))
  BY <1>1 DEF initialize
<1>3. /\ inbound = <<>> /\ outbound = <<>>
      /\ peer.sent = 0 /\ peer.corrupted = {} /\ peer.end = "open"
  BY DEF Init
<1>4. k.size # 0
  BY ConfigurationsAssumption DEF Accepted
<1>5. session \in SessionState
  BY InitControl DEF ControlInv, TypeOK
<1>6. /\ session.configuration = k /\ session.received = 0 /\ session.sent = 0
      /\ ~session.is_receive_complete /\ session.failure = "success"
      /\ "connect" \in session.waiting => session.socket = "connecting"
      /\ \A i \in DOMAIN session.ready :
            /\ session.ready[i].op \in {"connect", "start"}
            /\ session.ready[i].failure \in {"success", "connection_refused"}
  <2>1. CASE opened = new(k)
    BY <1>2, <2>1 DEF new, post, done
  <2>2. CASE opened = connected(new(k))
    BY <1>2, <2>2 DEF new, connected, complete, post, done
  <2>3. CASE opened = refused(new(k))
    BY <1>2, <2>3 DEF new, refused, complete, post, done
  <2> QED BY <2>1, <2>2, <2>3
<1>7. \A c \in Queued(session) :
        c.op \in {"connect", "start"} /\ c.failure \in {"success", "connection_refused"}
  BY <1>6 DEF Queued
<1>8. \A ops \in SUBSET {"receive", "eof", "send"} : InHand(session, ops) = {}
  BY <1>7 DEF InHand
<1>9. /\ InHand(session, {"receive", "eof"}) = {} /\ InHand(session, {"send"}) = {}
      /\ InHand(session, {"eof"}) = {} /\ InHand(session, {"receive", "eof", "send"}) = {}
  BY <1>8
<1>10. ResultInv
  BY <1>7 DEF ResultInv, SystemError
<1>11. StreamInv /\ OutboundInv
  BY <1>3, <1>6, <1>9 DEF StreamInv, OutboundInv, Marked, Unbroken
<1>12. LinkInv /\ EndInv
  BY <1>4, <1>6, <1>9 DEF LinkInv, EndInv
<1>13. VerificationExact
  BY <1>3, <1>6 DEF VerificationExact
<1> QED BY <1>10, <1>11, <1>12, <1>13 DEF DataInv

-----------------------------------------------------------------------------
(* The theorems.                                                           *)

\* Every step keeps what is known of the bytes.
LEMMA DataStep ==
  ASSUME ControlInv, DataInv, [Next]_vars
  PROVE  ControlInv' /\ DataInv'
<1>1. ControlInv'
  BY ControlStep
<1>2. CASE Complete BY <1>1, <1>2, CompletesData
<1>3. CASE Handle BY <1>1, <1>3, HandleData
<1>4. CASE Environment
  BY <1>1, <1>4, PeerSendsData, PeerEndsData, PeerReadsData, ExitData DEF Environment
<1>5. CASE UNCHANGED vars
  BY <1>1, <1>5 DEF vars, DataInv, ResultInv, LinkInv, StreamInv, Marked, EndInv, Linked,
     VerificationExact, Running, OutboundInv, Unbroken
<1> QED BY <1>2, <1>3, <1>4, <1>5 DEF Next

\* The inductive invariant of the bytes: where in the streams of both directions
\* everything that is on its way is, whatever the peer sends.
THEOREM DataInvariant == Spec => []DataInv
<1>1. ControlInv /\ DataInv /\ [Next]_vars => ControlInv' /\ DataInv'
  BY DataStep
<1> QED BY <1>1, InitControl, InitData, PTL DEF Spec

\* Verification reports a wrong byte, and only a wrong byte (Session.cpp:198-229), for
\* every way in which the stream is split into receives.
THEOREM ExactVerification == Spec => []VerificationExact
<1>1. DataInv => VerificationExact
  BY DEF DataInv
<1> QED BY <1>1, DataInvariant, PTL

\* A session that finished has received all that the peer sent (TcpSession.cpp:80-114).
THEOREM FinishedComplete == Spec => []FinishedReceivedAll
<1>1. ASSUME ControlInv, DataInv, session.socket = "closed"
      PROVE  session.received = peer.sent /\ inbound = <<>> /\ peer.end # "open"
  <2>1. session.is_receive_complete /\ Free(session, ReceiveLane) /\ Linked(session)
    BY <1>1 DEF ControlInv, CoreInv, CompleteInv, Linked
  <2>2. inbound = <<>> /\ peer.end # "open"
    BY <1>1, <2>1 DEF DataInv, EndInv
  <2>3. InHand(session, {"receive", "eof"}) = {}
    BY <2>1 DEF Free, Outstanding, ReceiveLane, InHand
  <2>4. session.received + Len(inbound) = peer.sent
    BY <1>1, <2>1, <2>3 DEF DataInv, StreamInv
  <2>5. session.received \in Nat
    BY <1>1 DEF ControlInv, TypeOK, SessionState
  <2> QED BY <2>2, <2>4, <2>5
<1>2. ControlInv /\ DataInv => FinishedReceivedAll
  BY <1>1 DEF FinishedReceivedAll
<1> QED BY <1>2, ControlInvariant, DataInvariant, PTL

\* What the socket has accepted is the pattern without a gap, and never more than the
\* size (TcpSession.cpp:118-145), for every way in which sends are split.
THEOREM PatternSent == Spec => []SendsPattern
<1>1. ASSUME ControlInv, DataInv PROVE SendsPattern
  <2>1. \/ /\ BytesAccepted = session.sent
           /\ InHand(session, {"send"}) = {}
        \/ \E c \in InHand(session, {"send"}) : BytesAccepted = session.sent + Len(c.data)
    <3>1. CASE \E c \in Queued(session) : c.op = "send"
      <4>1. PICK c \in Queued(session) : c = CHOOSE e \in Queued(session) : e.op = "send"
        BY <3>1
      <4>2. c.op = "send"
        BY <3>1, <4>1
      <4>3. BytesAccepted = session.sent + Len(c.data)
        BY <3>1, <4>1 DEF BytesAccepted
      <4> QED BY <4>2, <4>3 DEF InHand
    <3>2. CASE ~ \E c \in Queued(session) : c.op = "send"
      <4>1. session.sent \in Nat
        BY <1>1 DEF ControlInv, TypeOK, SessionState
      <4> QED BY <3>2, <4>1 DEF BytesAccepted, InHand
    <3> QED BY <3>1, <3>2
  <2>2. Unbroken(BytesAccepted)
    <3>1. CASE BytesAccepted = session.sent /\ InHand(session, {"send"}) = {}
      BY <1>1, <3>1 DEF DataInv, OutboundInv
    <3>2. CASE \E c \in InHand(session, {"send"}) : BytesAccepted = session.sent + Len(c.data)
      BY <1>1, <3>2 DEF DataInv, OutboundInv
    <3> QED BY <2>1, <3>1, <3>2
  <2>3. BytesAccepted <= session.configuration.size
    <3>1. CASE BytesAccepted = session.sent
      BY <1>1, <3>1 DEF ControlInv, CoreInv, SendSizeInv
    <3>2. ASSUME NEW c \in InHand(session, {"send"}),
                 BytesAccepted = session.sent + Len(c.data)
          PROVE  BytesAccepted <= session.configuration.size
      <4>1. c \in Queued(session) /\ c.op = "send" /\ "send" \in Outstanding(session)
        BY <3>2 DEF InHand, Outstanding
      <4>2. /\ Len(c.data) <= session.send_slice
            /\ session.sent + session.send_slice <= session.configuration.size
        BY <1>1, <4>1 DEF ControlInv, CoreInv, SendSizeInv
      <4>3. session.sent \in Nat /\ session.send_slice \in Nat
            /\ session.configuration \in SessionConfiguration
        BY <1>1 DEF ControlInv, TypeOK, SessionState
      <4>4. session.configuration.size \in Nat
        BY <4>3 DEF SessionConfiguration
      <4>5. c \in Completion
        BY <1>1, <4>1, OutstandingType DEF ControlInv, TypeOK
      <4>6. Len(c.data) \in Nat
        BY <4>5 DEF Completion
      <4> QED BY <3>2, <4>2, <4>3, <4>4, <4>6
    <3> QED BY <2>1, <3>1, <3>2
  <2> QED BY <2>2, <2>3 DEF SendsPattern, Unbroken
<1> QED BY <1>1, ControlInvariant, DataInvariant, PTL

-----------------------------------------------------------------------------
(* 3. The promise.                                                         *)

\* The promise speaks of the same failures.
LEMMA SameErrors ==
  /\ Promise!ErrorCode = ErrorCode
  /\ Promise!Interruption = Interruptions
BY DEF Promise!ErrorCode, Promise!Error, Promise!SystemError, ErrorCode, Error,
       SystemError, Promise!Interruption, Interruptions

\* A session starts unfinished.
LEMMA PromiseInit == Init => Promise!Init
<1> SUFFICES ASSUME Init PROVE Promise!Init
  OBVIOUS
<1>1. PICK c \in Configurations :
        \E opened \in {new(c), connected(new(c)), refused(new(c))} :
            session = post(opened, done("start", "success", <<>>))
  BY DEF Init, initialize
<1>2. PICK opened \in {new(c), connected(new(c)), refused(new(c))} :
        session = post(opened, done("start", "success", <<>>))
  BY <1>1
<1> DEFINE n == new(c)
<1>3. /\ CoreInv(n) /\ ProgressInv(n) /\ "connect" \in n.waiting
  BY ConfigurationsAssumption, NewCore
<1>4. /\ n.failure = "success" /\ n.exit_requested = FALSE
      /\ n.is_receive_complete = FALSE
  BY DEF new
<1>5. opened \in {n, connected(n), refused(n)}
  OBVIOUS
<1> HIDE DEF n
<1>6. CoreInv(opened) /\ SameOutcome(opened, n)
  BY <1>3, <1>5, ConnectCore DEF SameOutcome
<1>7. /\ opened \in SessionState /\ opened.socket # "closed"
      /\ opened.failure = "success" /\ opened.exit_requested = FALSE
  BY <1>4, <1>6 DEF CoreInv, CompleteInv, SameOutcome
<1>8. /\ session.socket # "closed"
      /\ session.failure = "success" /\ session.exit_requested = FALSE
  BY <1>2, <1>7 DEF post, SessionState
<1> QED BY <1>8 DEF Promise!Init, Promise!Unfinished, OutcomeOf

\* The outcome of a session that is not closed is its failure,
LEMMA ActiveOutcome ==
  ASSUME NEW st, st.socket # "closed"
  PROVE  OutcomeOf(st) = [status |-> "active", failure |-> st.failure]
BY DEF OutcomeOf

\* and a closed one is finished until it has nothing left to call.
LEMMA ClosedOutcome ==
  ASSUME NEW st, st.socket = "closed"
  PROVE  OutcomeOf(st) = [status |-> IF stopped(st) THEN "idle" ELSE "finished",
                          failure |-> st.failure]
BY DEF OutcomeOf

\* What completes, completes for a session that is not closed.
LEMMA CompletePromise ==
  ASSUME ControlInv, Complete
  PROVE  UNCHANGED Promise!vars
<1>1. \E op \in session.waiting : Running
  BY DEF Complete, ConnectSucceeds, ConnectFails, ReceivesData, ReceiveFails,
         SendsData, SendFails, TimerExpires, SignalArrives, Waits
<1>2. session.socket # "closed" /\ session \in SessionState
  BY <1>1 DEF ControlInv, CoreInv, CompleteInv
<1>3. \E c : \/ session' = complete(session, c)
             \/ session' = [complete(session, c) EXCEPT !.socket = "connected"]
             \/ session' = [complete(session, c) EXCEPT !.socket = "unconnected"]
  BY DEF Complete, ConnectSucceeds, ConnectFails, ReceivesData, ReceiveFails,
         SendsData, SendFails, TimerExpires, SignalArrives, connected, refused
<1>4. /\ session'.socket # "closed"
      /\ session'.failure = session.failure
      /\ session'.exit_requested = session.exit_requested
  BY <1>2, <1>3 DEF complete, SessionState
<1> QED BY <1>2, <1>4, ActiveOutcome DEF Promise!vars

\* The handler of a session that is not closed, neither its timer's nor a signal's.
LEMMA ActivePromise ==
  ASSUME ControlInv, ControlInv', Running, session.socket # "closed",
         NEW d, Handled(session', d), "signal" \in Outstanding(d)
  PROVE  [Promise!Next]_(Promise!vars)
<1>1. /\ session.failure = "success" /\ session.exit_requested = FALSE
      /\ OutcomeOf(session) = [status |-> "active", failure |-> "success"]
  BY ActiveOutcome DEF ControlInv, ProgressInv, Running, TypeOK, SessionState
<1>2. CASE session'.exit_requested
  <2>1. /\ session'.failure \in Reported
        /\ session'.socket # "closed"
        /\ session'.exit_requested = TRUE
    BY <1>2 DEF Handled, ControlInv, TypeOK, CoreInv, AbortedInv, Reported, SessionState
  <2>2. OutcomeOf(session)' = [status |-> "active", failure |-> session'.failure]
    BY <2>1 DEF OutcomeOf
  <2>3. Promise!aborts(OutcomeOf(session)) =
            [status : {"active"},
             failure : Promise!ErrorCode \ {"success", "operation_aborted", "eof"}]
                \cup [status : {"finished"}, failure : {"data_mismatch"}]
    BY <1>1 DEF Promise!aborts
  <2>4. OutcomeOf(session)' \in Promise!aborts(OutcomeOf(session))
    BY <2>1, <2>2, <2>3, SameErrors DEF Reported
  <2> QED BY <1>1, <2>1, <2>4 DEF Promise!Next, Promise!Aborts
<1>3. CASE ~session'.exit_requested
  <2>1. session'.failure = "success" /\ session'.exit_requested = FALSE
    BY <1>3 DEF ControlInv, ProgressInv, TypeOK, SessionState
  <2>2. CASE session'.socket # "closed"
    <3>1. OutcomeOf(session)' = OutcomeOf(session)
      BY <1>1, <2>1, <2>2 DEF OutcomeOf
    <3> QED BY <1>1, <2>1, <3>1 DEF Promise!vars
  <2>3. CASE session'.socket = "closed"
    <3>1. "signal" \in Outstanding(session') /\ session'.waiting = {}
      BY <1>3, <2>3 DEF Handled, ControlInv, CoreInv, CompleteInv
    <3>2. session'.ready # <<>>
      BY <3>1 DEF Outstanding, Queued
    <3>3. OutcomeOf(session)' = [status |-> "finished", failure |-> "success"]
      BY <2>1, <2>3, <3>2 DEF OutcomeOf, stopped
    <3>4. OutcomeOf(session)' \in Promise!advances(OutcomeOf(session))
      BY <1>1, <3>3 DEF Promise!advances
    <3> QED BY <1>1, <2>1, <3>4 DEF Promise!Next, Promise!Advances
  <2> QED BY <2>2, <2>3
<1> QED BY <1>2, <1>3

\* The handlers of the timer and of signals, before and after the session is closed.
LEMMA InterruptionPromise ==
  ASSUME ControlInv, ControlInv', Running, session.ready # <<>>,
         \/ session' = dispatch(session) /\ session.socket = "closed"
         \/ \E f \in Interruptions : session' = abort(dispatch(session), f)
  PROVE  [Promise!Next]_(Promise!vars)
<1> DEFINE d == dispatch(session)
<1>1. /\ d.socket = session.socket /\ CoreInv(d)
      /\ d.failure = session.failure
      /\ d.exit_requested = session.exit_requested
  BY DispatchControl DEF SameOutcome
<1>2. session.failure = "success" /\ session.exit_requested = FALSE
  BY DEF ControlInv, ProgressInv, Running, TypeOK, SessionState
<1> HIDE DEF d
<1>3. ASSUME NEW f \in Interruptions, session' = abort(d, f)
      PROVE  [Promise!Next]_(Promise!vars)
  <2>1. f \in Reported
    BY DEF Interruptions, Reported, ErrorCode, Error
  <2>2. /\ session'.socket = session.socket /\ session'.failure = f
        /\ session'.exit_requested
    BY <1>1, <1>3, <2>1, AbortCore
  <2>3. session'.exit_requested = TRUE
    BY <2>2 DEF ControlInv, TypeOK, SessionState
  <2>4. OutcomeOf(session)' \in Promise!aborts(OutcomeOf(session))
    <3>1. CASE session.socket # "closed"
      <4>1. /\ OutcomeOf(session) = [status |-> "active", failure |-> "success"]
            /\ OutcomeOf(session)' = [status |-> "active", failure |-> f]
        BY <1>2, <2>2, <3>1 DEF OutcomeOf
      <4>2. Promise!aborts(OutcomeOf(session)) =
                [status : {"active"},
                 failure : Promise!ErrorCode \ {"success", "operation_aborted", "eof"}]
                    \cup [status : {"finished"}, failure : {"data_mismatch"}]
        <5>1. OutcomeOf(session).status = "active"
          BY <4>1
        <5> QED BY <5>1 DEF Promise!aborts
      <4> QED BY <2>1, <4>1, <4>2, SameErrors DEF Reported
    <3>2. CASE session.socket = "closed"
      <4>1. OutcomeOf(session) = [status |-> "finished", failure |-> "success"]
        BY <1>2, <3>2 DEF OutcomeOf, stopped
      <4>2. OutcomeOf(session)' \in [status : {"finished", "idle"}, failure : {f}]
        BY <2>2, <3>2 DEF OutcomeOf
      <4>3. Promise!aborts(OutcomeOf(session)) =
                [status : {"finished", "idle"}, failure : Promise!Interruption]
        <5>1. OutcomeOf(session).status = "finished"
          BY <4>1
        <5> QED BY <5>1 DEF Promise!aborts
      <4> QED BY <4>2, <4>3, SameErrors
    <3> QED BY <3>1, <3>2
  <2> QED BY <1>2, <2>3, <2>4 DEF Promise!Next, Promise!Aborts
<1>4. CASE session' = d /\ session.socket = "closed"
  <2>1. /\ session'.socket = "closed" /\ session'.failure = "success"
        /\ session'.exit_requested = FALSE
    BY <1>1, <1>2, <1>4
  <2>2. OutcomeOf(session) = [status |-> "finished", failure |-> "success"]
    BY <1>2, <1>4 DEF OutcomeOf, stopped
  <2>3. OutcomeOf(session)' = [status |-> IF stopped(session') THEN "idle" ELSE "finished",
                               failure |-> "success"]
    BY <2>1 DEF OutcomeOf, stopped
  <2>4. CASE stopped(session')
    <3>1. OutcomeOf(session)' \in Promise!advances(OutcomeOf(session))
      BY <2>2, <2>3, <2>4 DEF Promise!advances
    <3> QED BY <1>2, <2>1, <3>1 DEF Promise!Next, Promise!Advances
  <2>5. CASE ~stopped(session')
    BY <1>2, <2>1, <2>2, <2>3, <2>5 DEF Promise!vars
  <2> QED BY <2>4, <2>5
<1> QED BY <1>3, <1>4 DEF d

\* A closed session has no other handler left than that of its timer and of a signal.
LEMMA ClosedDispatches ==
  ASSUME ControlInv, session.socket = "closed", NEW op, Dispatches(op)
  PROVE  op \in {"timeout", "signal"}
<1>1. op \in Outstanding(session)
  BY DispatchControl DEF Dispatches
<1>2. Outstanding(session) \subseteq Operation
  BY OutstandingType DEF ControlInv, TypeOK
<1>3. /\ "start" \notin Outstanding(session)
      /\ Free(session, ReceiveLane) /\ Free(session, SendLane)
  BY DEF ControlInv, CoreInv, CompleteInv
<1> QED
  BY <1>1, <1>2, <1>3 DEF Free, ReceiveLane, SendLane, Operation, SocketOps, ThrottleOps

\* The handlers of the transfer are those of a session that is not closed, and leave its
\* wait for a signal as it is.
LEMMA TransferHandled ==
  ASSUME ControlInv, Handle, ~(HandleTimeout \/ HandleSignal)
  PROVE  /\ Handled(session', dispatch(session))
         /\ Running /\ session.ready # <<>> /\ session.socket # "closed"
         /\ Head(session.ready).op \notin {"timeout", "signal"}
         /\ "signal" \in Outstanding(dispatch(session))
<1> DEFINE d == dispatch(session)
           Others == {"start", "connect", "receive_throttle", "receive", "eof",
                      "send_throttle", "send"}
<1>1. PICK op \in Others : Dispatches(op)
  BY DEF Handle, HandleStart, HandleConnect, HandleReceiveThrottle,
         HandleReceive, HandleEof, HandleSendThrottle, HandleSend
<1>2. Handled(session', d)
  <2>1. CASE HandleStart BY <2>1, StartControl DEF HandleStart
  <2>2. CASE HandleConnect BY <2>2, ConnectControl DEF HandleConnect
  <2>3. CASE HandleReceiveThrottle
    BY <2>3, ReceiveThrottleControl DEF HandleReceiveThrottle
  <2>4. CASE HandleReceive BY <2>4, ReceiveControl DEF HandleReceive
  <2>5. CASE HandleEof BY <2>5, EofControl DEF HandleEof
  <2>6. CASE HandleSendThrottle
    BY <2>6, SendThrottleControl DEF HandleSendThrottle
  <2>7. CASE HandleSend BY <2>7, SendControl DEF HandleSend
  <2> QED BY <2>1, <2>2, <2>3, <2>4, <2>5, <2>6, <2>7 DEF Handle
<1>3. session.socket # "closed"
  BY <1>1, ClosedDispatches
<1>4. /\ Running /\ session.ready # <<>> /\ Head(session.ready).op = op
      /\ d.socket = session.socket
      /\ d.socket = "closed" \/ "signal" \in Outstanding(d)
  BY <1>1, DispatchControl DEF Dispatches
<1> HIDE DEF d
<1> QED BY <1>2, <1>3, <1>4 DEF d

\* Each handler is a step of the promise, and does not request the exit without a reason.
LEMMA HandlePromise ==
  ASSUME ControlInv, ControlInv', Handle
  PROVE  /\ [Promise!Next]_(Promise!vars)
         /\ session'.exit_requested => session'.failure # "success"
<1> DEFINE d == dispatch(session)
<1>1. CASE HandleTimeout \/ HandleSignal
  <2>1. Running /\ session.ready # <<>>
    BY <1>1 DEF HandleTimeout, HandleSignal, Dispatches
  <2>2. \/ session' = d /\ session.socket = "closed"
        \/ \E f \in Interruptions : session' = abort(d, f)
    BY <1>1, TimeoutControl DEF HandleTimeout, HandleSignal
  <2>3. CoreInv(d) /\ ~d.exit_requested
    BY <2>1, DispatchControl
  <2> HIDE DEF d
  <2>4. ASSUME NEW f \in Interruptions, session' = abort(d, f)
        PROVE  session'.failure # "success"
    <3>1. f \in Reported /\ f # "success"
      BY DEF Interruptions, Reported, ErrorCode, Error
    <3> QED BY <2>3, <2>4, <3>1, AbortCore
  <2> QED BY <2>1, <2>2, <2>3, <2>4, InterruptionPromise DEF d
<1>2. CASE ~(HandleTimeout \/ HandleSignal)
  <2>1. /\ Handled(session', d) /\ Running /\ session.socket # "closed"
        /\ "signal" \in Outstanding(d)
    BY <1>2, TransferHandled
  <2> HIDE DEF d
  <2> QED BY <2>1, ActivePromise DEF Handled
<1> QED BY <1>1, <1>2

\* The exit that another session requests changes nothing else.
LEMMA EnvironmentPromise ==
  ASSUME ControlInv, Environment
  PROVE  [Promise!Next]_(Promise!vars)
<1>1. CASE ExitRequestedElsewhere
  <2>1. session \in SessionState /\ session.exit_requested = FALSE
    BY <1>1 DEF ExitRequestedElsewhere, ControlInv, TypeOK, Running, SessionState
  <2>2. /\ session'.socket = session.socket /\ session'.failure = session.failure
        /\ session'.waiting = session.waiting /\ session'.ready = session.ready
        /\ session'.exit_requested = TRUE
    BY <1>1, <2>1 DEF ExitRequestedElsewhere, SessionState
  <2>3. OutcomeOf(session)' = OutcomeOf(session)
    BY <2>2 DEF OutcomeOf, stopped
  <2> QED BY <2>1, <2>2, <2>3 DEF Promise!Next, Promise!ExitRequestedElsewhere
<1>2. CASE ~ExitRequestedElsewhere
  <2>1. session' = session
    BY <1>2 DEF Environment, PeerSends, PeerShutsDown, PeerResets, PeerReads
  <2> QED BY <2>1 DEF Promise!vars, OutcomeOf, stopped
<1> QED BY <1>1, <1>2

\* What the application relies on: a session fails once at most, finishes once, and is
\* idle only after it was closed (Session.cpp:258-284), whatever its peer does.
THEOREM PromiseKept == Spec => KeepsPromise
<1>1. Init => Promise!Init
  BY PromiseInit
<1>2. ControlInv /\ ControlInv' /\ [Next]_vars => [Promise!Next]_(Promise!vars)
  <2> SUFFICES ASSUME ControlInv, ControlInv', [Next]_vars
               PROVE  [Promise!Next]_(Promise!vars)
    OBVIOUS
  <2>1. CASE Next
    BY <2>1, CompletePromise, HandlePromise, EnvironmentPromise DEF Next
  <2>2. CASE UNCHANGED vars
    BY <2>2 DEF vars, Promise!vars, OutcomeOf, stopped
  <2> QED BY <2>1, <2>2
<1> QED BY <1>1, <1>2, ControlInvariant, PTL DEF Spec, KeepsPromise, Promise!Spec

-----------------------------------------------------------------------------
(* A session as its program sees it.                                       *)

\* A session that was just created has no signal and waits for one.
LEMMA SignalsInit ==
  ASSUME NEW c \in SessionConfiguration, NEW st \in initialize(c)
  PROVE  /\ SignalsKnown(st) /\ ~HasSignal(st)
         /\ OutcomeOf(st) = Promise!Unfinished /\ ~st.exit_requested
<1> DEFINE Opened(o) ==
        /\ o.waiting \in {{"signal", "connect"}, {"signal"}}
        /\ o.ready \in Seq(Completion)
        /\ \A e \in Queued(o) : e.op = "connect"
        /\ o.socket # "closed" /\ o.failure = "success" /\ ~o.exit_requested
<1>1. PICK o \in {new(c), connected(new(c)), refused(new(c))} :
            st = post(o, done("start", "success", <<>>))
  BY DEF initialize
<1>2. /\ "success" \in ErrorCode /\ "connection_refused" \in ErrorCode
      /\ "connect" \in Operation /\ "start" \in Operation
  BY DEF ErrorCode, Error, SystemError, Operation, SocketOps
<1>3. o \in SessionState /\ Opened(o)
  <2> DEFINE n == new(c)
             a == done("connect", "success", <<>>)
             b == done("connect", "connection_refused", <<>>)
  <2>1. n \in SessionState /\ n.ready = <<>> /\ n.waiting = {"signal", "connect"}
        /\ n.socket = "connecting" /\ n.failure = "success" /\ ~n.exit_requested
    BY <1>2 DEF new, SessionState, Operation, SocketOps
  <2>2. /\ a \in Completion /\ a.op = "connect"
        /\ b \in Completion /\ b.op = "connect"
    BY <1>2, DoneEmptyType
  <2> HIDE DEF n, a, b
  <2>3. ASSUME NEW e \in {a, b}, NEW s \in {"connected", "unconnected"},
               o = [complete(n, e) EXCEPT !.socket = s]
        PROVE  o \in SessionState /\ Opened(o)
    <3> DEFINE m == complete(n, e)
    <3>1. e \in Completion /\ e.op = "connect"
      BY <2>2
    <3>2. Append(n.ready, e) \in Seq(Completion) /\ n.waiting \ {e.op} = {"signal"}
      BY <2>1, <3>1 DEF SessionState
    <3>3. /\ m \in SessionState
          /\ m.waiting = {"signal"} /\ m.ready = Append(n.ready, e)
          /\ m.failure = "success" /\ ~m.exit_requested
      BY <2>1, <3>2 DEF complete, SessionState
    <3>4. o = [m EXCEPT !.socket = s]
      BY <2>3
    <3> HIDE DEF m
    <3>5. /\ o.waiting = {"signal"} /\ o.ready = Append(n.ready, e)
          /\ o.socket = s /\ o.failure = "success" /\ ~o.exit_requested
          /\ o \in SessionState
      BY <3>3, <3>4 DEF SessionState
    <3>6. \A q \in Queued(o) : q.op = "connect"
      <4>1. o.ready = <<e>>
        BY <2>1, <3>5
      <4> QED BY <3>1, <4>1 DEF Queued
    <3> QED BY <3>5, <3>6 DEF SessionState
  <2>4. CASE o = n
    <3>1. Queued(n) = {}
      BY <2>1 DEF Queued
    <3> QED BY <2>1, <2>4, <3>1 DEF SessionState
  <2>5. CASE o # n
    <3>1. \/ o = [complete(n, a) EXCEPT !.socket = "connected"]
          \/ o = [complete(n, b) EXCEPT !.socket = "unconnected"]
      BY <1>1, <2>5 DEF connected, refused, n, a, b
    <3> QED BY <2>3, <3>1
  <2> QED BY <2>4, <2>5
<1> DEFINE e == done("start", "success", <<>>)
<1>4. e.op = "start"
  BY DEF done
<1> HIDE DEF e
<1>5. /\ st.waiting = o.waiting /\ st.ready = Append(o.ready, e)
      /\ st.socket = o.socket /\ st.failure = "success" /\ ~st.exit_requested
  BY <1>1, <1>3 DEF post, SessionState, e
<1>6. Queued(st) = Queued(o) \cup {e}
  BY <1>3, <1>5, QueuedAppend
<1>7. \A q \in Queued(st) : q.op # "signal"
  BY <1>3, <1>4, <1>6
<1>8. "signal" \in Outstanding(st)
  BY <1>3, <1>5 DEF Outstanding
<1>9. SignalsKnown(st) /\ ~HasSignal(st)
  BY <1>5, <1>7, <1>8 DEF SignalsKnown, OnlyInterrupts, HasSignal
<1> QED BY <1>3, <1>5, <1>9 DEF OutcomeOf, Promise!Unfinished

\* A handler.
LEMMA SignalsOfHandler ==
  ASSUME ControlInv, ControlInv', ResultInv, SignalsKnown(session), Handle
  PROVE  SignalsKnown(session') /\ (GoesOn(session', session) \/ Fails(session', session))
<1> DEFINE c == Head(session.ready)
           d == dispatch(session)
<1>1. /\ Running /\ session.ready # <<>> /\ Effect(session', c)
  BY HandleEffect
<1>2. /\ session \in SessionState /\ QueueInv(session)
      /\ session.failure = "success"
      /\ Dequeues(session', session)
  BY <1>1 DEF ControlInv, CoreInv, ProgressInv, Running, Effect, Dequeues
<1>3. /\ Outstanding(d) = Outstanding(session) \ {c.op}
      /\ CoreInv(d) /\ ~d.exit_requested /\ d.socket = session.socket
      /\ d.failure = "success" /\ c \in Queued(session) /\ c.op \in Outstanding(session)
  BY <1>1, <1>2, DispatchControl DEF SameOutcome
<1>4. \A f \in Reported :
        /\ abort(d, f).failure = f /\ abort(d, f).exit_requested
        /\ Outstanding(abort(d, f)) = Outstanding(d)
        /\ abort(d, f).socket = d.socket
  BY <1>3, AbortCore
<1>5. {"test_timeout", "user_interrupt"} \subseteq Reported
  BY DEF Reported, ErrorCode, Error
<1>6. CASE HandleSignal
  <2>1. c.op = "signal" /\ session' = on_signal(d, c)
    BY <1>6 DEF HandleSignal, Dispatches
  <2>2. \/ c.failure = "operation_aborted"
        \/ c.failure = "success" /\ c.data = <<SIGINT>>
    BY <1>3, <2>1 DEF SignalsKnown, OnlyInterrupts
  <2> HIDE DEF c, d
  <2>3. CASE c.failure = "operation_aborted"
    <3>1. session' = d /\ session.socket = "closed"
      BY <1>3, <2>1, <2>3 DEF on_signal, ControlInv, CoreInv, AbortedInv
    <3> QED BY <1>1, <1>2, <1>3, <2>1, <2>3, <3>1, SignalsHandled DEF c
  <2>4. CASE c.failure = "success" /\ c.data = <<SIGINT>>
    <3>0. c.data[1] = SIGINT /\ SIGINT # SIGTERM
      BY <2>4 DEF SIGINT, SIGTERM
    <3>1. session' = abort(d, "user_interrupt")
      BY <2>1, <2>4, <3>0 DEF on_signal
    <3>2. /\ session'.failure = "user_interrupt" /\ session'.exit_requested
          /\ Outstanding(session') = Outstanding(d) /\ session'.socket = session.socket
      BY <1>3, <1>4, <1>5, <3>1
    <3> QED BY <1>1, <1>2, <1>3, <2>1, <2>4, <3>2, SignalsHandled DEF c
  <2> QED BY <2>2, <2>3, <2>4
<1>7. CASE HandleTimeout
  <2>1. c.op = "timeout" /\ session' \in {d, abort(d, "test_timeout")}
    BY <1>7 DEF HandleTimeout, Dispatches, on_timeout
  <2> HIDE DEF c, d
  <2>2. /\ session'.failure \in {"success", "test_timeout"}
        /\ session'.exit_requested => session'.failure # "success"
        /\ Outstanding(session') = Outstanding(d) /\ session'.socket = session.socket
    BY <1>3, <1>4, <1>5, <2>1
  <2> QED BY <1>1, <1>2, <1>3, <2>1, <2>2, SignalsHandled DEF c, SignalFailures
<1>8. CASE ~(HandleTimeout \/ HandleSignal)
  <2>1. /\ Handled(session', d) /\ session.socket # "closed"
        /\ c.op \notin {"timeout", "signal"}
    BY <1>8, TransferHandled
  <2>2. session'.failure \notin SignalFailures
    <3>1. \/ session'.failure \in {"success", "data_mismatch"}
          \/ session'.failure = Reason(c)
      BY <1>1, <2>1 DEF Effect, MayReport
    <3>2. c.failure \in SystemError \cup {"success"}
      BY <1>3 DEF ResultInv
    <3> HIDE DEF c
    <3> QED BY <3>1, <3>2 DEF Reason, SignalFailures, SystemError
  <2> HIDE DEF c, d
  <2> QED BY <1>1, <1>2, <1>3, <2>1, <2>2, SignalsHandled DEF c, Handled
<1> QED BY <1>6, <1>7, <1>8

\* A completion, of another operation than the wait for a signal.
LEMMA SignalsOfCompletion ==
  ASSUME ControlInv, SignalsKnown(session),
         NEW c, c.op \in session.waiting \ {"signal"},
         \/ session' = complete(session, c)
         \/ session' = [complete(session, c) EXCEPT !.socket = "connected"]
         \/ session' = [complete(session, c) EXCEPT !.socket = "unconnected"]
  PROVE  /\ SignalsKnown(session') /\ (HasSignal(session') <=> HasSignal(session))
         /\ OutcomeOf(session)' = OutcomeOf(session)
         /\ session'.exit_requested = session.exit_requested
<1>1. session \in SessionState /\ session.socket # "closed"
  BY DEF ControlInv, CoreInv, CompleteInv
<1>2. /\ session'.waiting = session.waiting \ {c.op}
      /\ session'.ready = Append(session.ready, c)
      /\ session'.failure = session.failure
      /\ session'.exit_requested = session.exit_requested
      /\ session'.socket # "closed"
  BY <1>1 DEF complete, SessionState
<1>3. OutcomeOf(session)' = OutcomeOf(session)
  BY <1>1, <1>2, ActiveOutcome
<1> QED BY <1>1, <1>2, <1>3, SignalsCompleted

\* The network, the peer and the timers of a session do nothing to its signals, nor to
\* what the application knows of it.
LEMMA SignalsOfNetwork ==
  ASSUME ControlInv, SignalsKnown(session),
         \/ ConnectSucceeds \/ ConnectFails
         \/ ReceivesData("receive") \/ ReceiveFails("receive")
         \/ ReceivesData("eof") \/ ReceiveFails("eof")
         \/ SendsData \/ SendFails
         \/ \E op \in {"receive_throttle", "send_throttle", "timeout"} : TimerExpires(op)
         \/ \E byte \in Byte : PeerSends(byte)
         \/ PeerShutsDown \/ PeerResets
  PROVE  /\ SignalsKnown(session') /\ (HasSignal(session') <=> HasSignal(session))
         /\ OutcomeOf(session)' = OutcomeOf(session)
         /\ session'.exit_requested = session.exit_requested
<1> DEFINE OneCompletes == \E c :
                /\ c.op \in session.waiting \ {"signal"}
                /\ \/ session' = complete(session, c)
                   \/ session' = [complete(session, c) EXCEPT !.socket = "connected"]
                   \/ session' = [complete(session, c) EXCEPT !.socket = "unconnected"]
<1>1. \A op, failure, data : done(op, failure, data).op = op
  BY DEF done
<1>2. CASE ConnectSucceeds \/ ConnectFails
  <2>1. OneCompletes
    BY <1>1, <1>2 DEF ConnectSucceeds, ConnectFails, Waits, connected, refused
  <2> QED BY <2>1, SignalsOfCompletion
<1>3. CASE \E op \in {"receive", "eof"} : ReceivesData(op) \/ ReceiveFails(op)
  <2>1. OneCompletes
    BY <1>1, <1>3 DEF ReceivesData, ReceiveFails, Waits
  <2> QED BY <2>1, SignalsOfCompletion
<1>4. CASE SendsData \/ SendFails
  <2>1. OneCompletes
    BY <1>1, <1>4 DEF SendsData, SendFails, Waits
  <2> QED BY <2>1, SignalsOfCompletion
<1>5. CASE \E op \in {"receive_throttle", "send_throttle", "timeout"} : TimerExpires(op)
  <2>1. OneCompletes
    BY <1>1, <1>5 DEF TimerExpires, Waits
  <2> QED BY <2>1, SignalsOfCompletion
<1>6. CASE (\E byte \in Byte : PeerSends(byte)) \/ PeerShutsDown \/ PeerResets
  <2>1. session' = session
    BY <1>6 DEF PeerSends, PeerShutsDown, PeerResets
  <2> QED BY <2>1 DEF OutcomeOf, stopped
<1> QED BY <1>2, <1>3, <1>4, <1>5, <1>6

\* A signal that the session waits for: also when its handlers are not called any more.
LEMMA SignalsOfSignal ==
  ASSUME ControlInv, DataInv, SignalsKnown(session), "signal" \in session.waiting,
         session' = complete(session, done("signal", "success", <<SIGINT>>)),
         UNCHANGED <<inbound, outbound, peer>>
  PROVE  /\ ControlInv' /\ DataInv'
         /\ SignalsKnown(session') /\ HasSignal(session')
         /\ OutcomeOf(session)' = OutcomeOf(session)
         /\ session'.exit_requested = session.exit_requested
<1> DEFINE c == done("signal", "success", <<SIGINT>>)
<1>1. c \in Completion /\ c.op = "signal" /\ c.failure = "success"
  <2>1. /\ "signal" \in Operation /\ "success" \in ErrorCode
        /\ <<SIGINT>> \in Seq(Nat)
    BY DEF Operation, ErrorCode, Error, SIGINT
  <2>2. \A data \in Seq(Nat) : done("signal", "success", data) \in Completion
    BY <2>1, DoneType
  <2> QED BY <2>1, <2>2 DEF done
<1>2. SignalsKnown(session') /\ HasSignal(session')
  BY SignalsQueued DEF ControlInv, TypeOK
<1> HIDE DEF c
<1>3. session' = complete(session, c)
  BY DEF c
<1>4. /\ CoreInv(session') /\ ProgressInv(session') /\ session'.socket = session.socket
      /\ SameOutcome(session', session)
  BY <1>1, <1>3, CompleteCore DEF ControlInv
<1>5. ControlInv'
  BY <1>4 DEF ControlInv, TypeOK, CoreInv
<1>6. DataInv'
  BY <1>1, <1>3, TimerData
<1>7. session.socket # "closed"
  BY DEF ControlInv, CoreInv, CompleteInv
<1>8. OutcomeOf(session)' = OutcomeOf(session)
  BY <1>4, <1>7, ActiveOutcome DEF SameOutcome
<1> QED BY <1>2, <1>4, <1>5, <1>6, <1>8 DEF SameOutcome

\* What a handler makes of the outcome of its session, beside what becomes of signals.
LEMMA HandlerSeen ==
  ASSUME ControlInv, ControlInv', ResultInv, SignalsKnown(session), Handle
  PROVE  /\ SignalsKnown(session')
         /\ OutcomeOf(session).status # "idle"
         /\ session'.failure \in ErrorCode
         /\ \/ /\ GoesOn(session', session)
               /\ \/ OutcomeOf(session)' = OutcomeOf(session)
                  \/ OutcomeOf(session)' \in Promise!advances(OutcomeOf(session))
               /\ HasSignal(session) => OutcomeOf(session)'.status # "idle"
            \/ /\ Fails(session', session)
               /\ OutcomeOf(session)' \in Promise!aborts(OutcomeOf(session))
<1>1. /\ SignalsKnown(session')
      /\ GoesOn(session', session) \/ Fails(session', session)
  BY SignalsOfHandler
<1>2. [Promise!Next]_(Promise!vars)
  BY HandlePromise
<1>3. ~session.exit_requested /\ session.ready # <<>>
  BY DEF Handle, HandleStart, HandleConnect, HandleReceiveThrottle, HandleReceive, HandleEof,
     HandleSendThrottle, HandleSend, HandleTimeout, HandleSignal, Dispatches, Running
<1>4. session.failure = "success" /\ session'.failure \in ErrorCode
  BY <1>3 DEF ControlInv, TypeOK, CoreInv, ProgressInv, SessionState
<1>5. OutcomeOf(session).status # "idle"
  BY <1>3 DEF OutcomeOf, stopped
<1>6. CASE GoesOn(session', session)
  <2>1. ~session'.exit_requested /\ (HasSignal(session') <=> HasSignal(session))
    BY <1>6 DEF GoesOn
  <2>2. \/ OutcomeOf(session)' = OutcomeOf(session)
        \/ OutcomeOf(session)' \in Promise!advances(OutcomeOf(session))
    BY <1>2, <2>1 DEF Promise!Next, Promise!Advances, Promise!Aborts,
       Promise!ExitRequestedElsewhere, Promise!vars
  <2>3. HasSignal(session') => OutcomeOf(session)'.status # "idle"
    BY DEF HasSignal, Queued, OutcomeOf, stopped
  <2> QED BY <1>1, <1>4, <1>5, <1>6, <2>1, <2>2, <2>3
<1>7. CASE Fails(session', session)
  <2>1. session'.exit_requested /\ session'.failure # "success"
    BY <1>7 DEF Fails
  <2>2. OutcomeOf(session)' # OutcomeOf(session)
    BY <1>4, <2>1 DEF OutcomeOf
  <2>3. OutcomeOf(session)' \in Promise!aborts(OutcomeOf(session))
    BY <1>2, <1>3, <2>1, <2>2 DEF Promise!Next, Promise!Advances, Promise!Aborts,
       Promise!ExitRequestedElsewhere, Promise!vars
  <2> QED BY <1>1, <1>4, <1>5, <1>7, <2>3
<1> QED BY <1>1, <1>6, <1>7

\* What the wait for a signal means for the outcome,
LEMMA SignalSeen ==
  ASSUME ControlInv, SignalsKnown(session)
  PROVE  LET o == OutcomeOf(session)
         IN  /\ "signal" \in session.waiting =>
                    o.status = "active" /\ o.failure # "user_interrupt"
             /\ o.status = "active" /\ o.failure # "user_interrupt" =>
                    "signal" \in session.waiting \/ HasSignal(session)
<1>1. /\ session.socket = "closed" => session.waiting = {}
      /\ \A c \in Queued(session) :
            c.failure = "operation_aborted" => session.socket = "closed"
  BY DEF ControlInv, CoreInv, CompleteInv, AbortedInv
<1>2. OutcomeOf(session).status = "active" <=> session.socket # "closed"
  BY DEF OutcomeOf
<1>3. OutcomeOf(session).failure = session.failure
  BY DEF OutcomeOf
<1> QED BY <1>1, <1>2, <1>3, SignalAwaited

\* what it means that there is no work left as long as nothing has requested the exit,
LEMMA StoppedSeen ==
  ASSUME ControlInv, ~session.exit_requested
  PROVE  stopped(session) <=> OutcomeOf(session).status = "idle"
<1>1. stopped(session) => Outstanding(session) = {}
  BY DEF stopped, Outstanding, Queued
<1>2. stopped(session) => session.socket = "closed"
  BY <1>1 DEF ControlInv, ProgressInv
<1> QED BY <1>2 DEF OutcomeOf

\* and what it means that the session is idle.
LEMMA IdleSeen ==
  ASSUME ControlInv, OutcomeOf(session).status = "idle"
  PROVE  /\ session.socket = "closed"
         /\ session.configuration.direction # "RX" =>
                session.sent = session.configuration.size
         /\ session.configuration.direction # "TX" =>
                session.received >= session.configuration.size
<1>1. session.socket = "closed"
  BY DEF OutcomeOf
<1>2. session.is_receive_complete /\ session.is_send_complete
  BY <1>1 DEF ControlInv, CoreInv, CompleteInv
<1>3. session.configuration.direction \in Direction
  BY DEF ControlInv, TypeOK, SessionState, SessionConfiguration
<1> QED BY <1>1, <1>2, <1>3 DEF ControlInv, CoreInv, ReceiveSizeInv, SendSizeInv, Direction

-----------------------------------------------------------------------------
(* 4. The policy.                                                          *)
(* What a session promises to the other end of its connection: when it may *)
(* shut its sending side down, and what it has received and sent by then.  *)

Policy(st) == st.configuration.shutdown_policy
Receiving == {"receive_throttle", "receive"}
Sending == {"send_throttle", "send"}

\* The operations of a transfer and the one that they wait for.
Tracked == {"connect"} \cup Receiving \cup Sending

\* What a session that has shut down its sending side has done before.
ShutInv(st) ==
    /\ Policy(st) = "SEND_COMPLETE" => st.is_send_complete
    /\ Policy(st) # "SEND_COMPLETE" =>
            \/ st.configuration.direction = "TX"
            \/ st.received >= st.configuration.size
    /\ Policy(st) = "WAIT_FOR_PEER" => st.is_receive_complete \/ st.exit_requested

\* A session transfers as long as its sizes are not reached, in its directions only.
PolicyInv(st) ==
    /\ Accepted(st.configuration)
    /\ st.socket = "connecting" => "connect" \in st.waiting
    /\ "connect" \in Outstanding(st) => st.received = 0 /\ st.sent = 0
    /\ Outstanding(st) \cap Receiving # {} =>
            st.configuration.direction # "TX" /\ st.received < st.configuration.size
    /\ Outstanding(st) \cap Sending # {} =>
            st.configuration.direction # "RX" /\ st.sent < st.configuration.size
    /\ st.configuration.direction = "RX" => st.sent = 0
    /\ st.socket = "shutdown" => ShutInv(st)

\* A step that counts no byte and starts no operation of the transfer.
LEMMA PolicyFrame ==
  ASSUME NEW a, PolicyInv(a), NEW b,
         b.configuration = a.configuration, b.received = a.received, b.sent = a.sent,
         Outstanding(b) \cap Tracked \subseteq Outstanding(a),
         b.socket = "connecting" => a.socket = "connecting" /\
            ("connect" \in a.waiting => "connect" \in b.waiting),
         b.socket = "shutdown" => ShutInv(b)
  PROVE  PolicyInv(b)
BY DEF PolicyInv, Tracked

\* The same, when what it has done before it shut down stays done.
LEMMA PolicyQuiet ==
  ASSUME NEW a, PolicyInv(a), NEW b,
         b.configuration = a.configuration, b.received = a.received, b.sent = a.sent,
         Outstanding(b) \cap Tracked \subseteq Outstanding(a),
         b.socket = a.socket, "connect" \in a.waiting => "connect" \in b.waiting,
         a.is_receive_complete => b.is_receive_complete,
         a.is_send_complete => b.is_send_complete,
         a.exit_requested => b.exit_requested
  PROVE  PolicyInv(b)
<1>1. b.socket = "shutdown" => ShutInv(b)
  BY DEF PolicyInv, ShutInv, Policy
<1> QED BY <1>1, PolicyFrame

\* What begin does to the queue of any session.
LEMMA BeginOutstanding ==
  ASSUME NEW st \in SessionState, NEW op
  PROVE  /\ Outstanding(begin(st, op)) = Outstanding(st) \cup {op}
         /\ begin(st, op).waiting = st.waiting \cup {op}
         /\ begin(st, op).socket = st.socket
         /\ begin(st, op).configuration = st.configuration
         /\ begin(st, op).received = st.received /\ begin(st, op).sent = st.sent
         /\ SameOutcome(begin(st, op), st)
<1> DEFINE b == begin(st, op)
<1>1. /\ b.waiting = st.waiting \cup {op} /\ b.ready = st.ready
      /\ b.socket = st.socket
      /\ b.configuration = st.configuration
      /\ b.received = st.received /\ b.sent = st.sent
      /\ SameOutcome(b, st)
  BY DEF begin, SessionState, SameOutcome
<1> HIDE DEF b
<1>2. Outstanding(b) = Outstanding(st) \cup {op}
  BY <1>1 DEF Outstanding, Queued
<1> QED BY <1>1, <1>2 DEF b

\* Initiating an operation of a direction that has not reached its size.
LEMMA PolicyBegin ==
  ASSUME NEW st \in SessionState, PolicyInv(st),
         NEW op \in Operation \ {"connect"},
         op \in Receiving =>
            st.configuration.direction # "TX" /\ st.received < st.configuration.size,
         op \in Sending =>
            st.configuration.direction # "RX" /\ st.sent < st.configuration.size
  PROVE  PolicyInv(begin(st, op))
<1> DEFINE b == begin(st, op)
<1>1. /\ Outstanding(b) = Outstanding(st) \cup {op}
      /\ b.waiting = st.waiting \cup {op}
      /\ b.socket = st.socket /\ b.configuration = st.configuration
      /\ b.received = st.received /\ b.sent = st.sent
      /\ SameOutcome(b, st)
  BY BeginOutstanding
<1> HIDE DEF b
<1>2. b.socket = "shutdown" => ShutInv(b)
  BY <1>1 DEF PolicyInv, ShutInv, Policy, SameOutcome
<1> QED BY <1>1, <1>2 DEF PolicyInv, Receiving, Sending, b

\* async_receive, before the size is reached.
LEMMA PolicyAsyncReceive ==
  ASSUME NEW st \in SessionState, PolicyInv(st), NEW slice \in Nat,
         st.configuration.direction # "TX", st.received < st.configuration.size
  PROVE  PolicyInv(async_receive(st, slice))
<1> DEFINE b == [st EXCEPT !.receive_slice = slice]
<1>1. {"receive", "receive_throttle"} \subseteq Operation \ {"connect"}
      /\ {"receive", "receive_throttle"} \cap Sending = {}
  BY DEF Operation, SocketOps, ThrottleOps, Sending
<1>2. /\ b \in SessionState /\ SameQueue(b, st) /\ b.socket = st.socket
      /\ b.configuration = st.configuration
      /\ b.received = st.received /\ b.sent = st.sent
      /\ b.is_receive_complete = st.is_receive_complete
      /\ b.is_send_complete = st.is_send_complete
      /\ b.exit_requested = st.exit_requested
  BY DEF SessionState, SameQueue
<1>3. async_receive(st, slice) \in {begin(st, "receive_throttle"), begin(b, "receive")}
  BY DEF async_receive
<1> HIDE DEF b
<1>4. PolicyInv(b)
  <2>1. Outstanding(b) = Outstanding(st) /\ b.waiting = st.waiting
    BY <1>2 DEF SameQueue, Outstanding, Queued
  <2> QED BY <1>2, <2>1, PolicyQuiet
<1> QED BY <1>1, <1>2, <1>3, <1>4, PolicyBegin

\* async_send, likewise.
LEMMA PolicyAsyncSend ==
  ASSUME NEW st \in SessionState, PolicyInv(st), NEW slice \in Nat,
         st.configuration.direction # "RX", st.sent < st.configuration.size
  PROVE  PolicyInv(async_send(st, slice))
<1> DEFINE n == Least(slice, st.configuration.size - st.sent)
           b == [st EXCEPT !.send_slice = n]
<1>1. {"send", "send_throttle"} \subseteq Operation \ {"connect"}
      /\ {"send", "send_throttle"} \cap Receiving = {}
  BY DEF Operation, SocketOps, ThrottleOps, Receiving
<1>2. n \in Nat
  BY DEF Least, SessionState, SessionConfiguration
<1>3. async_send(st, slice) \in {begin(st, "send_throttle"), begin(b, "send")}
  BY DEF async_send
<1> HIDE DEF n
<1>4. /\ b \in SessionState /\ SameQueue(b, st) /\ b.socket = st.socket
      /\ b.configuration = st.configuration
      /\ b.received = st.received /\ b.sent = st.sent
      /\ b.is_receive_complete = st.is_receive_complete
      /\ b.is_send_complete = st.is_send_complete
      /\ b.exit_requested = st.exit_requested
  BY <1>2 DEF SessionState, SameQueue
<1> HIDE DEF b
<1>5. PolicyInv(b)
  <2>1. Outstanding(b) = Outstanding(st) /\ b.waiting = st.waiting
    BY <1>4 DEF SameQueue, Outstanding, Queued
  <2> QED BY <1>4, <2>1, PolicyQuiet
<1> QED BY <1>1, <1>3, <1>4, <1>5, PolicyBegin

\* Shutting down, when the policy allows it.
LEMMA PolicyShutdown ==
  ASSUME NEW st \in SessionState, PolicyInv(st), ShutInv(st)
  PROVE  /\ PolicyInv(shutdown_send(st)) /\ shutdown_send(st) \in SessionState
         /\ shutdown_send(st).configuration = st.configuration
         /\ shutdown_send(st).received = st.received
         /\ shutdown_send(st).sent = st.sent
<1> DEFINE b == [st EXCEPT !.socket = "shutdown"]
<1>1. shutdown_send(st) = IF st.socket = "connected" THEN b ELSE st
  BY DEF shutdown_send
<1>2. /\ b \in SessionState /\ SameQueue(b, st) /\ b.socket = "shutdown"
      /\ b.configuration = st.configuration
      /\ b.received = st.received /\ b.sent = st.sent
      /\ b.is_receive_complete = st.is_receive_complete
      /\ b.is_send_complete = st.is_send_complete
      /\ b.exit_requested = st.exit_requested
  BY DEF SessionState, SameQueue
<1> HIDE DEF b
<1>3. Outstanding(b) = Outstanding(st)
  BY <1>2 DEF SameQueue, Outstanding, Queued
<1>4. ShutInv(b)
  BY <1>2 DEF ShutInv, Policy
<1>5. PolicyInv(b)
  BY <1>2, <1>3, <1>4, PolicyFrame
<1> QED BY <1>1, <1>2, <1>5

\* The end of receiving waits for the end of the stream.
LEMMA PolicyFinishReceive ==
  ASSUME NEW st \in SessionState, PolicyInv(st),
         \/ st.configuration.direction = "TX"
         \/ st.received >= st.configuration.size
  PROVE  PolicyInv(finish_receive(st))
<1> DEFINE s == IF st.configuration.shutdown_policy = "RECEIVE_COMPLETE"
                THEN shutdown_send(st) ELSE st
<1>1. "eof" \in Operation \ {"connect"} /\ "eof" \notin Receiving \cup Sending
  BY DEF Operation, SocketOps, Receiving, Sending
<1>2. s \in SessionState /\ PolicyInv(s)
  <2>1. Policy(st) = "RECEIVE_COMPLETE" => ShutInv(st)
    BY DEF ShutInv
  <2> QED BY <2>1, PolicyShutdown DEF Policy
<1>3. finish_receive(st) = begin(s, "eof")
  BY DEF finish_receive
<1> HIDE DEF s
<1> QED BY <1>1, <1>2, <1>3, PolicyBegin

\* Completing a direction closes the socket or leaves it as it is.
LEMMA CompleteSocket ==
  ASSUME NEW st \in SessionState
  PROVE  /\ CoreInv(on_receive_complete(st)) /\
                on_receive_complete(st).is_send_complete = st.is_send_complete /\
                on_receive_complete(st).is_receive_complete =>
            on_receive_complete(st).socket \in {st.socket, "closed"}
         /\ CoreInv(on_send_complete(st)) /\
                on_send_complete(st).is_receive_complete = st.is_receive_complete /\
                on_send_complete(st).is_send_complete =>
            on_send_complete(st).socket \in {st.socket, "closed"}
<1>1. /\ st.is_send_complete \/ on_receive_complete(st).socket = st.socket
      /\ st.is_receive_complete \/ on_send_complete(st).socket = st.socket
  BY DEF on_receive_complete, on_send_complete, SessionState
<1> QED BY <1>1 DEF CoreInv, CompleteInv

\* TcpSession::finish_send.
LEMMA PolicyFinishSend ==
  ASSUME NEW st, CoreInv(st), PolicyInv(st), Free(st, SendLane), ~st.is_send_complete,
         st.is_receive_complete => "start" \notin Outstanding(st),
         \/ st.configuration.direction = "RX"
         \/ st.sent = st.configuration.size,
         st.socket # "connecting"
  PROVE  PolicyInv(finish_send(st))
<1> DEFINE s == IF st.configuration.shutdown_policy = "SEND_COMPLETE"
                THEN shutdown_send(st) ELSE st
           r == on_send_complete(s)
<1>1. finish_send(st) = r
  BY DEF finish_send
<1>2. /\ CoreInv(s) /\ Outstanding(s) = Outstanding(st)
      /\ SameData(s, st) /\ SameOutcome(s, st)
      /\ s.socket # "connecting"
      /\ s.socket = "shutdown" => \/ st.socket = "shutdown"
                                  \/ Policy(st) = "SEND_COMPLETE"
  <2>1. shutdown_send(st).socket # "connecting"
    BY DEF shutdown_send, CoreInv, SessionState
  <2>2. SameData(st, st) /\ SameOutcome(st, st)
    BY DEF SameData, SameOutcome
  <2> QED BY <2>1, <2>2, ShutdownSendCore DEF Policy
<1> HIDE DEF s
<1>3. Free(s, SendLane) /\ s \in SessionState
  BY <1>2 DEF Free, CoreInv
<1>4. /\ CoreInv(r) /\ r.is_send_complete
      /\ r.is_receive_complete = s.is_receive_complete
      /\ r.exit_requested = s.exit_requested
      /\ SameData(r, s) /\ Outstanding(r) = Outstanding(s)
  BY <1>2, <1>3, OnSendCompleteCore DEF SameData, SameOutcome
<1>5. r.socket \in {s.socket, "closed"}
  BY <1>3, <1>4, CompleteSocket
<1> HIDE DEF r
<1>6. r.socket = "shutdown" => ShutInv(r)
  BY <1>2, <1>4, <1>5 DEF ShutInv, Policy, PolicyInv, SameData, SameOutcome
<1>7. PolicyInv(r)
  BY <1>2, <1>4, <1>5, <1>6, PolicyFrame DEF SameData
<1> QED BY <1>1, <1>7

\* A failure stops the session and leaves the rest as it is.
LEMMA PolicyAbort ==
  ASSUME NEW st \in SessionState, PolicyInv(st), NEW f
  PROVE  PolicyInv(abort(st, f))
<1> DEFINE b == abort(st, f)
<1>1. /\ b.waiting = st.waiting /\ b.ready = st.ready /\ b.socket = st.socket
      /\ b.configuration = st.configuration
      /\ b.received = st.received /\ b.sent = st.sent
      /\ b.is_receive_complete = st.is_receive_complete
      /\ b.is_send_complete = st.is_send_complete
      /\ b.exit_requested = TRUE
  BY DEF abort, SessionState
<1> HIDE DEF b
<1>2. Outstanding(b) = Outstanding(st)
  BY <1>1 DEF Outstanding, Queued
<1>3. PolicyInv(b)
  BY <1>1, <1>2, PolicyQuiet
<1> QED BY <1>3 DEF b

\* The session whose handler is about to run.
LEMMA PolicyDispatch ==
  ASSUME ControlInv, PolicyInv(session), Running, session.ready # <<>>
  PROVE  PolicyInv(dispatch(session))
<1> DEFINE d == dispatch(session)
<1>1. /\ d.socket = session.socket /\ SameData(d, session) /\ SameOutcome(d, session)
      /\ Outstanding(d) \subseteq Outstanding(session)
  BY DispatchControl
<1>2. d.waiting = session.waiting
  BY DispatchData
<1> HIDE DEF d
<1>3. PolicyInv(d)
  BY <1>1, <1>2, PolicyQuiet DEF SameData, SameOutcome
<1> QED BY <1>3 DEF d

\* The connection starts the transfer: its size is not empty.
LEMMA PolicyConnect ==
  ASSUME ControlInv, LinkInv, PolicyInv(session), Dispatches("connect")
  PROVE  PolicyInv(start_transfer(dispatch(session)))
<1> DEFINE d == dispatch(session)
           s == start_receiving(d)
<1>1. "connect" \in ReceiveLane /\ "connect" \in SendLane
  BY DEF ReceiveLane, SendLane
<1>2. /\ CoreInv(d) /\ Free(d, ReceiveLane) /\ ~d.is_receive_complete
      /\ Free(d, SendLane) /\ ~d.is_send_complete
      /\ d.socket = session.socket /\ SameData(d, session)
      /\ "connect" \in Outstanding(session)
      /\ PolicyInv(d)
  BY <1>1, DispatchControl, PolicyDispatch DEF Dispatches
<1>3. "connect" \notin session.waiting
  BY DEF Dispatches, ControlInv, CoreInv, QueueInv, TypeOK, SessionState
<1> HIDE DEF d
<1>4. /\ d \in SessionState /\ d.socket # "connecting"
      /\ d.received = 0 /\ d.sent = 0 /\ d.configuration.size # 0
      /\ d.configuration.size \in Nat
      /\ d.received < d.configuration.size /\ d.sent < d.configuration.size
  <2>1. d \in SessionState /\ d.configuration.size \in Nat
    BY <1>2 DEF CoreInv, SessionState, SessionConfiguration
  <2>2. d.received = 0 /\ d.sent = 0 /\ d.configuration.size # 0
    BY <1>2 DEF PolicyInv, SameData, LinkInv
  <2> QED BY <1>2, <1>3, <2>1, <2>2 DEF PolicyInv
<1>5. /\ CoreInv(s) /\ SameCounts(s, d) /\ PolicyInv(s)
      /\ \E op \in ReceiveLane \ SendLane : Outstanding(s) = Outstanding(d) \cup {op}
      /\ Keeps(s, d)
  <2>1. CASE d.configuration.direction = "TX"
    <3>1. s = finish_receive(d)
      BY <2>1 DEF start_receiving
    <3> QED
      BY <1>2, <1>4, <2>1, <3>1, FinishReceiveCore, PolicyFinishReceive, KeepsFinishReceive
  <2>2. CASE d.configuration.direction # "TX"
    <3>1. s = async_receive(d, 0)
      BY <2>2 DEF start_receiving
    <3> QED
      BY <1>2, <1>4, <2>2, <3>1, AsyncReceiveCore, PolicyAsyncReceive, KeepsAsyncReceive
  <2> QED BY <2>1, <2>2
<1> HIDE DEF s
<1>6. /\ Free(s, SendLane) /\ ~s.is_send_complete /\ ~s.is_receive_complete
      /\ s.socket # "connecting" /\ s \in SessionState
      /\ s.sent < s.configuration.size
  BY <1>2, <1>4, <1>5 DEF Free, SameCounts, SameOutcome, Keeps, Later
<1>7. CASE s.configuration.direction = "RX"
  <2>1. start_transfer(d) = finish_send(s)
    BY <1>7 DEF start_transfer, start_sending, s
  <2> QED BY <1>5, <1>6, <1>7, <2>1, PolicyFinishSend DEF d
<1>8. CASE s.configuration.direction # "RX"
  <2>1. start_transfer(d) = async_send(s, 0)
    BY <1>8 DEF start_transfer, start_sending, s
  <2> QED BY <1>5, <1>6, <1>8, <2>1, PolicyAsyncSend DEF d
<1> QED BY <1>7, <1>8

\* The throttles grant the next slice of a transfer that is not at its end.
LEMMA PolicyThrottles ==
  ASSUME ControlInv, PolicyInv(session)
  PROVE  /\ Dispatches("receive_throttle") =>
                PolicyInv(on_receive_slice(dispatch(session), Head(session.ready)))
         /\ Dispatches("send_throttle") =>
                PolicyInv(on_send_slice(dispatch(session), Head(session.ready)))
<1> DEFINE d == dispatch(session)
           c == Head(session.ready)
<1> SUFFICES ASSUME NEW op \in ThrottleOps, Dispatches(op)
             PROVE  /\ op = "receive_throttle" => PolicyInv(on_receive_slice(d, c))
                    /\ op = "send_throttle" => PolicyInv(on_send_slice(d, c))
  BY DEF ThrottleOps
<1>1. /\ CoreInv(d) /\ SameData(d, session) /\ PolicyInv(d)
      /\ c \in Queued(session) /\ c.op = op /\ op \in Outstanding(session)
  BY DispatchControl, PolicyDispatch DEF Dispatches
<1>2. c.failure = "success"
  BY <1>1 DEF ControlInv, CoreInv, AbortedInv
<1> HIDE DEF d, c
<1>3. /\ d \in SessionState
      /\ d.configuration.receive_slice \in Nat /\ d.configuration.send_slice \in Nat
  BY <1>1 DEF CoreInv, SessionState, SessionConfiguration
<1>4. /\ op = "receive_throttle" =>
            d.configuration.direction # "TX" /\ d.received < d.configuration.size
      /\ op = "send_throttle" =>
            d.configuration.direction # "RX" /\ d.sent < d.configuration.size
  BY <1>1 DEF PolicyInv, SameData, Receiving, Sending
<1> QED
  BY <1>1, <1>2, <1>3, <1>4, PolicyAsyncReceive, PolicyAsyncSend
     DEF on_receive_slice, on_send_slice

\* What counts bytes of a direction in which nothing is outstanding.
LEMMA PolicyCount ==
  ASSUME NEW a, PolicyInv(a), NEW b, NEW n \in Nat, a \in SessionState,
         SameQueue(b, a), b.socket = a.socket, b.configuration = a.configuration,
         SameOutcome(b, a),
         \/ b.received = a.received + n /\ b.sent = a.sent /\ Free(a, ReceiveLane)
         \/ /\ b.sent = a.sent + n /\ b.received = a.received /\ Free(a, SendLane)
            /\ a.configuration.direction # "RX"
  PROVE  PolicyInv(b)
<1>1. Outstanding(b) = Outstanding(a) /\ b.waiting = a.waiting
  BY DEF SameQueue, Outstanding, Queued
<1>2. /\ a.received \in Nat /\ a.sent \in Nat /\ a.configuration.size \in Nat
  BY DEF SessionState, SessionConfiguration
<1>3. b.socket = "shutdown" => ShutInv(b)
  BY <1>2 DEF PolicyInv, ShutInv, Policy, SameOutcome
<1>4. "connect" \notin Outstanding(a)
  BY DEF Free, ReceiveLane, SendLane
<1>5. CASE b.received = a.received + n /\ b.sent = a.sent /\ Free(a, ReceiveLane)
  <2>1. Outstanding(a) \cap Receiving = {}
    BY <1>5 DEF Free, ReceiveLane, Receiving
  <2> QED BY <1>1, <1>3, <1>4, <1>5, <2>1 DEF PolicyInv
<1>6. CASE /\ b.sent = a.sent + n /\ b.received = a.received
           /\ Free(a, SendLane) /\ a.configuration.direction # "RX"
  <2>1. Outstanding(a) \cap Sending = {}
    BY <1>6 DEF Free, SendLane, Sending
  <2> QED BY <1>1, <1>3, <1>4, <1>6, <2>1 DEF PolicyInv
<1> QED BY <1>5, <1>6

\* A receive goes on until the size is reached.
LEMMA PolicyReceive ==
  ASSUME ControlInv, PolicyInv(session), Dispatches("receive")
  PROVE  PolicyInv(on_receive(dispatch(session), Head(session.ready)))
<1> DEFINE d == dispatch(session)
           c == Head(session.ready)
           v == verify(d, c.data)
           m == received(v, c.data)
<1>1. /\ CoreInv(d) /\ SameData(d, session) /\ PolicyInv(d)
      /\ c \in Completion /\ c \in Queued(session) /\ c.op = "receive"
      /\ "receive" \in Outstanding(session) /\ Free(d, ReceiveLane)
  BY DispatchControl, PolicyDispatch DEF Dispatches, ReceiveLane
<1>2. c.failure # "operation_aborted" /\ Len(c.data) <= session.receive_slice
  BY <1>1 DEF ControlInv, CoreInv, AbortedInv, ReceiveSizeInv
<1> HIDE DEF d, c
<1>3. /\ d \in SessionState /\ Len(c.data) \in Nat
      /\ d.receive_slice - Len(c.data) \in Nat
      /\ d.configuration.direction # "TX"
      /\ d.configuration.size \in Nat
  BY <1>1, <1>2 DEF CoreInv, SessionState, SessionConfiguration, Completion, PolicyInv,
     SameData, Receiving
<1>4. on_receive(d, c) = IF c.failure # "success"
        THEN abort(d, IF c.failure = "eof" THEN "unexpected_eof" ELSE c.failure)
        ELSE IF m.received < d.configuration.size
             THEN async_receive(m, d.receive_slice - Len(c.data))
             ELSE finish_receive(m)
  BY <1>2 DEF on_receive
<1>5. /\ v \in SessionState /\ PolicyInv(v) /\ SameQueue(v, d)
      /\ v.configuration = d.configuration /\ v.received = d.received
  <2>1. v \in {d, abort(d, "data_mismatch")}
    BY DEF verify
  <2>2. "data_mismatch" \in ErrorCode
    BY DEF ErrorCode, Error
  <2>3. LET b == abort(d, "data_mismatch")
        IN  b \in SessionState /\ SameQueue(b, d) /\ b.configuration = d.configuration
            /\ b.received = d.received
    BY <1>3, <2>2 DEF abort, SessionState, SameQueue
  <2>4. SameQueue(d, d)
    BY DEF SameQueue
  <2> HIDE DEF v
  <2> QED BY <1>1, <1>3, <2>1, <2>3, <2>4, PolicyAbort
<1> HIDE DEF v
<1>6. /\ m \in SessionState /\ SameQueue(m, v) /\ m.socket = v.socket
      /\ m.configuration = v.configuration /\ SameOutcome(m, v)
      /\ m.received = v.received + Len(c.data) /\ m.sent = v.sent
  <2> DEFINE n == v.received + Len(c.data)
  <2>1. n \in Nat /\ m = [v EXCEPT !.received = n]
    BY <1>3, <1>5 DEF received, SessionState
  <2> HIDE DEF n, m
  <2>2. /\ m \in SessionState /\ SameQueue(m, v) /\ m.socket = v.socket
        /\ m.configuration = v.configuration /\ SameOutcome(m, v)
        /\ m.received = n /\ m.sent = v.sent
    BY <1>5, <2>1 DEF SessionState, SameQueue, SameOutcome
  <2> QED BY <2>2 DEF n
<1>7. Free(v, ReceiveLane)
  BY <1>1, <1>5 DEF Free, Outstanding, Queued, SameQueue
<1> HIDE DEF m
<1>8. PolicyInv(m)
  BY <1>3, <1>5, <1>6, <1>7, PolicyCount
<1>9. m.configuration = d.configuration /\ m.received \in Nat
  BY <1>5, <1>6 DEF SessionState
<1>10. CASE c.failure # "success"
  BY <1>1, <1>3, <1>4, <1>10, PolicyAbort DEF d, c
<1>11. CASE c.failure = "success" /\ m.received < d.configuration.size
  <2>1. PolicyInv(async_receive(m, d.receive_slice - Len(c.data)))
    BY <1>3, <1>6, <1>8, <1>9, <1>11, PolicyAsyncReceive
  <2> QED BY <1>4, <1>11, <2>1 DEF d, c
<1>12. CASE c.failure = "success" /\ ~(m.received < d.configuration.size)
  <2>1. PolicyInv(finish_receive(m))
    BY <1>3, <1>6, <1>8, <1>9, <1>12, PolicyFinishReceive
  <2> QED BY <1>4, <1>12, <2>1 DEF d, c
<1> QED BY <1>10, <1>11, <1>12

\* The end of the peer's stream, or what is there instead of it, lets a session that
\* waited for its peer shut down.
LEMMA PolicyEof ==
  ASSUME ControlInv, PolicyInv(session), Dispatches("eof")
  PROVE  PolicyInv(on_eof(dispatch(session), Head(session.ready)))
<1> DEFINE d == dispatch(session)
           c == Head(session.ready)
           a == IF Policy(d) = "WAIT_FOR_PEER" THEN shutdown_send(d) ELSE d
           r == on_receive_complete(a)
<1>1. /\ CoreInv(d) /\ SameData(d, session) /\ PolicyInv(d)
      /\ "eof" \in Outstanding(session) /\ Free(d, ReceiveLane)
      /\ ~d.is_receive_complete /\ "start" \notin Outstanding(d)
  BY DispatchControl, PolicyDispatch DEF Dispatches, ReceiveLane
<1> HIDE DEF d, c
<1>2. \/ d.configuration.direction = "TX"
      \/ d.received >= d.configuration.size
  BY <1>1 DEF ControlInv, CoreInv, ReceiveSizeInv, SameData
<1>3. /\ CoreInv(a) /\ Outstanding(a) = Outstanding(d)
      /\ SameData(a, d) /\ SameOutcome(a, d)
      /\ \/ a.socket = d.socket
         \/ a.socket = "shutdown" /\ Policy(d) = "WAIT_FOR_PEER"
  <2>1. SameData(d, d) /\ SameOutcome(d, d)
    BY DEF SameData, SameOutcome
  <2>2. d \in SessionState
    BY <1>1 DEF CoreInv
  <2>3. shutdown_send(d).socket \in {d.socket, "shutdown"}
    BY <2>2 DEF shutdown_send, SessionState
  <2> QED BY <1>1, <2>1, <2>3, ShutdownSendCore
<1>4. \E f : on_eof(d, c) = r \/ on_eof(d, c) = abort(a, f)
  BY DEF on_eof, Policy
<1> HIDE DEF a
<1>5. "connect" \notin d.waiting
  BY <1>1 DEF Free, ReceiveLane, Outstanding
<1>6. CASE on_eof(d, c) = r
  <2>1. /\ CoreInv(r) /\ r.is_receive_complete
        /\ r.is_send_complete = a.is_send_complete
        /\ SameData(r, a) /\ Outstanding(r) = Outstanding(a)
    BY <1>1, <1>2, <1>3, OnReceiveCompleteCore DEF Free, SameData, SameOutcome
  <2>2. r.socket \in {a.socket, "closed"}
    BY <1>3, <2>1, CompleteSocket DEF CoreInv
  <2> HIDE DEF r
  <2>3. r.socket = "shutdown" => ShutInv(r)
    BY <1>1, <1>2, <1>3, <2>1, <2>2
       DEF ShutInv, Policy, PolicyInv, SameData, SameOutcome
  <2>4. PolicyInv(r)
    BY <1>1, <1>3, <1>5, <2>1, <2>2, <2>3, PolicyFrame DEF SameData
  <2> QED BY <1>6, <2>4 DEF d, c
<1>7. ASSUME NEW f, on_eof(d, c) = abort(a, f)
      PROVE  PolicyInv(on_eof(d, c))
  <2> DEFINE b == abort(a, f)
  <2>1. /\ b.waiting = a.waiting /\ b.ready = a.ready /\ b.socket = a.socket
        /\ b.configuration = a.configuration
        /\ b.received = a.received /\ b.sent = a.sent
        /\ b.is_send_complete = a.is_send_complete
        /\ b.exit_requested = TRUE
    BY <1>3 DEF abort, CoreInv, SessionState
  <2> HIDE DEF b
  <2>2. Outstanding(b) = Outstanding(d)
    BY <1>3, <2>1 DEF Outstanding, Queued
  <2>3. b.socket = "shutdown" => ShutInv(b)
    BY <1>1, <1>2, <1>3, <2>1
       DEF ShutInv, Policy, PolicyInv, SameData, SameOutcome
  <2>4. PolicyInv(b)
    BY <1>1, <1>3, <1>5, <2>1, <2>2, <2>3, PolicyFrame DEF SameData
  <2> QED BY <1>7, <2>4 DEF b
<1> QED BY <1>4, <1>6, <1>7 DEF d, c

\* A send goes on until the size is reached.
LEMMA PolicySend ==
  ASSUME ControlInv, PolicyInv(session), Dispatches("send")
  PROVE  PolicyInv(on_send(dispatch(session), Head(session.ready)))
<1> DEFINE d == dispatch(session)
           c == Head(session.ready)
           m == sent(d, c.data)
<1>1. /\ CoreInv(d) /\ SameData(d, session) /\ PolicyInv(d)
      /\ c \in Completion /\ c \in Queued(session) /\ c.op = "send"
      /\ "send" \in Outstanding(session) /\ Free(d, SendLane)
      /\ ~d.is_send_complete /\ "start" \notin Outstanding(d)
  BY DispatchControl, PolicyDispatch DEF Dispatches, SendLane
<1>2. /\ c.failure # "operation_aborted" /\ Len(c.data) <= session.send_slice
      /\ session.sent + session.send_slice <= session.configuration.size
  BY <1>1 DEF ControlInv, CoreInv, AbortedInv, SendSizeInv
<1> HIDE DEF d, c
<1>3. /\ d \in SessionState /\ Len(c.data) \in Nat /\ c.data \in Seq(Nat)
      /\ d.send_slice - Len(c.data) \in Nat
      /\ d.sent + Len(c.data) <= d.configuration.size
      /\ d.configuration.direction # "RX"
      /\ d.configuration.size \in Nat
  BY <1>1, <1>2 DEF CoreInv, SessionState, SessionConfiguration, Completion, PolicyInv,
     SameData, Sending
<1>4. on_send(d, c) = IF c.failure # "success" THEN abort(d, c.failure)
        ELSE IF m.sent < d.configuration.size
             THEN async_send(m, d.send_slice - Len(c.data))
             ELSE finish_send(m)
  BY <1>2 DEF on_send
<1>5. d.socket # "connecting"
  <2>1. "connect" \notin d.waiting
    BY <1>1 DEF Free, SendLane, Outstanding
  <2> QED BY <1>1, <2>1 DEF PolicyInv
<1>6. /\ m \in SessionState /\ SameQueue(m, d) /\ m.socket = d.socket
      /\ m.configuration = d.configuration /\ SameOutcome(m, d)
      /\ m.sent = d.sent + Len(c.data) /\ m.received = d.received
  <2> DEFINE n == d.sent + Len(c.data)
  <2>1. n \in Nat /\ m = [d EXCEPT !.sent = n]
    BY <1>3 DEF sent, SessionState
  <2> HIDE DEF n, m
  <2>2. /\ m \in SessionState /\ SameQueue(m, d) /\ m.socket = d.socket
        /\ m.configuration = d.configuration /\ SameOutcome(m, d)
        /\ m.sent = n /\ m.received = d.received
    BY <1>3, <2>1 DEF SessionState, SameQueue, SameOutcome
  <2> QED BY <2>2 DEF n
<1>7. CoreInv(m) /\ Outstanding(m) = Outstanding(d)
  BY <1>1, <1>3, SentCore
<1> HIDE DEF m
<1>8. PolicyInv(m)
  BY <1>1, <1>3, <1>6, PolicyCount
<1>9. CASE c.failure # "success"
  BY <1>1, <1>3, <1>4, <1>9, PolicyAbort DEF d, c
<1>10. CASE c.failure = "success" /\ m.sent < d.configuration.size
  <2>1. PolicyInv(async_send(m, d.send_slice - Len(c.data)))
    BY <1>3, <1>6, <1>8, <1>10, PolicyAsyncSend
  <2> QED BY <1>4, <1>10, <2>1 DEF d, c
<1>11. CASE c.failure = "success" /\ ~(m.sent < d.configuration.size)
  <2>1. /\ m.sent = m.configuration.size /\ Free(m, SendLane) /\ ~m.is_send_complete
        /\ "start" \notin Outstanding(m) /\ m.socket # "connecting"
    BY <1>1, <1>3, <1>5, <1>6, <1>7, <1>11 DEF SessionState, SameOutcome, Free
  <2>2. PolicyInv(finish_send(m))
    BY <1>7, <1>8, <2>1, PolicyFinishSend
  <2> QED BY <1>4, <1>11, <2>2 DEF d, c
<1> QED BY <1>9, <1>10, <1>11

\* What completes joins the queue, and only the connection changes the socket.
LEMMA CompleteShape ==
  ASSUME ControlInv, Complete
  PROVE  /\ Running
         /\ \E c : \E s \in {"connecting", "unconnected", "connected", "shutdown", "closed"} :
                /\ Completed(session', c, s) /\ c.op \in session.waiting
                /\ IF c.op = "connect" THEN s \in {"connected", "unconnected"}
                                       ELSE s = session.socket
<1> DEFINE Shape(c, s) ==
                /\ Completed(session', c, s) /\ c.op \in session.waiting
                /\ IF c.op = "connect" THEN s \in {"connected", "unconnected"}
                                       ELSE s = session.socket
           Some == \E c : \E s \in {"connecting", "unconnected", "connected", "shutdown",
                                    "closed"} : Shape(c, s)
<1>1. ASSUME NEW op \in session.waiting \ {"connect"}, NEW f, NEW data,
             session' = complete(session, done(op, f, data))
      PROVE  Some
  <2> DEFINE c == done(op, f, data)
  <2>1. c.op = op
    BY DEF done
  <2>2. session.socket \in {"connecting", "unconnected", "connected", "shutdown", "closed"}
    BY DEF ControlInv, TypeOK, SessionState
  <2>3. Completed(session', c, session.socket)
    BY <1>1 DEF Completed
  <2> HIDE DEF c
  <2> QED BY <2>1, <2>2, <2>3
<1>2. ASSUME NEW f, NEW s \in {"connected", "unconnected"}, "connect" \in session.waiting,
             session' = [complete(session, done("connect", f, <<>>)) EXCEPT !.socket = s]
      PROVE  Some
  <2> DEFINE c == done("connect", f, <<>>)
  <2>1. c.op = "connect"
    BY DEF done
  <2>2. Completed(session', c, s)
    BY <1>2 DEF Completed
  <2> HIDE DEF c
  <2> QED BY <1>2, <2>1, <2>2
<1>3. ConnectSucceeds \/ ConnectFails => Running /\ Some
  <2> HIDE DEF Some
  <2> QED BY <1>2 DEF ConnectSucceeds, ConnectFails, Waits, connected, refused
<1>4. ASSUME NEW op \in {"receive", "eof"}, ReceivesData(op) \/ ReceiveFails(op)
      PROVE  Running /\ Some
  <2> HIDE DEF Some
  <2> QED BY <1>1, <1>4 DEF ReceivesData, ReceiveFails, Waits
<1>5. SendsData => Running /\ Some
  <2> HIDE DEF Some
  <2> QED BY <1>1 DEF SendsData, Waits
<1>6. SendFails => Running /\ Some
  <2> HIDE DEF Some
  <2> QED BY <1>1 DEF SendFails, Waits
<1>7. ASSUME NEW op \in {"receive_throttle", "send_throttle", "timeout"}, TimerExpires(op)
      PROVE  Running /\ Some
  <2> HIDE DEF Some
  <2> QED BY <1>1, <1>7 DEF TimerExpires, Waits
<1>8. ASSUME NEW number \in Signal, SignalArrives(number)
      PROVE  Running /\ Some
  <2> HIDE DEF Some
  <2> QED BY <1>1, <1>8 DEF SignalArrives, Waits
<1>9. Running /\ Some
  <2> HIDE DEF Some
  <2> QED BY <1>3, <1>4, <1>5, <1>6, <1>7, <1>8 DEF Complete
<1> QED BY <1>9

\* Completions count nothing and start nothing.
LEMMA PolicyComplete ==
  ASSUME ControlInv, PolicyInv(session), Complete
  PROVE  PolicyInv(session')
<1>0. PICK c :
        \E s \in {"connecting", "unconnected", "connected", "shutdown", "closed"} :
            /\ Completed(session', c, s) /\ c.op \in session.waiting
            /\ IF c.op = "connect" THEN s \in {"connected", "unconnected"}
                                   ELSE s = session.socket
  BY CompleteShape
<1>1. PICK s \in {"connecting", "unconnected", "connected", "shutdown", "closed"} :
        /\ Completed(session', c, s) /\ c.op \in session.waiting
        /\ IF c.op = "connect" THEN s \in {"connected", "unconnected"}
                               ELSE s = session.socket
  BY <1>0
<1> DEFINE r == session'
<1>2. /\ r.socket = s
      /\ r.configuration = session.configuration
      /\ r.received = session.received /\ r.sent = session.sent
      /\ r.is_receive_complete = session.is_receive_complete
      /\ r.exit_requested = session.exit_requested
      /\ r.waiting = session.waiting \ {c.op}
      /\ Queued(r) = Queued(session) \cup {c}
  BY <1>1, CompleteData
<1>3. Outstanding(r) = Outstanding(session)
  BY <1>1, <1>2 DEF Outstanding
<1>4. r.is_send_complete = session.is_send_complete
  BY <1>1 DEF Completed, complete, ControlInv, TypeOK, SessionState
<1> HIDE DEF r
<1>5. r.socket = "shutdown" => ShutInv(r)
  BY <1>1, <1>2, <1>4 DEF PolicyInv, ShutInv, Policy
<1>6. PolicyInv(r)
  BY <1>1, <1>2, <1>3, <1>5, PolicyFrame
<1> QED BY <1>6 DEF r

\* Each handler keeps to the sizes, the directions and the policy.
LEMMA PolicyHandle ==
  ASSUME ControlInv, DataInv, PolicyInv(session), Handle
  PROVE  PolicyInv(session')
<1>1. CASE HandleStart
  <2> DEFINE d == dispatch(session)
  <2>1. PolicyInv(d) /\ d \in SessionState
    BY <1>1, PolicyDispatch, DispatchData DEF HandleStart, Dispatches
  <2> HIDE DEF d
  <2>2. "timeout" \in Operation \ {"connect"} /\ "timeout" \notin Receiving \cup Sending
    BY DEF Operation, Receiving, Sending
  <2>3. PolicyInv(begin(d, "timeout"))
    BY <2>1, <2>2, PolicyBegin
  <2> QED BY <1>1, <2>3 DEF HandleStart, start_timer, d
<1>2. CASE HandleConnect
  BY <1>2, PolicyConnect DEF HandleConnect, DataInv
<1>3. CASE HandleReceiveThrottle
  BY <1>3, PolicyThrottles DEF HandleReceiveThrottle
<1>4. CASE HandleReceive
  BY <1>4, PolicyReceive DEF HandleReceive
<1>5. CASE HandleEof
  BY <1>5, PolicyEof DEF HandleEof
<1>6. CASE HandleSendThrottle
  BY <1>6, PolicyThrottles DEF HandleSendThrottle
<1>7. CASE HandleSend
  BY <1>7, PolicySend DEF HandleSend
<1>8. CASE HandleTimeout \/ HandleSignal
  <2> DEFINE d == dispatch(session)
  <2>1. PolicyInv(d) /\ d \in SessionState
    BY <1>8, PolicyDispatch, DispatchData DEF HandleTimeout, HandleSignal, Dispatches
  <2>2. session' = d \/ \E f \in Interruptions : session' = abort(d, f)
    BY <1>8, TimeoutControl DEF HandleTimeout, HandleSignal
  <2> HIDE DEF d
  <2> QED BY <2>1, <2>2, PolicyAbort
<1> QED BY <1>1, <1>2, <1>3, <1>4, <1>5, <1>6, <1>7, <1>8 DEF Handle

\* The exit requested elsewhere is none of the session's doing.
LEMMA PolicyEnvironment ==
  ASSUME ControlInv, PolicyInv(session), Environment
  PROVE  PolicyInv(session')
<1>1. CASE ExitRequestedElsewhere
  <2> DEFINE r == session'
  <2>1. /\ r.socket = session.socket
        /\ r.configuration = session.configuration
        /\ r.received = session.received /\ r.sent = session.sent
        /\ r.is_receive_complete = session.is_receive_complete
        /\ r.is_send_complete = session.is_send_complete
        /\ r.exit_requested = TRUE
        /\ r.waiting = session.waiting /\ r.ready = session.ready
    BY <1>1 DEF ExitRequestedElsewhere, ControlInv, TypeOK, SessionState
  <2> HIDE DEF r
  <2>2. Outstanding(r) = Outstanding(session)
    BY <2>1 DEF Outstanding, Queued
  <2>3. PolicyInv(r)
    BY <2>1, <2>2, PolicyQuiet
  <2> QED BY <2>3 DEF r
<1>2. CASE ~ExitRequestedElsewhere
  <2>1. session' = session
    BY <1>2 DEF Environment, PeerSends, PeerShutsDown, PeerResets, PeerReads
  <2> QED BY <2>1
<1> QED BY <1>1, <1>2

\* A session starts with nothing transferred and its connection under way.
LEMMA PolicyInit == Init => PolicyInv(session)
<1> SUFFICES ASSUME Init PROVE PolicyInv(session)
  OBVIOUS
<1>1. PICK k \in Configurations :
        \E opened \in {new(k), connected(new(k)), refused(new(k))} :
            session = post(opened, done("start", "success", <<>>))
  BY DEF Init, initialize
<1>2. PICK opened \in {new(k), connected(new(k)), refused(new(k))} :
        session = post(opened, done("start", "success", <<>>))
  BY <1>1
<1>3. /\ session.configuration = k /\ session.received = 0 /\ session.sent = 0
      /\ session.waiting \subseteq {"signal", "connect"}
      /\ session.socket # "shutdown"
      /\ session.socket = "connecting" => "connect" \in session.waiting
      /\ \A i \in DOMAIN session.ready : session.ready[i].op \in {"connect", "start"}
  <2>1. CASE opened = new(k)
    BY <1>2, <2>1 DEF new, post, done
  <2>2. CASE opened = connected(new(k))
    BY <1>2, <2>2 DEF new, connected, complete, post, done
  <2>3. CASE opened = refused(new(k))
    BY <1>2, <2>3 DEF new, refused, complete, post, done
  <2> QED BY <2>1, <2>2, <2>3
<1>4. Outstanding(session) \subseteq {"signal", "connect", "start"}
  BY <1>3 DEF Outstanding, Queued
<1>5. Accepted(k)
  BY ConfigurationsAssumption
<1> QED BY <1>3, <1>4, <1>5 DEF PolicyInv, Receiving, Sending

\* A session transfers in its directions until its sizes are reached, and shuts its
\* sending side down only when its policy says so: once it has sent everything, or once
\* it has received everything and, with WAIT_FOR_PEER, seen its peer end
\* (TcpSession.cpp:80-115).
THEOREM PolicyKept == Spec => []PolicyInv(session)
<1>1. Init => PolicyInv(session)
  BY PolicyInit
<1>2. ControlInv /\ DataInv /\ PolicyInv(session) /\ [Next]_vars => PolicyInv(session)'
  <2> SUFFICES ASSUME ControlInv, DataInv, PolicyInv(session), [Next]_vars
               PROVE  PolicyInv(session')
    OBVIOUS
  <2>1. CASE Next
    BY <2>1, PolicyComplete, PolicyHandle, PolicyEnvironment DEF Next
  <2>2. CASE UNCHANGED vars
    <3>1. session' = session
      BY <2>2 DEF vars
    <3> QED BY <3>1
  <2> QED BY <2>1, <2>2
<1> QED BY <1>1, <1>2, ControlInvariant, DataInvariant, PTL DEF Spec

-----------------------------------------------------------------------------
(* 5. One step of a session, for a proof about the two ends of a           *)
(* connection.                                                             *)

\* All that is known of one session.
SessionInv == ControlInv /\ DataInv /\ PolicyInv(session)

LEMMA SessionInit == Init => SessionInv
BY InitControl, InitData, PolicyInit DEF SessionInv

LEMMA SessionStep ==
  ASSUME SessionInv, [Next]_vars
  PROVE  SessionInv'
<1>1. ControlInv /\ DataInv /\ PolicyInv(session)
  BY DEF SessionInv
<1>2. CASE Next
  <2>1. ControlInv'
    BY <1>1, <1>2, CompleteControl, HandleControl, EnvironmentControl DEF Next
  <2>2. PolicyInv(session')
    BY <1>1, <1>2, PolicyComplete, PolicyHandle, PolicyEnvironment DEF Next
  <2>3. CASE Environment
    BY <1>1, <2>1, <2>2, <2>3, PeerSendsData, PeerEndsData, PeerReadsData, ExitData
       DEF Environment, SessionInv
  <2>4. CASE Complete \/ Handle
    BY <1>1, <2>1, <2>2, <2>4, CompletesData, HandleData DEF SessionInv
  <2> QED BY <1>2, <2>3, <2>4 DEF Next
<1>3. CASE UNCHANGED vars
  <2>1. session' = session /\ inbound' = inbound /\ outbound' = outbound /\ peer' = peer
    BY <1>3 DEF vars
  <2>2. ControlInv' /\ PolicyInv(session')
    BY <1>1, <2>1 DEF ControlInv, TypeOK
  <2>3. DataInv'
    BY <1>1, <2>1 DEF DataInv, ResultInv, LinkInv, StreamInv, Marked, EndInv, Linked,
       VerificationExact, Running, OutboundInv, Unbroken
  <2> QED BY <2>2, <2>3 DEF SessionInv
<1> QED BY <1>2, <1>3

\* A handler shows nothing new: what it reports was in hand.
LEMMA HandleObserved ==
  ASSUME SessionInv, SessionInv', Handle, session.socket # "unconnected"
  PROVE  Observed(session, inbound, outbound, peer.end, session', outbound')
<1> DEFINE c == Head(session.ready)
           r == session'
<1>1. /\ ControlInv /\ ControlInv' /\ ResultInv /\ DataInv
  BY DEF SessionInv, DataInv
<1>2. Running /\ Effect(r, c) /\ outbound' = outbound /\ c \in Queued(session)
  BY <1>1, HandleEffect, DispatchData
<1> HIDE DEF c
<1>3. /\ outbound \in Seq(Byte) /\ session \in SessionState
      /\ session.failure = "success" /\ session.sent \in Nat
  BY <1>1, <1>2 DEF ControlInv, TypeOK, ProgressInv, Running, SessionState
<1>4. /\ r = session'
      /\ \A ops \in SUBSET {"receive", "eof", "send"} :
            InHand(r, ops) = InHand(session, ops) \ {c}
  BY <1>1, <1>2, InHandKept
<1>5. /\ r.configuration = session.configuration
      /\ Later(r, session) /\ r.sent = session.sent + Added(c, "send")
      /\ MayReport(r.failure, c)
      /\ r.is_receive_complete => SawEnd(session)
  BY <1>2 DEF Effect, SawEnd
<1> HIDE DEF r
<1>6. \A e \in Queued(r) : e.op \in {"receive", "eof", "send"} =>
            e \in Queued(session) /\ e # c
  <2> SUFFICES ASSUME NEW e \in Queued(r), e.op \in {"receive", "eof", "send"}
               PROVE  e \in Queued(session) /\ e # c
    OBVIOUS
  <2>1. e \in InHand(r, {"receive", "eof", "send"})
    BY DEF InHand
  <2> QED BY <1>4, <2>1 DEF InHand
<1>7. \A e \in Queued(session) : e.op = "send" /\ e # c => e \in Queued(r)
  <2> SUFFICES ASSUME NEW e \in Queued(session), e.op = "send", e # c
               PROVE  e \in Queued(r)
    OBVIOUS
  <2>1. e \in InHand(session, {"send"}) \ {c}
    BY DEF InHand
  <2> QED BY <1>4, <2>1 DEF InHand
<1>8. ASSUME NEW n \in Nat, Accepts(session, n)
      PROVE  Accepts(r, n + (Len(outbound') - Len(outbound)))
  <2>1. n + (Len(outbound') - Len(outbound)) = n
    BY <1>2, <1>3
  <2>2. CASE c.op = "send"
    <3>1. \A e \in Queued(session) : e.op = "send" => e = c
      BY <1>1, <1>2, <2>2, OneInHand DEF InHand
    <3>2. \A e \in Queued(r) : e.op # "send"
      BY <1>6, <3>1
    <3>3. r.sent = n
      BY <1>2, <1>5, <1>8, <2>2 DEF Accepts, Added
    <3> QED BY <2>1, <3>2, <3>3 DEF Accepts
  <2>3. CASE c.op # "send"
    <3>1. r.sent = session.sent
      BY <1>3, <1>5, <2>3 DEF Added
    <3>2. /\ \A e \in Queued(r) : e.op = "send" => e \in Queued(session)
          /\ \A e \in Queued(session) : e.op = "send" => e \in Queued(r)
      BY <1>6, <1>7, <2>3
    <3>3. Accepts(r, n)
      BY <1>8, <3>1, <3>2 DEF Accepts
    <3> QED BY <2>1, <3>3
  <2> QED BY <2>2, <2>3
<1>9. SawEnd(r) => SawEnd(session)
  BY <1>5, <1>6 DEF SawEnd
<1>10. ASSUME NEW f \in {"connection_reset", "broken_pipe", "unexpected_eof",
                         "unexpected_data"}, Faces(r, f)
       PROVE  Faces(session, f)
  <2>1. CASE r.failure = f
    BY <1>2, <1>5, <2>1 DEF MayReport, Interruptions, Faces
  <2>2. CASE r.failure # f
    BY <1>6, <1>10, <2>2 DEF Faces
  <2> QED BY <2>1, <2>2
<1>11. r.socket # "unconnected" /\ (Shut(session) => Shut(r))
  BY <1>5 DEF Later, Shut
<1>12. ~session.exit_requested
  BY <1>2 DEF Running
<1> QED BY <1>2, <1>5, <1>8, <1>9, <1>10, <1>11, <1>12 DEF Observed, r

\* A completion shows what it brings.
LEMMA CompleteObserved ==
  ASSUME ControlInv, Running, NEW c,
         NEW s \in {"connecting", "unconnected", "connected", "shutdown", "closed"},
         Completed(session', c, s), c.op \in session.waiting, s # "unconnected",
         Shut(session) => s = session.socket /\ outbound' = outbound,
         outbound' \in Seq(Byte),
         c.op = "send" => Len(outbound') = Len(outbound) + Len(c.data),
         c.op # "send" => outbound' = outbound,
         c.op = "eof" /\ c.failure = "eof" => peer.end = "fin",
         c.op \in {"receive", "eof", "send"} =>
            /\ Reason(c) = "connection_reset" => peer.end = "reset"
            /\ Reason(c) = "broken_pipe" =>
                    peer.end = "reset" \/ (c.op = "send" /\ session.socket = "shutdown")
            /\ Reason(c) = "unexpected_eof" =>
                    c.op = "receive" /\ peer.end = "fin" /\ inbound = <<>>
            /\ Reason(c) = "unexpected_data" => c.op = "eof" /\ inbound # <<>>
  PROVE  Observed(session, inbound, outbound, peer.end, session', outbound')
<1> DEFINE r == session'
<1>1. /\ r.socket = s
      /\ r.configuration = session.configuration
      /\ r.sent = session.sent
      /\ r.is_receive_complete = session.is_receive_complete
      /\ r.failure = session.failure
      /\ Queued(r) = Queued(session) \cup {c}
  BY CompleteData
<1>2. outbound \in Seq(Byte) /\ ~session.exit_requested
  BY DEF ControlInv, TypeOK, Running
<1> HIDE DEF r
<1>3. ASSUME NEW n \in Nat, Accepts(session, n)
      PROVE  Accepts(r, n + (Len(outbound') - Len(outbound)))
  <2>1. CASE c.op = "send"
    <3>1. \A e \in Queued(session) : e.op # "send"
      BY <2>1, NoneInHand DEF InHand
    <3>2. session.sent = n /\ n + (Len(outbound') - Len(outbound)) = n + Len(c.data)
      BY <1>2, <1>3, <2>1, <3>1 DEF Accepts
    <3>3. \A e \in Queued(r) : e.op = "send" => e = c
      BY <1>1, <3>1
    <3>4. c \in Queued(r)
      BY <1>1
    <3> QED BY <1>1, <2>1, <3>2, <3>3, <3>4 DEF Accepts
  <2>2. CASE c.op # "send"
    <3>1. n + (Len(outbound') - Len(outbound)) = n
      BY <1>2, <2>2
    <3>2. Accepts(r, n)
      BY <1>1, <1>3, <2>2 DEF Accepts
    <3> QED BY <3>1, <3>2
  <2> QED BY <2>1, <2>2
<1>4. SawEnd(r) => SawEnd(session) \/ peer.end = "fin"
  BY <1>1 DEF SawEnd
<1>5. \A f : Faces(r, f) =>
        Faces(session, f) \/ (c.op \in {"receive", "eof", "send"} /\ Reason(c) = f)
  BY <1>1 DEF Faces
<1>6. Shut(session) => Shut(r)
  BY <1>1 DEF Shut
<1> QED BY <1>1, <1>2, <1>3, <1>4, <1>5, <1>6 DEF Observed, r

\* Each step of a session that is or gets connected, as its peer can observe it: an end
\* or a reset that it reports was the peer's, it never sends after it has shut down, and
\* what a send hands over is what its socket accepts.
LEMMA Observation ==
  ASSUME SessionInv, SessionInv', session.socket # "unconnected",
         \/ ConnectSucceeds \/ Handle
         \/ ReceivesData("receive") \/ ReceiveFails("receive")
         \/ ReceivesData("eof") \/ ReceiveFails("eof")
         \/ SendsData \/ SendFails
         \/ \E op \in {"receive_throttle", "send_throttle", "timeout"} : TimerExpires(op)
  PROVE  /\ Observed(session, inbound, outbound, peer.end, session', outbound')
         /\ peer' = peer
<1> DEFINE Seen == Observed(session, inbound, outbound, peer.end, session', outbound')
           Sockets == {"connecting", "unconnected", "connected", "shutdown", "closed"}
<1>1. /\ ControlInv /\ session.socket \in Sockets
      /\ outbound \in Seq(Byte) /\ outbound' \in Seq(Byte)
  BY DEF SessionInv, ControlInv, TypeOK, SessionState
<1>2. CASE Handle
  BY <1>2, HandleObserved, HandleEffect DEF SessionInv, DataInv
<1>3. CASE ConnectSucceeds
  <2> DEFINE c == done("connect", "success", <<>>)
  <2>1. /\ "connect" \in session.waiting /\ Running /\ peer' = peer
        /\ outbound' = outbound
    BY <1>3 DEF ConnectSucceeds, Waits
  <2>2. Completed(session', c, "connected")
    BY <1>3 DEF ConnectSucceeds, connected, Completed
  <2>3. session.socket = "connecting"
    BY <2>1 DEF SessionInv, DataInv, LinkInv
  <2>4. c.op = "connect"
    BY DEF done
  <2> HIDE DEF c
  <2> QED BY <1>1, <2>1, <2>2, <2>3, <2>4, CompleteObserved DEF Shut
<1>4. ASSUME NEW c, session' = complete(session, c), c.op \in session.waiting \ {"connect"},
             Running, peer' = peer,
             Shut(session) => outbound' = outbound,
             c.op = "send" => Len(outbound') = Len(outbound) + Len(c.data),
             c.op # "send" => outbound' = outbound,
             c.op = "eof" /\ c.failure = "eof" => peer.end = "fin",
             c.op \in {"receive", "eof", "send"} =>
                /\ Reason(c) = "connection_reset" => peer.end = "reset"
                /\ Reason(c) = "broken_pipe" =>
                    peer.end = "reset" \/ (c.op = "send" /\ session.socket = "shutdown")
                /\ Reason(c) = "unexpected_eof" =>
                    c.op = "receive" /\ peer.end = "fin" /\ inbound = <<>>
                /\ Reason(c) = "unexpected_data" => c.op = "eof" /\ inbound # <<>>
      PROVE  Seen /\ peer' = peer
  <2>1. Completed(session', c, session.socket)
    BY <1>4 DEF Completed
  <2> QED BY <1>1, <1>4, <2>1, CompleteObserved
<1> HIDE DEF Seen
<1>5. ASSUME NEW op \in {"receive", "eof"}, ReceivesData(op)
      PROVE  Seen /\ peer' = peer
  <2>1. PICK n \in 1 .. Least(receive_size(op), Len(inbound)) :
            session' = complete(session, done(op, "success", SubSeq(inbound, 1, n)))
    BY <1>5 DEF ReceivesData
  <2> DEFINE c == done(op, "success", SubSeq(inbound, 1, n))
  <2>2. c.op = op /\ c.failure = "success"
    BY DEF done
  <2>3. op \in session.waiting /\ Running /\ peer' = peer /\ outbound' = outbound
    BY <1>5 DEF ReceivesData, Waits
  <2>4. inbound # <<>>
    <3>1. SUFFICES ASSUME inbound = <<>> PROVE FALSE
      OBVIOUS
    <3>2. receive_size(op) \in Nat /\ Len(inbound) = 0
      BY <1>1, <3>1, BufferAssumption
         DEF receive_size, Least, ControlInv, TypeOK, SessionState
    <3> HIDE DEF c
    <3> QED BY <3>2 DEF Least
  <2>5. session' = complete(session, c)
    BY <2>1
  <2> HIDE DEF c
  <2>6. Reason(c) = IF op = "eof" THEN "unexpected_data" ELSE "success"
    BY <2>2 DEF Reason
  <2> QED BY <1>4, <2>2, <2>3, <2>4, <2>5, <2>6
<1>6. ASSUME NEW op \in {"receive", "eof"}, ReceiveFails(op)
      PROVE  Seen /\ peer' = peer
  <2>1. PICK f \in {"eof", "connection_reset", "not_connected"} :
            /\ \/ f = "eof" /\ peer.end = "fin" /\ inbound = <<>>
               \/ f = "connection_reset" /\ peer.end = "reset"
            /\ session' = complete(session, done(op, f, <<>>))
    BY <1>6 DEF ReceiveFails
  <2> DEFINE c == done(op, f, <<>>)
  <2>2. c.op = op /\ c.failure = f
    BY DEF done
  <2>3. op \in session.waiting /\ Running /\ peer' = peer /\ outbound' = outbound
    BY <1>6 DEF ReceiveFails, Waits
  <2>4. session' = complete(session, c)
    BY <2>1
  <2> HIDE DEF c
  <2>5. Reason(c) = IF op = "receive" /\ f = "eof" THEN "unexpected_eof" ELSE f
    BY <2>1, <2>2 DEF Reason
  <2> QED BY <1>4, <2>1, <2>2, <2>3, <2>4, <2>5
<1>7. ASSUME SendsData
      PROVE  Seen /\ peer' = peer
  <2>1. PICK n \in 1 .. Least(send_size(session), ROOM - Len(outbound)) :
            LET data == BytesToSend(send_offset(session), n)
            IN  /\ session' = complete(session, done("send", "success", data))
                /\ outbound' = outbound \o data
    BY <1>7 DEF SendsData
  <2> DEFINE data == BytesToSend(send_offset(session), n)
             c == done("send", "success", data)
  <2>2. c.op = "send" /\ c.failure = "success" /\ c.data = data
    BY DEF done
  <2>3. /\ "send" \in session.waiting /\ Running /\ peer' = peer
        /\ session.socket = "connected"
    BY <1>7 DEF SendsData, Waits
  <2>4. session' = complete(session, c) /\ outbound' = outbound \o data
    BY <2>1
  <2>5. data \in Seq(Byte)
    <3>1. send_size(session) \in Int /\ send_size(session) <= BUFFER_SIZE - send_offset(session)
      BY <1>1, BufferAssumption DEF send_size, send_offset, Least, ControlInv, TypeOK,
         SessionState
    <3>2. ROOM - Len(outbound) \in Int
      BY <1>1, EnvironmentAssumption
    <3>3. n \in Nat /\ n <= send_size(session)
      BY <3>1, <3>2 DEF Least
    <3>4. session.sent \in Nat
      BY DEF SessionInv, ControlInv, TypeOK, SessionState
    <3> QED BY <3>1, <3>3, <3>4, BytesToSendType, BufferAssumption DEF send_offset
  <2> HIDE DEF data
  <2>6. Len(outbound') = Len(outbound) + Len(data)
    BY <1>1, <2>4, <2>5
  <2> HIDE DEF c
  <2>7. Reason(c) = "success"
    BY <2>2 DEF Reason
  <2>8. /\ c.op \in session.waiting \ {"connect"}
        /\ Shut(session) => outbound' = outbound
        /\ Len(outbound') = Len(outbound) + Len(c.data)
    BY <2>2, <2>3, <2>6 DEF Shut
  <2>9. /\ c.op # "eof" /\ Reason(c) = "success"
    BY <2>2, <2>7
  <2> QED BY <1>4, <2>2, <2>3, <2>4, <2>8, <2>9
<1>8. ASSUME SendFails
      PROVE  Seen /\ peer' = peer
  <2>1. PICK f \in {"broken_pipe", "connection_reset"} :
            /\ \/ f = "broken_pipe" /\ session.socket = "shutdown"
               \/ peer.end = "reset"
            /\ session' = complete(session, done("send", f, <<>>))
    BY <1>8 DEF SendFails
  <2> DEFINE c == done("send", f, <<>>)
  <2>2. c.op = "send" /\ c.failure = f /\ c.data = <<>>
    BY DEF done
  <2>3. "send" \in session.waiting /\ Running /\ peer' = peer /\ outbound' = outbound
    BY <1>8 DEF SendFails, Waits
  <2>4. session' = complete(session, c)
    BY <2>1
  <2> HIDE DEF c
  <2>5. Reason(c) = f
    BY <2>2 DEF Reason
  <2>6. Len(outbound') = Len(outbound) + Len(c.data)
    BY <1>1, <2>2, <2>3
  <2>7. c.op \in session.waiting \ {"connect"}
    BY <2>2, <2>3
  <2> QED BY <1>4, <2>1, <2>2, <2>3, <2>4, <2>5, <2>6, <2>7
<1>9. ASSUME NEW op \in {"receive_throttle", "send_throttle", "timeout"}, TimerExpires(op)
      PROVE  Seen /\ peer' = peer
  <2> DEFINE c == done(op, "success", <<>>)
  <2>1. c.op = op
    BY DEF done
  <2>2. op \in session.waiting /\ Running /\ peer' = peer /\ outbound' = outbound
    BY <1>9 DEF TimerExpires, Waits
  <2>3. session' = complete(session, c)
    BY <1>9 DEF TimerExpires
  <2> HIDE DEF c
  <2> QED BY <1>4, <2>1, <2>2, <2>3
<1> QED BY <1>2, <1>3, <1>5, <1>6, <1>7, <1>8, <1>9 DEF Seen

\* No send is in hand when none is outstanding, or when one is waiting.
LEMMA AcceptsSent ==
  ASSUME ControlInv, "send" \notin Outstanding(session) \/ "send" \in session.waiting
  PROVE  Accepts(session, session.sent)
<1>1. \A c \in Queued(session) : c.op # "send"
  <2>1. CASE "send" \notin Outstanding(session)
    BY <2>1 DEF Outstanding
  <2>2. CASE "send" \in session.waiting
    BY <2>2, NoneInHand DEF InHand
  <2> QED BY <2>1, <2>2
<1> QED BY <1>1 DEF Accepts

\* What it accepted is what its counter and its completed send add up to.
LEMMA KnownSender ==
  ASSUME SessionInv
  PROVE  Sender(session, outbound)
<1>1. ControlInv /\ DataInv /\ PolicyInv(session)
  BY DEF SessionInv
<1>2. /\ outbound \in Seq(Byte) /\ session \in SessionState
      /\ session.sent \in Nat /\ session.send_slice \in Nat
      /\ session.configuration.size \in Nat
  BY <1>1 DEF ControlInv, TypeOK, SessionState, SessionConfiguration
<1>3. /\ session.sent <= session.configuration.size
      /\ \A c \in Queued(session) : c.op = "send" =>
            /\ Len(c.data) <= session.send_slice
            /\ session.sent + session.send_slice <= session.configuration.size
            /\ session.configuration.direction # "RX"
  BY <1>1 DEF ControlInv, CoreInv, SendSizeInv, PolicyInv, Sending, Outstanding
<1>4. ASSUME NEW n \in Nat, Accepts(session, n)
      PROVE  /\ n <= session.configuration.size
             /\ session.configuration.direction = "RX" => n = 0
             /\ outbound # <<>> => Head(outbound) = Pattern(n - Len(outbound))
  <2>1. Unbroken(n)
    <3>1. CASE InHand(session, {"send"}) = {}
      <4>1. \A c \in Queued(session) : c.op # "send"
        BY <3>1 DEF InHand
      <4>2. session.sent = n
        BY <1>4, <4>1 DEF Accepts
      <4> QED BY <1>1, <3>1, <4>2 DEF DataInv, OutboundInv
    <3>2. CASE InHand(session, {"send"}) # {}
      <4>1. PICK c \in InHand(session, {"send"}) : TRUE
        BY <3>2
      <4>2. session.sent + Len(c.data) = n
        BY <1>4, <4>1 DEF Accepts, InHand
      <4>3. Unbroken(session.sent + Len(c.data))
        BY <1>1, <4>1 DEF DataInv, OutboundInv
      <4> QED BY <4>2, <4>3
    <3> QED BY <3>1, <3>2
  <2>2. outbound # <<>> => Head(outbound) = Pattern(n - Len(outbound))
    <3>1. SUFFICES ASSUME outbound # <<>>
                   PROVE  Head(outbound) = Pattern(n - Len(outbound))
      OBVIOUS
    <3>2. 1 \in DOMAIN outbound /\ Head(outbound) = outbound[1] /\ Len(outbound) \in Nat
      BY <1>2, <3>1
    <3>3. n - Len(outbound) + 1 - 1 = n - Len(outbound)
      BY <3>2
    <3> QED BY <2>1, <3>2, <3>3 DEF Unbroken
  <2>3. /\ n <= session.configuration.size
        /\ session.configuration.direction = "RX" => n = 0
    <3>1. CASE \A c \in Queued(session) : c.op # "send"
      <4>1. session.sent = n
        BY <1>4, <3>1 DEF Accepts
      <4> QED BY <1>1, <1>3, <4>1 DEF PolicyInv
    <3>2. ASSUME NEW c \in Queued(session), c.op = "send"
          PROVE  n <= session.configuration.size
                 /\ session.configuration.direction # "RX"
      <4>1. session.sent + Len(c.data) = n
        BY <1>4, <3>2 DEF Accepts
      <4>2. c \in Completion
        BY <1>2, OutstandingType
      <4>3. Len(c.data) \in Nat
        BY <4>2 DEF Completion
      <4> QED BY <1>2, <1>3, <3>2, <4>1, <4>3
    <3> QED BY <3>1, <3>2
  <2> QED BY <2>2, <2>3
<1>5. "send" \in session.waiting =>
            /\ session.configuration.direction # "RX"
            /\ Accepts(session, session.sent)
            /\ session.sent < session.configuration.size
  BY <1>1, AcceptsSent DEF PolicyInv, Sending, Outstanding
<1> QED BY <1>2, <1>4, <1>5 DEF Sender

\* What it received is the peer's stream as far as it got.
LEMMA KnownReceiver ==
  ASSUME SessionInv, session.socket # "unconnected"
  PROVE  Receiver(session, inbound, peer)
<1>1. ControlInv /\ DataInv /\ PolicyInv(session)
  BY DEF SessionInv
<1>2. /\ session \in SessionState /\ session.received \in Nat
      /\ session.configuration.size \in Nat
      /\ inbound \in Seq(Byte) /\ peer.sent \in Nat
  BY <1>1 DEF ControlInv, TypeOK, SessionState, SessionConfiguration
<1>3. peer.corrupted = {} => session.failure # "data_mismatch"
  BY <1>1 DEF DataInv, VerificationExact
<1>4. ~session.exit_requested =>
        /\ session.received + Len(inbound) <= peer.sent
        /\ session.waiting \cap {"receive", "eof"} # {} =>
                session.received + Len(inbound) = peer.sent
  <2>1. SUFFICES ASSUME Running
                 PROVE  /\ session.received + Len(inbound) <= peer.sent
                        /\ session.waiting \cap {"receive", "eof"} # {} =>
                                session.received + Len(inbound) = peer.sent
    BY DEF Running
  <2>2. session.received + Len(inbound) <= peer.sent
    BY <1>1, <2>1, ReceivedOfPeer DEF DataInv
  <2>3. session.waiting \cap {"receive", "eof"} # {} =>
            InHand(session, {"receive", "eof"}) = {}
    BY <1>1, NoneInHand
  <2> QED BY <1>1, <2>1, <2>2, <2>3 DEF DataInv, StreamInv
<1>5. /\ "receive" \in session.waiting =>
            /\ session.configuration.direction # "TX"
            /\ session.received < session.configuration.size
      /\ "eof" \in session.waiting =>
            \/ session.configuration.direction = "TX"
            \/ session.received >= session.configuration.size
  BY <1>1 DEF PolicyInv, Receiving, Outstanding, ControlInv, CoreInv, ReceiveSizeInv
<1>6. session.is_receive_complete => peer.end # "open"
  <2>1. SUFFICES ASSUME session.is_receive_complete PROVE peer.end # "open"
    OBVIOUS
  <2>2. "connect" \notin session.waiting
    BY <1>1, <2>1 DEF ControlInv, CoreInv, CompleteInv, Free, ReceiveLane, Outstanding
  <2>3. Linked(session)
    BY <1>1, <2>2 DEF PolicyInv, Linked
  <2> QED BY <1>1, <2>1, <2>3 DEF DataInv, EndInv
<1> QED BY <1>2, <1>3, <1>4, <1>5, <1>6 DEF Receiver

\* It shuts down, and finishes, as its policy says.
LEMMA KnownPolicy ==
  ASSUME SessionInv
  PROVE  ShutsByPolicy(session)
<1>1. ControlInv /\ PolicyInv(session)
  BY DEF SessionInv
<1>2. SUFFICES ASSUME Shut(session), ~session.exit_requested
      PROVE  /\ Policy(session) = "SEND_COMPLETE" =>
                    Accepts(session, session.configuration.size)
             /\ Policy(session) # "SEND_COMPLETE" =>
                    \/ session.configuration.direction = "TX"
                    \/ /\ session.received >= session.configuration.size
                       /\ "receive" \notin session.waiting
             /\ Policy(session) = "WAIT_FOR_PEER" => session.is_receive_complete
  BY DEF ShutsByPolicy, Policy
<1>3. /\ session.received \in Nat /\ session.configuration.size \in Nat
      /\ Policy(session) \in ShutdownPolicy
  BY <1>1 DEF ControlInv, TypeOK, SessionState, SessionConfiguration, Policy
<1>4. /\ session.is_send_complete => "send" \notin Outstanding(session)
      /\ session.is_send_complete /\ session.configuration.direction # "RX" =>
            session.sent = session.configuration.size
      /\ session.is_receive_complete =>
            \/ session.configuration.direction = "TX"
            \/ session.received >= session.configuration.size
  BY <1>1 DEF ControlInv, CoreInv, CompleteInv, SendSizeInv, ReceiveSizeInv, Free, SendLane
<1>5. /\ Policy(session) = "SEND_COMPLETE" => session.is_send_complete
      /\ Policy(session) # "SEND_COMPLETE" =>
            \/ session.configuration.direction = "TX"
            \/ session.received >= session.configuration.size
      /\ Policy(session) = "WAIT_FOR_PEER" => session.is_receive_complete
  <2>1. CASE session.socket = "closed"
    BY <1>1, <1>4, <2>1 DEF ControlInv, CoreInv, CompleteInv
  <2>2. CASE session.socket = "shutdown"
    BY <1>1, <1>2, <2>2 DEF PolicyInv, ShutInv
  <2> QED BY <1>2, <2>1, <2>2 DEF Shut
<1>6. Policy(session) = "SEND_COMPLETE" => session.configuration.direction # "RX"
  BY <1>1 DEF PolicyInv, Accepted, Policy
<1>7. session.received >= session.configuration.size => "receive" \notin session.waiting
  BY <1>1, <1>3 DEF PolicyInv, Receiving, Outstanding
<1>8. session.is_send_complete => Accepts(session, session.sent)
  BY <1>1, <1>4, AcceptsSent
<1> QED BY <1>4, <1>5, <1>6, <1>7, <1>8

LEMMA KnownSuccess ==
  ASSUME SessionInv
  PROVE  Succeeds(session, peer)
<1>1. ControlInv /\ DataInv
  BY DEF SessionInv
<1>2. SUFFICES ASSUME stopped(session), Running
      PROVE  /\ session.is_receive_complete /\ Accepts(session, session.sent)
             /\ session.received = peer.sent
             /\ session.configuration.direction # "TX" =>
                    session.received >= session.configuration.size
  BY DEF Succeeds, Running
<1>3. Outstanding(session) = {}
  BY <1>2 DEF stopped, Outstanding, Queued
<1>4. session.is_receive_complete /\ session.received \in Nat
  BY <1>1, <1>2, <1>3
     DEF ControlInv, ProgressInv, Running, Free, TypeOK, SessionState
<1>5. session.is_send_complete
  BY <1>1, <1>2, <1>3 DEF ControlInv, ProgressInv, Running, Free
<1>6. session.socket = "closed"
  BY <1>1, <1>4, <1>5 DEF ControlInv, CoreInv, CompleteInv
<1>7. Accepts(session, session.sent)
  BY <1>1, <1>3, AcceptsSent
<1>8. Linked(session) /\ inbound = <<>>
  BY <1>1, <1>4, <1>6 DEF Linked, DataInv, EndInv
<1>9. InHand(session, {"receive", "eof"}) = {}
  BY <1>3 DEF InHand, Outstanding
<1>10. session.received + Len(inbound) = peer.sent
  BY <1>1, <1>2, <1>9 DEF DataInv, StreamInv
<1>11. session.received = peer.sent
  BY <1>4, <1>8, <1>10
<1>12. session.configuration.direction # "TX" =>
            session.received >= session.configuration.size
  BY <1>1, <1>4 DEF ControlInv, CoreInv, ReceiveSizeInv
<1> QED BY <1>4, <1>7, <1>11, <1>12

\* Everything that a session lets its peer know, at any time.
LEMMA Knowledge ==
  ASSUME SessionInv, session.socket # "unconnected"
  PROVE  Known(session, inbound, outbound, peer)
<1>1. Accepted(session.configuration) /\ session.configuration \in SessionConfiguration
  BY DEF SessionInv, PolicyInv, ControlInv, TypeOK, SessionState
<1> QED BY <1>1, KnownSender, KnownReceiver, KnownPolicy, KnownSuccess DEF Known
=============================================================================
