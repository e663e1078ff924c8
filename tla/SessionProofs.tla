---------------------------- MODULE SessionProofs ----------------------------
(***************************************************************************)
(* What sessions of either protocol share: lemmas about the methods of     *)
(* Session and about the operations of asio, for any session record.  How  *)
(* the lanes of a protocol and its handlers use them is proved for each.   *)
(***************************************************************************)
EXTENDS Session, TLAPS

SameData(a, b) ==
    /\ a.configuration = b.configuration
    /\ a.receive_slice = b.receive_slice
    /\ a.send_slice = b.send_slice
    /\ a.received = b.received
    /\ a.sent = b.sent

SameOutcome(a, b) ==
    /\ a.is_receive_complete = b.is_receive_complete
    /\ a.is_send_complete = b.is_send_complete
    /\ a.failure = b.failure
    /\ a.exit_requested = b.exit_requested

SameQueue(a, b) ==
    /\ a.waiting = b.waiting
    /\ a.ready = b.ready
    /\ a.memory = b.memory

\* The queue of a session holds completions, of operations.
LEMMA OutstandingType ==
  ASSUME NEW st \in SessionState
  PROVE  Queued(st) \subseteq Completion /\ Outstanding(st) \subseteq Operation
<1>1. st.ready \in Seq(Completion) /\ st.waiting \subseteq Operation
  BY DEF SessionState
<1>2. Queued(st) \subseteq Completion
  BY <1>1 DEF Queued
<1>3. \A c \in Completion : c.op \in Operation
  BY DEF Completion
<1> QED BY <1>1, <1>2, <1>3 DEF Outstanding

\* The queue of a session and the memory of the handlers in it.
Consistent(st) ==
    /\ st \in SessionState
    /\ QueueInv(st)
    /\ MemoryInv(st)

\* Two operations that would need the same HandlerMemory.
Clash(a, b) == \E m \in HandlerMemory : uses(a, m) /\ uses(b, m)

\* A change of the other fields keeps what is said of the queue.
LEMMA FrameConsistent ==
  ASSUME NEW a, NEW b, Consistent(a), b \in SessionState, SameQueue(a, b)
  PROVE  Consistent(b) /\ Outstanding(b) = Outstanding(a) /\ Queued(b) = Queued(a)
<1>1. Outstanding(b) = Outstanding(a) /\ Queued(b) = Queued(a)
  BY DEF SameQueue, Outstanding, Queued
<1> QED BY <1>1 DEF Consistent, SameQueue, QueueInv, MemoryInv

\* Initiating an operation: HandlerMemory::allocate finds the memory unused.
LEMMA BeginConsistent ==
  ASSUME NEW st, Consistent(st), NEW op \in Operation,
         op \notin Outstanding(st), \A o \in Outstanding(st) : ~Clash(o, op)
  PROVE  /\ Consistent(begin(st, op))
         /\ begin(st, op).waiting = st.waiting \cup {op}
         /\ begin(st, op).ready = st.ready
         /\ Outstanding(begin(st, op)) = Outstanding(st) \cup {op}
         /\ Queued(begin(st, op)) = Queued(st)
         /\ begin(st, op).socket = st.socket
         /\ SameData(begin(st, op), st)
         /\ SameOutcome(begin(st, op), st)
<1> DEFINE b == begin(st, op)
<1>0. st \in SessionState BY DEF Consistent
<1>1. /\ b.waiting = st.waiting \cup {op}
      /\ b.ready = st.ready
      /\ b.memory = allocate(st.memory, op)
      /\ b.socket = st.socket
      /\ SameData(b, st)
      /\ SameOutcome(b, st)
  BY <1>0 DEF begin, SessionState, SameData, SameOutcome
<1>2. b \in SessionState
  <2>1. allocate(st.memory, op) \in [HandlerMemory -> Int]
    BY <1>0 DEF SessionState, allocate
  <2>2. st.waiting \cup {op} \in SUBSET Operation
    BY <1>0 DEF SessionState
  <2> QED BY <1>0, <2>1, <2>2 DEF SessionState, begin
<1> HIDE DEF b
<1>3. Queued(b) = Queued(st)
  BY <1>1 DEF Queued
<1>4. Outstanding(b) = Outstanding(st) \cup {op}
  BY <1>1, <1>3 DEF Outstanding
<1>5. QueueInv(b)
  <2>1. \A i \in DOMAIN st.ready : st.ready[i].op \in Outstanding(st)
    BY DEF Outstanding, Queued
  <2> QED BY <1>1, <2>1 DEF Consistent, QueueInv
<1>8. MemoryInv(b)
  <2> SUFFICES ASSUME NEW m \in HandlerMemory
               PROVE  b.memory[m] = IF \E o \in Outstanding(b) : uses(o, m)
                                    THEN 1 ELSE 0
    BY DEF MemoryInv
  <2>2. st.memory[m] = IF \E o \in Outstanding(st) : uses(o, m) THEN 1 ELSE 0
    BY DEF Consistent, MemoryInv
  <2>3. CASE uses(op, m)
    <3>1. ~ \E o \in Outstanding(st) : uses(o, m)
      BY <2>3 DEF Clash
    <3>2. b.memory[m] = st.memory[m] + 1
      BY <1>1, <2>3 DEF allocate
    <3> QED BY <1>4, <2>2, <2>3, <3>1, <3>2
  <2>4. CASE ~uses(op, m)
    <3>1. b.memory[m] = st.memory[m]
      BY <1>1, <2>4 DEF allocate
    <3> QED BY <1>4, <2>2, <2>4, <3>1
  <2> QED BY <2>3, <2>4
<1> QED BY <1>1, <1>2, <1>3, <1>4, <1>5, <1>8 DEF Consistent, b

\* A completion moves its operation from waiting to the end of the queue.
LEMMA CompleteConsistent ==
  ASSUME NEW st, Consistent(st), NEW c \in Completion, c.op \in st.waiting
  PROVE  /\ Consistent(complete(st, c))
         /\ Outstanding(complete(st, c)) = Outstanding(st)
         /\ Queued(complete(st, c)) = Queued(st) \cup {c}
         /\ complete(st, c).waiting = st.waiting \ {c.op}
         /\ complete(st, c).ready = Append(st.ready, c)
         /\ complete(st, c).socket = st.socket
         /\ SameData(complete(st, c), st)
         /\ SameOutcome(complete(st, c), st)
<1> DEFINE b == complete(st, c)
<1>0. st \in SessionState BY DEF Consistent
<1>1. /\ b.waiting = st.waiting \ {c.op}
      /\ b.ready = Append(st.ready, c)
      /\ b.memory = st.memory
      /\ b.socket = st.socket
      /\ SameData(b, st)
      /\ SameOutcome(b, st)
  BY <1>0 DEF complete, SessionState, SameData, SameOutcome
<1>2. b \in SessionState
  <2>1. Append(st.ready, c) \in Seq(Completion)
    BY <1>0 DEF SessionState
  <2>2. st.waiting \ {c.op} \in SUBSET Operation
    BY <1>0 DEF SessionState
  <2> QED BY <1>0, <2>1, <2>2 DEF SessionState, complete
<1> HIDE DEF b
<1>3. /\ st.ready \in Seq(Completion)
      /\ DOMAIN st.ready = 1 .. Len(st.ready)
      /\ Len(st.ready) \in Nat
      /\ DOMAIN b.ready = 1 .. Len(st.ready) + 1
      /\ b.ready[Len(st.ready) + 1] = c
      /\ \A i \in DOMAIN st.ready : b.ready[i] = st.ready[i]
  BY <1>0, <1>1 DEF SessionState
<1>4. Queued(b) = Queued(st) \cup {c}
  BY <1>3 DEF Queued
<1>5. Outstanding(b) = Outstanding(st)
  BY <1>1, <1>4 DEF Outstanding
<1>6. QueueInv(b)
  BY <1>1, <1>3 DEF Consistent, QueueInv
<1>9. MemoryInv(b)
  BY <1>1, <1>5 DEF Consistent, MemoryInv
<1> QED BY <1>1, <1>2, <1>4, <1>5, <1>6, <1>9 DEF Consistent, b

\* Cancelling completes an operation that waits, and does nothing otherwise.
LEMMA CancelConsistent ==
  ASSUME NEW st, Consistent(st), NEW op \in Operation
  PROVE  /\ Consistent(cancel(st, op))
         /\ Outstanding(cancel(st, op)) = Outstanding(st)
         /\ Queued(cancel(st, op)) \subseteq
                Queued(st) \cup {done(op, "operation_aborted", <<>>)}
         /\ op \notin Outstanding(st) => cancel(st, op) = st
         /\ cancel(st, op).waiting = st.waiting \ {op}
         /\ cancel(st, op).socket = st.socket
         /\ SameData(cancel(st, op), st)
         /\ SameOutcome(cancel(st, op), st)
<1> DEFINE c == done(op, "operation_aborted", <<>>)
<1>1. c \in Completion /\ c.op = op
  <2>1. "operation_aborted" \in ErrorCode
    BY DEF ErrorCode, SystemError
  <2> QED BY <2>1 DEF done, Completion
<1>2. op \in st.waiting => cancel(st, op) = complete(st, c)
  BY DEF cancel
<1>3. op \notin st.waiting => cancel(st, op) = st
  BY DEF cancel
<1> HIDE DEF c
<1>4. CASE op \in st.waiting
  BY <1>1, <1>2, <1>4, CompleteConsistent DEF Outstanding, c
<1>5. CASE op \notin st.waiting
  BY <1>3, <1>5 DEF Outstanding, SameData, SameOutcome
<1> QED BY <1>4, <1>5

\* Dequeuing the next handler ends its operation and frees its memory.
LEMMA DispatchConsistent ==
  ASSUME NEW st, Consistent(st), st.ready # <<>>,
         \A o \in Outstanding(st) \ {Head(st.ready).op} : ~Clash(o, Head(st.ready).op)
  PROVE  LET c == Head(st.ready)
         IN  /\ Consistent(dispatch(st))
             /\ c \in Completion
             /\ c \in Queued(st)
             /\ c.op \in Outstanding(st)
             /\ Outstanding(dispatch(st)) = Outstanding(st) \ {c.op}
             /\ Queued(dispatch(st)) = Queued(st) \ {c}
             /\ dispatch(st).waiting = st.waiting
             /\ dispatch(st).ready = Tail(st.ready)
             /\ dispatch(st).socket = st.socket
             /\ SameData(dispatch(st), st)
             /\ SameOutcome(dispatch(st), st)
<1> DEFINE b == dispatch(st)
           c == Head(st.ready)
<1>0. st \in SessionState BY DEF Consistent
<1>1. /\ b.waiting = st.waiting
      /\ b.ready = Tail(st.ready)
      /\ b.memory = deallocate(st.memory, c.op)
      /\ b.socket = st.socket
      /\ SameData(b, st)
      /\ SameOutcome(b, st)
  BY <1>0 DEF dispatch, SessionState, SameData, SameOutcome
<1>2. c \in Completion /\ Tail(st.ready) \in Seq(Completion)
  BY <1>0 DEF SessionState
<1>3. b \in SessionState
  <2>1. deallocate(st.memory, c.op) \in [HandlerMemory -> Int]
    BY <1>0 DEF SessionState, deallocate
  <2> QED BY <1>0, <1>2, <2>1 DEF SessionState, dispatch
<1> HIDE DEF b
<1>4. /\ st.ready \in Seq(Completion)
      /\ Len(st.ready) \in Nat \ {0}
      /\ DOMAIN st.ready = 1 .. Len(st.ready)
      /\ c = st.ready[1]
      /\ DOMAIN b.ready = 1 .. Len(st.ready) - 1
      /\ \A i \in DOMAIN b.ready : b.ready[i] = st.ready[i + 1]
  BY <1>0, <1>1 DEF SessionState
<1> HIDE DEF c
<1>5. /\ 1 \in DOMAIN st.ready
      /\ \A i \in DOMAIN b.ready : i + 1 \in DOMAIN st.ready /\ i + 1 # 1
      /\ \A i \in DOMAIN st.ready \ {1} :
            i - 1 \in DOMAIN b.ready /\ st.ready[i] = b.ready[i - 1]
  BY <1>4
<1>6. \A i \in DOMAIN b.ready : b.ready[i].op # c.op
  <2> TAKE i \in DOMAIN b.ready
  <2>1. st.ready[i + 1].op # st.ready[1].op
    BY <1>5 DEF Consistent, QueueInv
  <2> QED BY <1>4, <2>1
<1>7. c \in Queued(st) /\ Queued(b) = Queued(st) \ {c}
  <2>1. c \in Queued(st)
    BY <1>4, <1>5 DEF Queued
  <2>2. Queued(b) \subseteq Queued(st) \ {c}
    <3>1. ASSUME NEW d \in Queued(b) PROVE d \in Queued(st) /\ d # c
      <4>1. PICK i \in DOMAIN b.ready : d = b.ready[i]
        BY DEF Queued
      <4>2. d = st.ready[i + 1] /\ i + 1 \in DOMAIN st.ready
        BY <1>4, <1>5, <4>1
      <4> QED BY <1>6, <4>1, <4>2 DEF Queued
    <3> QED BY <3>1
  <2>3. Queued(st) \ {c} \subseteq Queued(b)
    <3>1. ASSUME NEW d \in Queued(st), d # c PROVE d \in Queued(b)
      <4>1. PICK i \in DOMAIN st.ready : d = st.ready[i]
        BY DEF Queued
      <4>2. i # 1
        BY <1>4, <3>1, <4>1
      <4> QED BY <1>5, <4>1, <4>2 DEF Queued
    <3> QED BY <3>1
  <2> QED BY <2>1, <2>2, <2>3
<1>8. c.op \in Outstanding(st) /\ c.op \notin st.waiting
  BY <1>4, <1>7 DEF Outstanding, Consistent, QueueInv
<1>9. Outstanding(b) = Outstanding(st) \ {c.op}
  <2>1. \A d \in Queued(b) : d.op # c.op
    BY <1>6 DEF Queued
  <2> QED BY <1>1, <1>7, <1>8, <2>1 DEF Outstanding
<1>10. QueueInv(b)
  <2>1. ASSUME NEW i \in DOMAIN b.ready, NEW j \in DOMAIN b.ready,
               b.ready[i].op = b.ready[j].op
        PROVE  i = j
    <3>1. st.ready[i + 1].op = st.ready[j + 1].op
      BY <1>4, <2>1
    <3>2. i + 1 = j + 1
      BY <1>5, <3>1 DEF Consistent, QueueInv
    <3> QED BY <1>4, <3>2
  <2>2. \A i \in DOMAIN b.ready : b.ready[i].op \notin b.waiting
    BY <1>1, <1>4, <1>5 DEF Consistent, QueueInv
  <2> QED BY <2>1, <2>2 DEF QueueInv
<1>13. MemoryInv(b)
  <2> SUFFICES ASSUME NEW m \in HandlerMemory
               PROVE  b.memory[m] = IF \E o \in Outstanding(b) : uses(o, m)
                                    THEN 1 ELSE 0
    BY DEF MemoryInv
  <2>2. st.memory[m] = IF \E o \in Outstanding(st) : uses(o, m) THEN 1 ELSE 0
    BY DEF Consistent, MemoryInv
  <2>3. CASE uses(c.op, m)
    <3>1. ~ \E o \in Outstanding(b) : uses(o, m)
      BY <1>8, <1>9, <2>3 DEF Clash, c
    <3>2. b.memory[m] = st.memory[m] - 1
      BY <1>1, <2>3 DEF allocate, deallocate
    <3> QED BY <1>8, <2>2, <2>3, <3>1, <3>2
  <2>4. CASE ~uses(c.op, m)
    <3>1. b.memory[m] = st.memory[m]
      BY <1>1, <2>4 DEF deallocate
    <3> QED BY <1>9, <2>2, <2>4, <3>1
  <2> QED BY <2>3, <2>4
<1> QED BY <1>1, <1>2, <1>3, <1>7, <1>8, <1>9, <1>10, <1>13 DEF Consistent, b, c

\* Session::on_finish, when nothing is outstanding but the signal and the timer: only
\* these are cancelled.
LEMMA OnFinishConsistent ==
  ASSUME NEW st, Consistent(st), Outstanding(st) \subseteq {"signal", "timeout"}
  PROVE  /\ Consistent(on_finish(st))
         /\ on_finish(st).socket = "closed"
         /\ on_finish(st).waiting = {}
         /\ Outstanding(on_finish(st)) = Outstanding(st)
         /\ \A c \in Queued(on_finish(st)) :
                \/ c \in Queued(st)
                \/ c = done("signal", "operation_aborted", <<>>)
                \/ c = done("timeout", "operation_aborted", <<>>)
         /\ SameData(on_finish(st), st)
         /\ SameOutcome(on_finish(st), st)
<1> DEFINE a == cancel(st, "signal")
           b == cancel(a, "timeout")
           e == cancel(cancel(cancel(b, "receive"), "eof"), "send")
           f == [e EXCEPT !.socket = "closed"]
<1>1. {"signal", "timeout", "receive", "eof", "send"} \subseteq Operation
  BY DEF Operation, SocketOps
<1>2. /\ Consistent(a) /\ Outstanding(a) = Outstanding(st)
      /\ a.waiting = st.waiting \ {"signal"}
      /\ Queued(a) \subseteq Queued(st) \cup {done("signal", "operation_aborted", <<>>)}
      /\ SameData(a, st) /\ SameOutcome(a, st)
  BY <1>1, CancelConsistent
<1> HIDE DEF a
<1>3. /\ Consistent(b) /\ Outstanding(b) = Outstanding(a)
      /\ b.waiting = a.waiting \ {"timeout"}
      /\ Queued(b) \subseteq Queued(a) \cup {done("timeout", "operation_aborted", <<>>)}
      /\ SameData(b, a) /\ SameOutcome(b, a)
  BY <1>1, <1>2, CancelConsistent
<1> HIDE DEF b
<1>4. {"receive", "eof", "send"} \cap Outstanding(b) = {}
  BY <1>2, <1>3
<1>5. e = b
  <2>1. cancel(b, "receive") = b /\ cancel(b, "eof") = b /\ cancel(b, "send") = b
    BY <1>4 DEF cancel, Outstanding
  <2> QED BY <2>1
<1>6. on_finish(st) = f
  BY DEF on_finish, close, a, b
<1>7. /\ f \in SessionState /\ SameQueue(b, f) /\ SameData(f, b) /\ SameOutcome(f, b)
      /\ f.socket = "closed"
  BY <1>3, <1>5 DEF Consistent, SessionState, SameQueue, SameData, SameOutcome
<1> HIDE DEF e, f
<1>8. Consistent(f) /\ Outstanding(f) = Outstanding(b) /\ Queued(f) = Queued(b)
  BY <1>3, <1>7, FrameConsistent
<1>9. SameData(f, st) /\ SameOutcome(f, st) /\ Outstanding(f) = Outstanding(st)
  BY <1>2, <1>3, <1>7, <1>8 DEF SameData, SameOutcome
<1>10. \A c \in Queued(f) : \/ c \in Queued(st)
                            \/ c = done("signal", "operation_aborted", <<>>)
                            \/ c = done("timeout", "operation_aborted", <<>>)
  BY <1>2, <1>3, <1>8
<1>11. f.waiting = {}
  <2>1. st.waiting \subseteq {"signal", "timeout"}
    BY DEF Outstanding
  <2> QED BY <1>2, <1>3, <1>7, <2>1 DEF SameQueue
<1> QED BY <1>6, <1>7, <1>8, <1>9, <1>10, <1>11

\* What the timer and signals report.
Interruptions ==
    {"test_timeout", "user_interrupt", "program_termination", "unknown_signal"}

\* The failure that a session makes of what became of a transfer,
Reason(c) ==
    IF c.op = "receive" /\ c.failure = "eof" THEN "unexpected_eof"
    ELSE IF c.op = "eof" /\ c.failure = "success" THEN "unexpected_data"
    ELSE c.failure

\* and the failures with which a handler may leave it.
MayReport(f, c) ==
    \/ f \in {"success", "data_mismatch"}
    \/ c.op \in {"receive", "eof", "send"} /\ f = Reason(c)
    \/ c.op = "timeout" /\ f = "test_timeout"
    \/ c.op = "signal" /\ f \in Interruptions

\* What a session may report of its own: never the cancellation of its operations, and
\* the end of the stream only by other names.
Reported == ErrorCode \ {"success", "operation_aborted", "eof"}

FailureStops(st) == st.failure # "success" => st.exit_requested

\* A handler that requests the exit reports why.
Reports(r, st) == r.exit_requested => st.exit_requested \/ r.failure # "success"

\* How a handler leaves the session that it was called with: a request to exit comes
\* with a failure and not from a session that has just been closed, and no operation is
\* given up.
Handled(r, d) ==
    /\ r.exit_requested => r.failure # "success" /\ r.socket # "closed"
    /\ Outstanding(d) \subseteq Outstanding(r)

\* What async_send hands to the socket lies within send_buffer_.
LEMMA BytesToSendType ==
  ASSUME NEW position \in Nat, NEW n \in Nat,
         n <= BUFFER_SIZE - (position % BYTE_VALUES)
  PROVE  /\ BytesToSend(position % BYTE_VALUES, n) \in Seq(Byte)
         /\ Len(BytesToSend(position % BYTE_VALUES, n)) = n
<1> DEFINE offset == position % BYTE_VALUES
<1>1. \A k \in Nat : k % BYTE_VALUES \in Byte
  BY BufferAssumption DEF Byte
<1>2. offset \in Nat
  BY <1>1 DEF Byte
<1> HIDE DEF offset
<1>3. BUFFER_SIZE \in Nat
  BY BufferAssumption
<1>4. n <= BUFFER_SIZE - offset
  BY DEF offset
<1>5. \A i \in 1 .. n : SendBuffer[offset + i - 1] \in Byte
  <2> TAKE i \in 1 .. n
  <2>1. offset + i - 1 \in 0 .. BUFFER_SIZE - 1
    BY <1>2, <1>3, <1>4
  <2>2. SendBuffer[offset + i - 1] = (offset + i - 1) % BYTE_VALUES
    BY <2>1 DEF SendBuffer
  <2>3. offset + i - 1 \in Nat
    BY <1>2
  <2> QED BY <1>1, <2>2, <2>3
<1>6. BytesToSend(offset, n) \in [1 .. n -> Byte]
  BY <1>5 DEF BytesToSend
<1> QED BY <1>6 DEF offset

\* The type of the parts of a sequence.
LEMMA SubSeqType ==
  ASSUME NEW S, NEW s \in Seq(S), NEW n \in 1 .. Len(s)
  PROVE  /\ SubSeq(s, 1, n) \in Seq(S) /\ Len(SubSeq(s, 1, n)) = n
         /\ SubSeq(s, n + 1, Len(s)) \in Seq(S)
OBVIOUS

\* Bytes are numbers.
LEMMA ByteSeq == Seq(Byte) \subseteq Seq(Nat)
<1>1. Byte \subseteq Nat
  BY BufferAssumption DEF Byte
<1>2. ASSUME NEW s \in Seq(Byte) PROVE s \in Seq(Nat)
  <2>1. s \in [1 .. Len(s) -> Byte] /\ Len(s) \in Nat
    OBVIOUS
  <2>2. s \in [1 .. Len(s) -> Nat]
    BY <1>1, <2>1
  <2> QED BY <2>1, <2>2
<1> QED BY <1>2

\* The type of a completion with data.
LEMMA DoneType ==
  ASSUME NEW op \in Operation, NEW failure \in ErrorCode, NEW data \in Seq(Nat)
  PROVE  /\ done(op, failure, data) \in Completion
         /\ done(op, failure, data).op = op
         /\ done(op, failure, data).failure = failure
         /\ done(op, failure, data).data = data
BY DEF done, Completion

\* The type of a completion without data.
LEMMA DoneEmptyType ==
  ASSUME NEW op \in Operation, NEW failure \in ErrorCode
  PROVE  /\ done(op, failure, <<>>) \in Completion
         /\ done(op, failure, <<>>).op = op
         /\ done(op, failure, <<>>).failure = failure
         /\ Len(done(op, failure, <<>>).data) = 0
BY DEF done, Completion

-----------------------------------------------------------------------------
(* What methods leave alone: all but the queue, which gains cancelled      *)
(* operations only, and the socket, which goes on towards its end.         *)

Later(r, st) ==
    \/ r.socket = st.socket
    \/ st.socket = "connected" /\ r.socket = "shutdown"
    \/ r.socket = "closed"

Extends(r, st) ==
    /\ Queued(st) \subseteq Queued(r)
    /\ \A c \in Queued(r) \ Queued(st) : c.failure = "operation_aborted"
    /\ "connect" \in r.waiting => "connect" \in st.waiting

Keeps(r, st) ==
    /\ r \in SessionState
    /\ r.configuration = st.configuration
    /\ r.received = st.received
    /\ r.sent = st.sent
    /\ r.is_receive_complete = st.is_receive_complete
    /\ r.failure = st.failure
    /\ r.exit_requested = st.exit_requested
    /\ Later(r, st)
    /\ Extends(r, st)

\* One call after the other.
LEMMA KeepsTransitive ==
  ASSUME NEW a, NEW b, NEW st, Keeps(a, b), Keeps(b, st)
  PROVE  Keeps(a, st)
<1>1. Later(a, st)
  BY DEF Keeps, Later
<1>2. Extends(a, st)
  BY DEF Keeps, Extends
<1> QED BY <1>1, <1>2 DEF Keeps

\* No call at all.
LEMMA KeepsNothing ==
  ASSUME NEW st \in SessionState
  PROVE  Keeps(st, st)
BY DEF Keeps, Later, Extends

\* Initiating an operation other than the connection.
LEMMA KeepsBegin ==
  ASSUME NEW st \in SessionState, NEW op \in Operation \ {"connect"}
  PROVE  Keeps(begin(st, op), st)
<1> DEFINE b == begin(st, op)
<1>1. /\ b.waiting = st.waiting \cup {op}
      /\ b.ready = st.ready
      /\ b.socket = st.socket
      /\ b.configuration = st.configuration
      /\ b.received = st.received /\ b.sent = st.sent
      /\ b.is_receive_complete = st.is_receive_complete
      /\ b.failure = st.failure /\ b.exit_requested = st.exit_requested
  BY DEF begin, SessionState
<1>2. b \in SessionState
  <2>1. allocate(st.memory, op) \in [HandlerMemory -> Int]
    BY DEF SessionState, allocate
  <2>2. st.waiting \cup {op} \in SUBSET Operation
    BY DEF SessionState
  <2> QED BY <2>1, <2>2 DEF SessionState, begin
<1> HIDE DEF b
<1>3. Queued(b) = Queued(st)
  BY <1>1 DEF Queued
<1>4. Later(b, st) /\ Extends(b, st)
  BY <1>1, <1>3 DEF Later, Extends
<1> QED BY <1>1, <1>2, <1>4 DEF Keeps, b

\* Completing an operation appends to the queue.
LEMMA QueuedAppend ==
  ASSUME NEW st \in SessionState, NEW b, NEW c, b.ready = Append(st.ready, c)
  PROVE  Queued(b) = Queued(st) \cup {c}
<1>1. /\ st.ready \in Seq(Completion)
      /\ DOMAIN st.ready = 1 .. Len(st.ready)
      /\ Len(st.ready) \in Nat
      /\ DOMAIN b.ready = 1 .. Len(st.ready) + 1
      /\ b.ready[Len(st.ready) + 1] = c
      /\ \A i \in DOMAIN st.ready : b.ready[i] = st.ready[i]
  BY DEF SessionState
<1> QED BY <1>1 DEF Queued

\* Cancelling an operation.
LEMMA KeepsCancel ==
  ASSUME NEW st \in SessionState, NEW op \in Operation
  PROVE  Keeps(cancel(st, op), st)
<1> DEFINE c == done(op, "operation_aborted", <<>>)
           b == complete(st, c)
<1>1. CASE op \in st.waiting
  <2>1. c \in Completion /\ c.op = op /\ c.failure = "operation_aborted"
    <3>1. "operation_aborted" \in ErrorCode
      BY DEF ErrorCode, SystemError
    <3> QED BY <3>1 DEF done, Completion
  <2> HIDE DEF c
  <2>2. /\ b.waiting = st.waiting \ {op}
        /\ b.ready = Append(st.ready, c)
        /\ b.socket = st.socket
        /\ b.configuration = st.configuration
        /\ b.received = st.received /\ b.sent = st.sent
        /\ b.is_receive_complete = st.is_receive_complete
        /\ b.failure = st.failure /\ b.exit_requested = st.exit_requested
    BY <2>1 DEF complete, SessionState
  <2>3. b \in SessionState
    <3>1. Append(st.ready, c) \in Seq(Completion)
      BY <2>1 DEF SessionState
    <3>2. st.waiting \ {op} \in SUBSET Operation
      BY DEF SessionState
    <3> QED BY <2>1, <3>1, <3>2 DEF SessionState, complete
  <2>4. cancel(st, op) = b
    BY <1>1 DEF cancel, c
  <2> HIDE DEF b
  <2>5. Queued(b) = Queued(st) \cup {c}
    BY <2>2, QueuedAppend
  <2>6. Later(b, st) /\ Extends(b, st)
    BY <2>1, <2>2, <2>5 DEF Later, Extends
  <2> QED BY <2>2, <2>3, <2>4, <2>6 DEF Keeps
<1>2. CASE op \notin st.waiting
  BY <1>2, KeepsNothing DEF cancel
<1> QED BY <1>1, <1>2

\* A socket that goes on.
LEMMA KeepsSocket ==
  ASSUME NEW st \in SessionState,
         NEW s \in {"connecting", "unconnected", "connected", "shutdown", "closed"},
         \/ s = "closed"
         \/ st.socket = "connected" /\ s = "shutdown"
  PROVE  Keeps([st EXCEPT !.socket = s], st)
<1> DEFINE b == [st EXCEPT !.socket = s]
<1>1. /\ b.waiting = st.waiting
      /\ b.ready = st.ready
      /\ b.socket = s
      /\ b.configuration = st.configuration
      /\ b.received = st.received /\ b.sent = st.sent
      /\ b.is_receive_complete = st.is_receive_complete
      /\ b.failure = st.failure /\ b.exit_requested = st.exit_requested
      /\ b \in SessionState
  BY DEF SessionState
<1> HIDE DEF b
<1>2. Queued(b) = Queued(st)
  BY <1>1 DEF Queued
<1>3. Later(b, st) /\ Extends(b, st)
  BY <1>1, <1>2 DEF Later, Extends
<1> QED BY <1>1, <1>3 DEF Keeps, b

\* Session::on_finish.
LEMMA KeepsFinish ==
  ASSUME NEW st \in SessionState
  PROVE  Keeps(on_finish(st), st)
<1> DEFINE a == cancel(st, "signal")
           b == cancel(a, "timeout")
           e == cancel(b, "receive")
           f == cancel(e, "eof")
           g == cancel(f, "send")
<1>0. {"signal", "timeout", "receive", "eof", "send"} \subseteq Operation
  BY DEF Operation, SocketOps
<1>1. Keeps(a, st)
  BY <1>0, KeepsCancel
<1> HIDE DEF a
<1>2. Keeps(b, a)
  BY <1>0, <1>1, KeepsCancel DEF Keeps
<1> HIDE DEF b
<1>3. Keeps(e, b)
  BY <1>0, <1>2, KeepsCancel DEF Keeps
<1> HIDE DEF e
<1>4. Keeps(f, e)
  BY <1>0, <1>3, KeepsCancel DEF Keeps
<1> HIDE DEF f
<1>5. Keeps(g, f)
  BY <1>0, <1>4, KeepsCancel DEF Keeps
<1> HIDE DEF g
<1>6. Keeps([g EXCEPT !.socket = "closed"], g)
  BY <1>5, KeepsSocket DEF Keeps
<1>7. Keeps([g EXCEPT !.socket = "closed"], e)
  BY <1>4, <1>5, <1>6, KeepsTransitive
<1>8. Keeps([g EXCEPT !.socket = "closed"], a)
  BY <1>2, <1>3, <1>7, KeepsTransitive
<1>9. on_finish(st) = [g EXCEPT !.socket = "closed"]
  BY DEF on_finish, close, a, b, e, f, g
<1> QED BY <1>1, <1>8, <1>9, KeepsTransitive

\* on_receive_complete, but for the flag it sets.
LEMMA KeepsReceiveComplete ==
  ASSUME NEW st \in SessionState
  PROVE  Keeps(on_receive_complete(st), [st EXCEPT !.is_receive_complete = TRUE])
<1>1. [st EXCEPT !.is_receive_complete = TRUE] \in SessionState
  BY DEF SessionState
<1> QED BY <1>1, KeepsFinish, KeepsNothing DEF on_receive_complete

\* A flag or a slice of the sending side.
LEMMA KeepsFields ==
  ASSUME NEW st \in SessionState, NEW b \in SessionState, SameQueue(b, st),
         b.configuration = st.configuration,
         b.received = st.received, b.sent = st.sent,
         b.is_receive_complete = st.is_receive_complete,
         b.failure = st.failure, b.exit_requested = st.exit_requested,
         b.socket = st.socket
  PROVE  Keeps(b, st)
BY DEF Keeps, Later, Extends, SameQueue, Queued

\* on_send_complete.
LEMMA KeepsSendComplete ==
  ASSUME NEW st \in SessionState
  PROVE  Keeps(on_send_complete(st), st)
<1> DEFINE b == [st EXCEPT !.is_send_complete = TRUE]
<1>1. b \in SessionState /\ Keeps(b, st)
  <2>1. /\ b \in SessionState /\ SameQueue(b, st)
        /\ b.configuration = st.configuration
        /\ b.received = st.received /\ b.sent = st.sent
        /\ b.is_receive_complete = st.is_receive_complete
        /\ b.failure = st.failure /\ b.exit_requested = st.exit_requested
        /\ b.socket = st.socket
    BY DEF SessionState, SameQueue
  <2> HIDE DEF b
  <2> QED BY <2>1, KeepsFields
<1>2. on_send_complete(st) = IF st.is_receive_complete THEN on_finish(b) ELSE b
  BY DEF on_send_complete
<1> HIDE DEF b
<1> QED BY <1>1, <1>2, KeepsFinish, KeepsTransitive

\* The two ways of async_receive,
LEMMA KeepsReceiving ==
  ASSUME NEW st \in SessionState, NEW slice \in Nat
  PROVE  /\ Keeps(begin(st, "receive_throttle"), st)
         /\ Keeps(begin([st EXCEPT !.receive_slice = slice], "receive"), st)
<1> DEFINE b == [st EXCEPT !.receive_slice = slice]
<1>0. {"receive", "receive_throttle"} \subseteq Operation \ {"connect"}
  BY DEF Operation, SocketOps, ThrottleOps
<1>1. b \in SessionState /\ Keeps(b, st)
  <2>1. /\ b \in SessionState /\ SameQueue(b, st)
        /\ b.configuration = st.configuration
        /\ b.received = st.received /\ b.sent = st.sent
        /\ b.is_receive_complete = st.is_receive_complete
        /\ b.failure = st.failure /\ b.exit_requested = st.exit_requested
        /\ b.socket = st.socket
    BY DEF SessionState, SameQueue
  <2> HIDE DEF b
  <2> QED BY <2>1, KeepsFields
<1> HIDE DEF b
<1>2. Keeps(begin(b, "receive"), st)
  BY <1>0, <1>1, KeepsBegin, KeepsTransitive
<1>3. Keeps(begin(st, "receive_throttle"), st)
  BY <1>0, KeepsBegin
<1> QED BY <1>2, <1>3 DEF b

\* and those of async_send.
LEMMA KeepsSending ==
  ASSUME NEW st \in SessionState, NEW slice \in Nat, st.sent <= st.configuration.size
  PROVE  /\ Keeps(begin(st, "send_throttle"), st)
         /\ Keeps(begin([st EXCEPT !.send_slice =
                              Least(slice, st.configuration.size - st.sent)], "send"),
                  st)
<1> DEFINE n == Least(slice, st.configuration.size - st.sent)
           b == [st EXCEPT !.send_slice = n]
<1>0. {"send", "send_throttle"} \subseteq Operation \ {"connect"}
  BY DEF Operation, SocketOps, ThrottleOps
<1>1. n \in Nat
  BY DEF Least, SessionState, SessionConfiguration
<1> HIDE DEF n
<1>2. b \in SessionState /\ Keeps(b, st)
  <2>1. /\ b \in SessionState /\ SameQueue(b, st)
        /\ b.configuration = st.configuration
        /\ b.received = st.received /\ b.sent = st.sent
        /\ b.is_receive_complete = st.is_receive_complete
        /\ b.failure = st.failure /\ b.exit_requested = st.exit_requested
        /\ b.socket = st.socket
    BY <1>1 DEF SessionState, SameQueue
  <2> HIDE DEF b
  <2> QED BY <2>1, KeepsFields
<1> HIDE DEF b
<1>3. Keeps(begin(b, "send"), st)
  BY <1>0, <1>2, KeepsBegin, KeepsTransitive
<1>4. Keeps(begin(st, "send_throttle"), st)
  BY <1>0, KeepsBegin
<1> QED BY <1>3, <1>4 DEF b, n

-----------------------------------------------------------------------------
(* What the other end of a connection can tell of a session.               *)

\* Its socket has accepted n bytes, those of a send whose handler has not run included.
Accepts(st, n) ==
    /\ \A c \in Queued(st) : c.op = "send" => st.sent + Len(c.data) = n
    /\ (\A c \in Queued(st) : c.op # "send") => st.sent = n

\* It has closed its sending side.
Shut(st) == st.socket \in {"shutdown", "closed"}

\* It has seen the end of the other one's stream.
SawEnd(st) ==
    \/ st.is_receive_complete
    \/ \E c \in Queued(st) : c.op = "eof" /\ c.failure = "eof"

\* It has failed that way, or is about to.
Faces(st, failure) ==
    \/ st.failure = failure
    \/ \E c \in Queued(st) : c.op \in {"receive", "eof", "send"} /\ Reason(c) = failure

\* What a step of a connected session is to its peer, with the bytes `in' and `out' on
\* their way to and from it: where an end, a reset or a byte too many comes from.
Observed(st, in, out, peer_end, r, out_after) ==
    /\ ~st.exit_requested
    /\ r.configuration = st.configuration
    /\ r.socket # "unconnected"
    /\ Shut(st) => Shut(r) /\ out_after = out
    /\ \A n \in Nat : Accepts(st, n) => Accepts(r, n + (Len(out_after) - Len(out)))
    /\ SawEnd(r) => SawEnd(st) \/ peer_end = "fin"
    /\ Faces(r, "connection_reset") => Faces(st, "connection_reset") \/ peer_end = "reset"
    /\ Faces(r, "broken_pipe") =>
            \/ Faces(st, "broken_pipe") \/ peer_end = "reset"
            \/ "send" \in st.waiting /\ st.socket = "shutdown"
    /\ Faces(r, "unexpected_eof") =>
            \/ Faces(st, "unexpected_eof")
            \/ "receive" \in st.waiting /\ peer_end = "fin" /\ in = <<>>
    /\ Faces(r, "unexpected_data") =>
            \/ Faces(st, "unexpected_data")
            \/ "eof" \in st.waiting /\ in # <<>>

\* What the peer may rely on: the bytes that it gets, up to the size,
Sender(st, out) ==
    /\ out \in Seq(Byte)
    /\ \A n \in Nat : Accepts(st, n) =>
            /\ n <= st.configuration.size
            /\ st.configuration.direction = "RX" => n = 0
            /\ out # <<>> => Head(out) = Pattern(n - Len(out))
    /\ "send" \in st.waiting =>
            /\ st.configuration.direction # "RX"
            /\ Accepts(st, st.sent) /\ st.sent < st.configuration.size

\* what becomes of those that it sent,
Receiver(st, in, peer) ==
    /\ st.received \in Nat /\ st.configuration.size \in Nat
    /\ in \in Seq(Byte) /\ peer.sent \in Nat
    /\ peer.corrupted = {} => st.failure # "data_mismatch"
    /\ ~st.exit_requested =>
            /\ st.received + Len(in) <= peer.sent
            /\ st.waiting \cap {"receive", "eof"} # {} => st.received + Len(in) = peer.sent
    /\ "receive" \in st.waiting =>
            st.configuration.direction # "TX" /\ st.received < st.configuration.size
    /\ "eof" \in st.waiting =>
            st.configuration.direction = "TX" \/ st.received >= st.configuration.size
    /\ st.is_receive_complete => peer.end # "open"

\* when the other side shuts down,
ShutsByPolicy(st) ==
    Shut(st) /\ ~st.exit_requested =>
        /\ st.configuration.shutdown_policy = "SEND_COMPLETE" =>
                Accepts(st, st.configuration.size)
        /\ st.configuration.shutdown_policy # "SEND_COMPLETE" =>
                \/ st.configuration.direction = "TX"
                \/ st.received >= st.configuration.size /\ "receive" \notin st.waiting
        /\ st.configuration.shutdown_policy = "WAIT_FOR_PEER" => st.is_receive_complete

\* and what its success means.
Succeeds(st, peer) ==
    stopped(st) /\ ~st.exit_requested =>
        /\ st.is_receive_complete /\ Accepts(st, st.sent)
        /\ st.received = peer.sent
        /\ st.configuration.direction # "TX" => st.received >= st.configuration.size

Known(st, in, out, peer) ==
    /\ Accepted(st.configuration) /\ st.configuration \in SessionConfiguration
    /\ Sender(st, out)
    /\ Receiver(st, in, peer)
    /\ ShutsByPolicy(st)
    /\ Succeeds(st, peer)

-----------------------------------------------------------------------------
(* What the program knows of the signals of its sessions.                  *)

\* A signal is in the queue, whose handler will report it.
HasSignal(st) == \E c \in Queued(st) : c.op = "signal" /\ c.failure = "success"

\* The program gets no other signal than SIGINT here; and a session waits for one until
\* it is closed or has reported it.
OnlyInterrupts(st) ==
    \A c \in Queued(st) : c.op = "signal" =>
        \/ c.failure = "operation_aborted"
        \/ c.failure = "success" /\ c.data = <<SIGINT>>

SignalsKnown(st) ==
    /\ OnlyInterrupts(st)
    /\ st.socket # "closed" =>
            ("signal" \in Outstanding(st) <=> st.failure # "user_interrupt")

SignalFailures == {"user_interrupt", "program_termination", "unknown_signal"}

\* A handler of `st' that leaves `r' reports nothing,
GoesOn(r, st) == ~r.exit_requested /\ (HasSignal(r) <=> HasSignal(st))

\* or reports the signal that was queued, or something else.
Fails(r, st) ==
    /\ r.exit_requested
    /\ r.failure # "success"
    /\ \/ r.failure = "user_interrupt" /\ HasSignal(st) /\ ~HasSignal(r)
       \/ r.failure \notin SignalFailures /\ (HasSignal(r) <=> HasSignal(st))

\* The first completion has left the queue, and the handler may have cancelled others.
Dequeues(r, st) ==
    /\ Queued(st) \ {Head(st.ready)} \subseteq Queued(r)
    /\ \A c \in Queued(r) \ (Queued(st) \ {Head(st.ready)}) :
            c.failure = "operation_aborted"

\* What dispatching leaves in the queue.
LEMMA DequeuesSignals ==
  ASSUME NEW st \in SessionState, st.ready # <<>>, QueueInv(st),
         NEW r, Dequeues(r, st)
  PROVE  /\ Head(st.ready) \in Queued(st)
         /\ OnlyInterrupts(st) => OnlyInterrupts(r)
         /\ \/ /\ Head(st.ready).op # "signal" \/ Head(st.ready).failure # "success"
               /\ HasSignal(r) <=> HasSignal(st)
            \/ /\ Head(st.ready).op = "signal" /\ Head(st.ready).failure = "success"
               /\ HasSignal(st) /\ ~HasSignal(r)
<1> DEFINE c == Head(st.ready)
<1>1. st.ready \in Seq(Completion)
  BY DEF SessionState
<1>2. c = st.ready[1] /\ 1 \in DOMAIN st.ready
  BY <1>1
<1>3. c \in Queued(st)
  BY <1>2 DEF Queued
<1>4. ASSUME NEW e \in Queued(st), e.op = c.op PROVE e = c
  <2>1. PICK i \in DOMAIN st.ready : e = st.ready[i]
    BY DEF Queued
  <2>2. i = 1
    BY <1>2, <1>4, <2>1 DEF QueueInv
  <2> QED BY <1>2, <2>1, <2>2
<1> HIDE DEF c
<1>5. /\ Queued(st) \ {c} \subseteq Queued(r)
      /\ \A e \in Queued(r) : e \in Queued(st) \ {c} \/ e.failure = "operation_aborted"
  BY DEF Dequeues, c
<1>6. OnlyInterrupts(st) => OnlyInterrupts(r)
  BY <1>5 DEF OnlyInterrupts
<1>7. CASE c.op # "signal" \/ c.failure # "success"
  <2>1. HasSignal(st) => HasSignal(r)
    BY <1>5, <1>7 DEF HasSignal
  <2>2. HasSignal(r) => HasSignal(st)
    BY <1>5 DEF HasSignal
  <2> QED BY <1>3, <1>6, <1>7, <2>1, <2>2 DEF c
<1>8. CASE c.op = "signal" /\ c.failure = "success"
  <2>1. HasSignal(st)
    BY <1>3, <1>8 DEF HasSignal
  <2>2. ~HasSignal(r)
    BY <1>4, <1>5, <1>8 DEF HasSignal
  <2> QED BY <1>3, <1>6, <1>8, <2>1, <2>2 DEF c
<1> QED BY <1>7, <1>8

\* What a handler has to do with its session for the program to know its signals: that
\* of another operation gives none up and reports no signal, and that of a signal
\* reports SIGINT, or nothing if it was cancelled.
LEMMA SignalsHandled ==
  ASSUME NEW st \in SessionState, st.ready # <<>>, QueueInv(st), SignalsKnown(st),
         NEW r, Dequeues(r, st),
         st.failure = "success",
         st.socket = "closed" => r.socket = "closed",
         LET c == Head(st.ready) IN
            \/ /\ c.op # "signal"
               /\ Outstanding(st) \ {c.op} \subseteq Outstanding(r)
               /\ r.failure \notin SignalFailures
               /\ r.exit_requested => r.failure # "success"
            \/ /\ c.op = "signal" /\ c.failure # "success"
               /\ r.socket = "closed" /\ ~r.exit_requested
            \/ /\ c.op = "signal" /\ c.failure = "success"
               /\ "signal" \notin Outstanding(r)
               /\ r.failure = "user_interrupt" /\ r.exit_requested
  PROVE  SignalsKnown(r) /\ (GoesOn(r, st) \/ Fails(r, st))
<1> DEFINE c == Head(st.ready)
<1>1. /\ OnlyInterrupts(r)
      /\ st.socket # "closed" => "signal" \in Outstanding(st)
  BY DequeuesSignals DEF SignalsKnown
<1>2. CASE /\ c.op # "signal"
           /\ Outstanding(st) \ {c.op} \subseteq Outstanding(r)
           /\ r.failure \notin SignalFailures
           /\ r.exit_requested => r.failure # "success"
  <2>1. HasSignal(r) <=> HasSignal(st)
    BY <1>2, DequeuesSignals
  <2>2. r.socket # "closed" => "signal" \in Outstanding(r)
    BY <1>1, <1>2
  <2> HIDE DEF c
  <2> QED BY <1>1, <1>2, <2>1, <2>2 DEF SignalsKnown, GoesOn, Fails, SignalFailures
<1>3. CASE /\ c.op = "signal" /\ c.failure # "success"
           /\ r.socket = "closed" /\ ~r.exit_requested
  <2>1. HasSignal(r) <=> HasSignal(st)
    BY <1>3, DequeuesSignals
  <2> QED BY <1>1, <1>3, <2>1 DEF SignalsKnown, GoesOn
<1>4. CASE /\ c.op = "signal" /\ c.failure = "success"
           /\ "signal" \notin Outstanding(r)
           /\ r.failure = "user_interrupt" /\ r.exit_requested
  <2>1. HasSignal(st) /\ ~HasSignal(r)
    BY <1>4, DequeuesSignals
  <2> QED BY <1>1, <1>4, <2>1 DEF SignalsKnown, Fails
<1> QED BY <1>2, <1>3, <1>4

\* The completion of another operation leaves the signals alone.
LEMMA SignalsCompleted ==
  ASSUME NEW st \in SessionState, SignalsKnown(st),
         NEW c, c.op \in st.waiting \ {"signal"},
         NEW r, r.waiting = st.waiting \ {c.op}, r.ready = Append(st.ready, c),
         r.failure = st.failure, st.socket = "closed" => r.socket = "closed"
  PROVE  SignalsKnown(r) /\ (HasSignal(r) <=> HasSignal(st))
<1>1. Queued(r) = Queued(st) \cup {c}
  BY QueuedAppend
<1>2. "signal" \in Outstanding(r) <=> "signal" \in Outstanding(st)
  BY <1>1 DEF Outstanding
<1>3. HasSignal(r) <=> HasSignal(st)
  BY <1>1 DEF HasSignal
<1>4. OnlyInterrupts(r) <=> OnlyInterrupts(st)
  BY <1>1 DEF OnlyInterrupts
<1> QED BY <1>2, <1>3, <1>4 DEF SignalsKnown

\* A signal is queued for a session that waits for it.
LEMMA SignalsQueued ==
  ASSUME NEW st \in SessionState, SignalsKnown(st), "signal" \in st.waiting
  PROVE  LET r == complete(st, done("signal", "success", <<SIGINT>>))
         IN  SignalsKnown(r) /\ HasSignal(r)
<1> DEFINE c == done("signal", "success", <<SIGINT>>)
           r == complete(st, c)
<1>1. c.op = "signal" /\ c.failure = "success" /\ c.data = <<SIGINT>>
  BY DEF done
<1> HIDE DEF c
<1>2. /\ r.ready = Append(st.ready, c) /\ r.waiting = st.waiting \ {"signal"}
      /\ r.failure = st.failure /\ r.socket = st.socket
  BY <1>1 DEF complete, SessionState
<1> HIDE DEF r
<1>3. Queued(r) = Queued(st) \cup {c}
  BY <1>2, QueuedAppend
<1>4. HasSignal(r) /\ (OnlyInterrupts(st) => OnlyInterrupts(r))
  BY <1>1, <1>3 DEF HasSignal, OnlyInterrupts
<1>5. "signal" \in Outstanding(r) /\ "signal" \in Outstanding(st)
  BY <1>1, <1>3 DEF Outstanding
<1> QED BY <1>2, <1>4, <1>5 DEF SignalsKnown, r, c

\* Nothing but the flag changes when the exit is requested elsewhere.
LEMMA SignalsSame ==
  ASSUME NEW st, NEW r, r.waiting = st.waiting, r.ready = st.ready,
         r.failure = st.failure, r.socket = st.socket
  PROVE  (SignalsKnown(r) <=> SignalsKnown(st)) /\ (HasSignal(r) <=> HasSignal(st))
<1>1. Queued(r) = Queued(st)
  BY DEF Queued
<1>2. Outstanding(r) = Outstanding(st)
  BY <1>1 DEF Outstanding
<1> QED BY <1>1, <1>2 DEF SignalsKnown, OnlyInterrupts, HasSignal

\* A session waits for a signal, or has one in its queue, until it is closed or has
\* reported one.
LEMMA SignalAwaited ==
  ASSUME NEW st, SignalsKnown(st),
         st.socket = "closed" => st.waiting = {},
         \A c \in Queued(st) : c.failure = "operation_aborted" => st.socket = "closed"
  PROVE  /\ "signal" \in st.waiting =>
                st.socket # "closed" /\ st.failure # "user_interrupt"
         /\ st.socket # "closed" /\ st.failure # "user_interrupt" =>
                "signal" \in st.waiting \/ HasSignal(st)
<1>1. "signal" \in st.waiting => "signal" \in Outstanding(st)
  BY DEF Outstanding
<1>2. ASSUME st.socket # "closed", "signal" \in Outstanding(st) \ st.waiting
      PROVE  HasSignal(st)
  <2>1. PICK c \in Queued(st) : c.op = "signal"
    BY <1>2 DEF Outstanding
  <2>2. c.failure = "success"
    BY <1>2, <2>1 DEF SignalsKnown, OnlyInterrupts
  <2> QED BY <2>1, <2>2 DEF HasSignal
<1> QED BY <1>1, <1>2 DEF SignalsKnown

-----------------------------------------------------------------------------
(* The bytes that a session sends.                                         *)

\* Quotient and remainder are unique.
LEMMA DivisionUnique ==
  ASSUME NEW b \in Nat \ {0}, NEW q \in Int, NEW p \in Int,
         NEW r \in 0 .. b - 1, NEW t \in 0 .. b - 1, b * q + r = b * p + t
  PROVE  r = t
<1>1. b * (q - p) = t - r
  OBVIOUS
<1>2. CASE q > p
  <2>1. b * (q - p) >= b * 1
    BY <1>2
  <2> QED BY <1>1, <2>1
<1>3. CASE q < p
  <2>1. b * (p - q) >= b * 1
    BY <1>3
  <2>2. b * (p - q) = r - t
    OBVIOUS
  <2> QED BY <2>1, <2>2
<1>4. CASE q = p
  BY <1>1, <1>4
<1> QED BY <1>2, <1>3, <1>4

\* What quotient and remainder are.
LEMMA Division ==
  ASSUME NEW b \in Nat \ {0}, NEW a \in Int
  PROVE  a \div b \in Int /\ a % b \in 0 .. b - 1 /\ a = b * (a \div b) + (a % b)
<1>1. a \div b \in Int
  OBVIOUS
<1>2. a % b \in 0 .. b - 1
  OBVIOUS
<1>3. a = b * (a \div b) + (a % b)
  OBVIOUS
<1> QED BY <1>1, <1>2, <1>3

\* A shift may be taken before or after the remainder.
LEMMA ShiftedRemainder ==
  ASSUME NEW b \in Nat \ {0}, NEW a \in Int, NEW k \in Int
  PROVE  ((a % b) + k) % b = (a + k) % b
<1> DEFINE q == a \div b
           r == a % b
           p == (r + k) \div b
           t == (r + k) % b
           s == (a + k) \div b
           u == (a + k) % b
<1>1. q \in Int /\ r \in 0 .. b - 1 /\ a = b * q + r
  BY Division
<1>2. p \in Int /\ t \in 0 .. b - 1 /\ r + k = b * p + t
  <2>1. r + k \in Int
    BY <1>1
  <2> QED BY <2>1, Division
<1>3. s \in Int /\ u \in 0 .. b - 1 /\ a + k = b * s + u
  <2>1. a + k \in Int
    OBVIOUS
  <2> QED BY <2>1, Division
<1> HIDE DEF q, r, p, t, s, u
<1>4. b * s + u = b * (q + p) + t
  <2>1. a + k = b * q + (b * p + t)
    BY <1>1, <1>2
  <2>2. b * (q + p) = b * q + b * p
    BY <1>1, <1>2
  <2> QED BY <1>1, <1>2, <1>3, <2>1, <2>2
<1>5. u = t
  <2>1. q + p \in Int
    BY <1>1, <1>2
  <2> QED BY <1>2, <1>3, <1>4, <2>1, DivisionUnique
<1> QED BY <1>5 DEF t, u, r

\* What a send hands to the socket is the pattern from the last byte sent on,
\* although the offset in send_buffer_ starts anew with every send.
LEMMA BytesToSendPattern ==
  ASSUME NEW position \in Nat, NEW n \in Nat,
         n <= BUFFER_SIZE - (position % BYTE_VALUES)
  PROVE  LET data == BytesToSend(position % BYTE_VALUES, n)
         IN  /\ Len(data) = n /\ DOMAIN data = 1 .. n
             /\ \A i \in 1 .. n : data[i] = Pattern(position + i - 1)
<1> DEFINE offset == position % BYTE_VALUES
           data == BytesToSend(offset, n)
<1>1. BYTE_VALUES \in Nat \ {0} /\ BUFFER_SIZE \in Nat
  BY BufferAssumption
<1>2. offset \in Nat
  BY <1>1
<1> HIDE DEF offset
<1>3. data = [i \in 1 .. n |-> SendBuffer[offset + i - 1]]
  BY DEF BytesToSend
<1>4. Len(data) = n /\ DOMAIN data = 1 .. n
  BY <1>3
<1>5. ASSUME NEW i \in 1 .. n PROVE data[i] = Pattern(position + i - 1)
  <2>1. i - 1 \in Int /\ offset + i - 1 \in 0 .. BUFFER_SIZE - 1
    BY <1>1, <1>2 DEF offset
  <2>2. data[i] = (offset + i - 1) % BYTE_VALUES
    BY <1>3, <2>1 DEF SendBuffer
  <2>3. offset + i - 1 = offset + (i - 1) /\ position + i - 1 = position + (i - 1)
    BY <1>2, <2>1
  <2>4. (offset + (i - 1)) % BYTE_VALUES = (position + (i - 1)) % BYTE_VALUES
    <3> DEFINE k == i - 1
    <3>1. k \in Int /\ position \in Int
      BY <2>1
    <3> HIDE DEF k
    <3>2. ((position % BYTE_VALUES) + k) % BYTE_VALUES = (position + k) % BYTE_VALUES
      BY <1>1, <3>1, ShiftedRemainder
    <3> QED BY <3>2 DEF offset, k
  <2> QED BY <2>2, <2>3, <2>4 DEF Pattern
<1> HIDE DEF data
<1> QED BY <1>4, <1>5 DEF data, offset

-----------------------------------------------------------------------------
(* Where a session of datagrams is.                                        *)

\* Bytes that are a number of slices,
Whole(bytes, slice) == \E k \in Nat : bytes = k * slice

\* and bytes that do not cross the bound of a slice.
Unsplit(position, bytes, slice) ==
    \A k \in Nat : k * slice <= position \/ position + bytes <= k * slice

\* The end of a slice that starts with a slice.
LEMMA NextSlice ==
  ASSUME NEW position \in Nat, NEW slice \in Nat, Whole(position, slice)
  PROVE  Whole(position + slice, slice) /\ Unsplit(position, slice, slice)
<1>1. PICK k \in Nat : position = k * slice
  BY DEF Whole
<1>2. position + slice = (k + 1) * slice /\ k + 1 \in Nat
  BY <1>1
<1>3. Whole(position + slice, slice)
  BY <1>2 DEF Whole
<1>4. ASSUME NEW n \in Nat, ~(n * slice <= position)
      PROVE  position + slice <= n * slice
  <2>1. n >= k + 1
    <3> SUFFICES ASSUME n <= k PROVE FALSE
      OBVIOUS
    <3>1. (k - n) * slice >= 0 /\ k * slice = (k - n) * slice + n * slice
      OBVIOUS
    <3> QED BY <1>1, <1>4, <3>1
  <2>2. (n - (k + 1)) * slice >= 0 /\ n * slice = (n - (k + 1)) * slice + (k + 1) * slice
    BY <2>1
  <2> QED BY <1>2, <2>2
<1> QED BY <1>3, <1>4 DEF Unsplit

\* The bytes of the one completion of an operation that waits for its handler,
Held(st, op) ==
    IF \E c \in Queued(st) : c.op = op
    THEN Len((CHOOSE c \in Queued(st) : c.op = op).data) ELSE 0

\* and where a session is in the two directions, when these are counted.
Reached(st) == st.received + Held(st, "receive")
Passed(st) == st.sent + Held(st, "send")

\* An operation has one completion,
LEMMA HeldOne ==
  ASSUME NEW st, QueueInv(st), NEW c \in Queued(st)
  PROVE  Held(st, c.op) = Len(c.data)
<1> DEFINE e == CHOOSE e \in Queued(st) : e.op = c.op
<1>1. e \in Queued(st) /\ e.op = c.op
  OBVIOUS
<1> HIDE DEF e
<1>2. PICK i \in DOMAIN st.ready : c = st.ready[i]
  BY DEF Queued
<1>3. PICK j \in DOMAIN st.ready : e = st.ready[j]
  BY <1>1 DEF Queued
<1>4. e = c
  BY <1>1, <1>2, <1>3 DEF QueueInv
<1> QED BY <1>4 DEF Held, e

\* or none.
LEMMA HeldNone ==
  ASSUME NEW st, NEW op, \A c \in Queued(st) : c.op # op
  PROVE  Held(st, op) = 0
BY DEF Held

\* Sessions with the same completions of an operation.
LEMMA HeldSame ==
  ASSUME NEW a, NEW b, QueueInv(a), QueueInv(b), NEW op,
         \A e : e.op = op => (e \in Queued(a) <=> e \in Queued(b))
  PROVE  Held(a, op) = Held(b, op)
<1>1. CASE \E e \in Queued(a) : e.op = op
  <2>1. PICK e \in Queued(a) : e.op = op
    BY <1>1
  <2>2. e \in Queued(b)
    BY <2>1
  <2> QED BY <2>1, <2>2, HeldOne
<1>2. CASE \A e \in Queued(a) : e.op # op
  BY <1>2, HeldNone
<1> QED BY <1>1, <1>2

\* A number of bytes.
LEMMA HeldType ==
  ASSUME NEW st \in SessionState, QueueInv(st), NEW op
  PROVE  Held(st, op) \in Nat
<1>1. CASE \E e \in Queued(st) : e.op = op
  <2>1. PICK e \in Queued(st) : e.op = op
    BY <1>1
  <2>2. e \in Completion
    BY OutstandingType
  <2>3. e.data \in Seq(Nat)
    BY <2>2 DEF Completion
  <2> QED BY <2>1, <2>3, HeldOne
<1>2. CASE \A e \in Queued(st) : e.op # op
  BY <1>2, HeldNone
<1> QED BY <1>1, <1>2

\* Bytes of the pattern that start at a position,
Run(data, position) == \A i \in DOMAIN data : data[i] = Pattern(position + i - 1)

\* and datagrams with such bytes, and at least one.
Runs(datagrams) ==
    \A i \in DOMAIN datagrams :
        datagrams[i] # <<>> /\ \E position \in Nat : Run(datagrams[i], position)

\* What a step of a session does to the datagrams that the socket holds for it (`in'),
\* and to those that it has sent (`out'): nothing;
Stays(st, in, out, strange, r, in_after, out_after, strange_after) ==
    /\ Reached(r) = Reached(st) /\ Passed(r) = Passed(st)
    /\ in_after = in /\ out_after = out /\ strange_after = strange

\* it takes one, all of it if it is not longer than the buffer and does not cross the
\* bounds of slices of which its own are a multiple;
Takes(st, in, out, strange, r, in_after, out_after, strange_after) ==
    /\ in # <<>> /\ in_after = Tail(in)
    /\ Passed(r) = Passed(st) /\ out_after = out
    /\ Reached(r) - Reached(st) \in 0 .. Len(Head(in))
    /\ Run(Head(in), Reached(st)) /\ "wrong" \in strange_after => "wrong" \in strange
    /\ \A slice \in Nat \ {0} :
            (/\ st.configuration.receive_slice % slice = 0
             /\ Len(Head(in)) <= BUFFER_SIZE
             /\ Unsplit(Reached(st), Len(Head(in)), slice)) =>
                    Reached(r) = Reached(st) + Len(Head(in))

\* or it sends one, within a slice of its own.
Puts(st, in, out, strange, r, in_after, out_after, strange_after, datagram) ==
    /\ datagram \in Seq(Byte)
    /\ Len(datagram) <= BUFFER_SIZE
    /\ Run(datagram, Passed(st))
    /\ Unsplit(Passed(st), Len(datagram), st.configuration.send_slice)
    /\ Passed(r) = Passed(st) + Len(datagram)
    /\ out_after = Append(out, datagram)
    /\ Reached(r) = Reached(st) /\ in_after = in /\ strange_after = strange

\* What it sends is only empty if it may be.
Moves(st, in, out, strange, r, in_after, out_after, strange_after, empty) ==
    /\ r.configuration = st.configuration
    /\ \/ Stays(st, in, out, strange, r, in_after, out_after, strange_after)
       \/ Takes(st, in, out, strange, r, in_after, out_after, strange_after)
       \/ \E datagram :
            /\ Puts(st, in, out, strange, r, in_after, out_after, strange_after, datagram)
            /\ datagram = <<>> => empty
=============================================================================
