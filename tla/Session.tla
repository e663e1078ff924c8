------------------------------- MODULE Session -------------------------------
(***************************************************************************)
(* The part of a session that src/Session.cpp shares between TCP and UDP,  *)
(* and the asio machinery it runs on.                                      *)
(*                                                                         *)
(* A session is one record.  The methods of the C++ class are operators    *)
(* from such a record to the next one and keep their C++ names: a handler  *)
(* is the composition of the methods it calls, in the order of the calls,  *)
(* and runs in one step because one thread polls the io_service of a       *)
(* session (Application.cpp, Thread::run).                                 *)
(*                                                                         *)
(* An asynchronous operation is `waiting' from the call that initiates it  *)
(* until it completes; its completion then queues in `ready' until the     *)
(* thread dispatches the handler.  Cancelling reaches a waiting operation  *)
(* only: a completion that is already queued keeps its result.             *)
(***************************************************************************)
EXTENDS Integers, Sequences, Error

CONSTANTS
    BYTE_VALUES,    \* number of values of a uint8_t, 256 in the program
    BUFFER_SIZE     \* Session::BUFFER_SIZE, bytes in each of the two buffers

ASSUME BufferAssumption ==
    /\ BYTE_VALUES \in Nat \ {0}
    /\ BUFFER_SIZE \in Nat
    /\ BUFFER_SIZE >= BYTE_VALUES

Verify == {"NONE", "FIRST", "ALL"}
Direction == {"RX", "TX", "BOTH"}
ShutdownPolicy == {"WAIT_FOR_PEER", "SEND_COMPLETE", "RECEIVE_COMPLETE"}

\* What a session reads of its configuration.  Of the two bandwidths it only
\* uses what a throttle grants per slice, BandwidthThrottle::slice_bytes_count_,
\* which is 0 when the bandwidth is below the sampling frequency.
SessionConfiguration ==
    [verify : Verify, direction : Direction, shutdown_policy : ShutdownPolicy,
     size : Nat, send_slice : Nat, receive_slice : Nat]

\* The configurations that the command line accepts.
Accepted(c) ==
    /\ c.size # 0
    /\ ~(c.direction = "TX" /\ c.shutdown_policy = "RECEIVE_COMPLETE")
    /\ ~(c.direction = "RX" /\ c.shutdown_policy = "SEND_COMPLETE")

Byte == 0 .. BYTE_VALUES - 1

Least(a, b) == IF a < b THEN a ELSE b     \* std::min

SocketOps == {"connect", "receive", "eof", "send"}
ThrottleOps == {"receive_throttle", "send_throttle"}
Operation == SocketOps \cup ThrottleOps \cup {"start", "timeout", "signal"}

\* The HandlerMemory in which each operation allocates its handler.
HandlerMemory == {"receive", "send"} \cup ThrottleOps
\* Faulty variant: one memory serves both directions.
MemoryOf_shared == [op \in {"receive", "eof", "send"} \cup ThrottleOps |->
                       IF op \in {"eof", "send"} THEN "receive" ELSE op]

MemoryOf == [op \in {"receive", "eof", "send"} \cup ThrottleOps |->
                IF op = "eof" THEN "receive" ELSE op]

SIGHUP == 1
SIGINT == 2
SIGTERM == 15
Signal == {SIGHUP, SIGINT, SIGTERM}

\* A completed operation with the arguments of its handler: the error code and
\* the bytes transferred, or the number of the signal.
Completion == [op : Operation, failure : ErrorCode, data : Seq(Nat)]

SessionState ==
    [configuration : SessionConfiguration,
     socket : {"connecting", "unconnected", "connected", "shutdown", "closed"},
     waiting : SUBSET Operation,
     ready : Seq(Completion),
     memory : [HandlerMemory -> Int],
     receive_slice : Nat,       \* slice_remaining_size held by the receive
     send_slice : Nat,          \* and by the send handler
     received : Nat,
     sent : Nat,
     is_receive_complete : BOOLEAN,
     is_send_complete : BOOLEAN,
     failure : ErrorCode,
     exit_requested : BOOLEAN]  \* is_exit_requested() in this process

-----------------------------------------------------------------------------
(* asio: initiating, completing, cancelling and dispatching operations.    *)

done(op, failure, data) == [op |-> op, failure |-> failure, data |-> data]

\* HandlerMemory::allocate and deallocate, of the operations whose handler is a
\* CustomAllocHandler.
uses(op, m) == op \in DOMAIN MemoryOf /\ MemoryOf[op] = m

allocate(memory, op) ==
    [m \in HandlerMemory |-> IF uses(op, m) THEN memory[m] + 1 ELSE memory[m]]

deallocate(memory, op) ==
    [m \in HandlerMemory |-> IF uses(op, m) THEN memory[m] - 1 ELSE memory[m]]

begin(st, op) ==
    [st EXCEPT !.waiting = @ \cup {op}, !.memory = allocate(@, op)]

complete(st, c) ==
    [st EXCEPT !.waiting = @ \ {c.op}, !.ready = Append(@, c)]

cancel(st, op) ==
    IF op \in st.waiting
    THEN complete(st, done(op, "operation_aborted", <<>>))
    ELSE st

\* Dequeue the next handler; its memory is free again before it is called.
dispatch(st) ==
    [st EXCEPT !.ready = Tail(@), !.memory = deallocate(@, Head(st.ready).op)]

\* io_service::post: the handler needs nothing to complete.
post(st, c) == [st EXCEPT !.ready = Append(@, c)]

\* Without outstanding operation poll_one() stops the io_service.
stopped(st) == st.waiting = {} /\ st.ready = <<>>

-----------------------------------------------------------------------------
(* The methods of Session that neither subclass overrides.                 *)

abort(st, failure) ==
    [st EXCEPT !.exit_requested = TRUE, !.failure = failure]

on_signal(st, c) ==
    IF c.failure # "success" THEN st
    ELSE abort(st, CASE c.data[1] = SIGINT  -> "user_interrupt"
                     [] c.data[1] = SIGTERM -> "program_termination"
                     [] OTHER               -> "unknown_signal")

\* Faulty variant: the timer is never started.
start_timer_never(st) == st

start_timer(st) == begin(st, "timeout")

on_timeout(st, c) ==
    IF c.failure # "success" THEN st ELSE abort(st, "test_timeout")

\* The byte at a position of the stream that a session sends, and expects.
Pattern(position) == position % BYTE_VALUES

\* The bytes of `data' that verify() compares with the pattern.
Checked(st, data) ==
    CASE st.configuration.verify = "NONE"  -> {}
      [] st.configuration.verify = "FIRST" -> {1}
      [] st.configuration.verify = "ALL"   -> 1 .. Len(data)

verify(st, data) ==
    IF \A i \in Checked(st, data) : data[i] = Pattern(st.received + i - 1)
    THEN st
    ELSE abort(st, "data_mismatch")

\* The bytes of one async_send: send_buffer_ from `offset' on, whose byte i
\* Session::initialize sets to uint8_t(i).
SendBuffer == [i \in 0 .. BUFFER_SIZE - 1 |-> i % BYTE_VALUES]

BytesToSend(offset, count) == [i \in 1 .. count |-> SendBuffer[offset + i - 1]]

received(st, data) == [st EXCEPT !.received = @ + Len(data)]

sent(st, data) == [st EXCEPT !.sent = @ + Len(data)]

-----------------------------------------------------------------------------
(* Finishing: the socket of either protocol is closed by finish().         *)

\* Closing cancels what is waiting on the socket.
close(st) ==
    [cancel(cancel(cancel(st, "receive"), "eof"), "send")
        EXCEPT !.socket = "closed"]

\* Faulty variant: the timer keeps running.
on_finish_with_timer(st) == close(cancel(st, "signal"))

on_finish(st) == close(cancel(cancel(st, "signal"), "timeout"))

on_receive_complete(st) ==
    LET done_receiving == [st EXCEPT !.is_receive_complete = TRUE]
    IN  IF st.is_send_complete
        THEN on_finish(done_receiving) ELSE done_receiving

\* Faulty variant: the end of sending ends the session (fixed in version 1.1.5).
on_send_complete_unguarded(st) ==
    on_finish([st EXCEPT !.is_send_complete = TRUE])

on_send_complete(st) ==
    LET done_sending == [st EXCEPT !.is_send_complete = TRUE]
    IN  IF st.is_receive_complete
        THEN on_finish(done_sending) ELSE done_sending

-----------------------------------------------------------------------------
(* What is outstanding, and what every session keeps of it.                *)

Queued(st) == {st.ready[i] : i \in DOMAIN st.ready}
Outstanding(st) == st.waiting \cup {c.op : c \in Queued(st)}

\* An operation is outstanding once.
QueueInv(st) ==
    /\ \A i, j \in DOMAIN st.ready : st.ready[i].op = st.ready[j].op => i = j
    /\ \A i \in DOMAIN st.ready : st.ready[i].op \notin st.waiting

\* A HandlerMemory is in use exactly while its operation is outstanding.
MemoryInv(st) ==
    \A m \in HandlerMemory :
        st.memory[m] = IF \E op \in Outstanding(st) : uses(op, m) THEN 1 ELSE 0
=============================================================================
