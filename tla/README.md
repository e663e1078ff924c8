# Verification of enyx-net-tester

`enyx-net-tester` opens TCP or UDP *sessions* with a peer, usually another
tester, sends a pattern of bytes at a limited bandwidth, verifies the pattern it
receives, and ends with a status that says whether the test succeeded.  The
modules here model its sessions, its throttle, its threads and its configuration
in TLA+, check them with TLC, and prove the most important of the invariants
with TLAPS.  All paths below are relative to `src/src/` of the repository unless
they start with `doc/` or `tests/`.

## The system

| Component | State | Operations | Interacts with |
|---|---|---|---|
| Session (`Session.cpp`) | byte counts, two completion flags, failure, timer, signal set, two throttles, two 128 KiB buffers | `initialize`, `start_transfer`, `start_timer`, `on_receive`, `verify`, `on_send`, `on_*_complete`, `on_finish`, `abort`, `finalize` | throttles, socket, exit flag |
| TCP session (`TcpSession.cpp`) | two handler memories | `async_receive`, `finish_receive`, `on_eof`, `async_send`, `finish_send` | Session (virtual calls), TCP socket |
| UDP session (`UdpSession.cpp`) | two handler memories, a random generator | `async_receive`, `finish_receive`, `async_send`, `finish_send`, `get_max_datagram_size` | Session, UDP socket |
| Sockets (`TcpSocket`, `UdpSocket`, `Socket`) | an asio socket | `open`, `async_receive`, `async_send`, `shutdown_send`, `close` | asio |
| Handler memory (`HandlerAllocator.hpp`) | storage for one handler | `allocate`, `deallocate` | every asynchronous operation of a transfer |
| Throttle (`BandwidthThrottle`) | bytes and duration of a slice, start of the next one | `delay`, `reset` | steady clock, both protocols |
| Application (`Application.cpp`) | sessions, threads, one `io_service` per thread | `create_session`, `run`, `Thread::run` (poll loop), `join` | sessions, exit flag, exit status |
| Signals (`Signal.cpp`) | the exit flag, shared by the threads | `request_exit`, `is_exit_requested`, `on_signal` | everything |
| Command line and session file (`Executable.cpp`, `SessionConfiguration.cpp`) | one configuration object, parsed into line after line | `parse`, `fill_configuration` | Application |
| Sizes and ranges (`Size`, `Range`, `Ranges`, `Cpu.hpp`) | none | reading and printing, `as_sequence` | command line |
| Statistics, errors, CPU pinning, `main` | counters and dates / codes / none / exit status | printing, `make_error_code`, `pin_current_thread_to_cpu_core` | Session, Application |

A session runs on one thread.  Its operations are asynchronous: an operation is
initiated, completes in the reactor, and its handler is dispatched later by
`poll_one()`, which makes each handler atomic with respect to its session and
leaves *every order of completions* open.  Threads share nothing but the exit
flag.  What is hard here, and where PROJECT.json's hazards come from:

* two directions and a timer, a signal set and (TCP) the wait for the end of the
  stream are outstanding at once, and which of them completes first decides;
* completions queue: cancelling does not take back a completion that has
  succeeded already, and handlers run that were overtaken by events;
* the three shutdown policies of the two ends of a connection meet, also where
  they do not fit;
* sizes are cut by slices, by the ends of the buffers, by partial reads and writes,
  and (UDP) by datagrams that may be truncated, lost, repeated or reordered;
* an abort sets a flag that other threads read between two handlers;
* the schedule of the throttle meets late handlers, late connections, a slower peer,
  and integer division; the timer of an end knows neither its peer nor its throttle, and
  goes by another clock than the throttle does.

## Modules

| Module | What it is |
|---|---|
| `Error` | the codes of `Error.hpp` and of the system |
| `Session` | a session as a record, asio's machinery (waiting, ready, memory), and the methods that both protocols share |
| `TcpSession` | a TCP session against any peer |
| `TcpPair` | two TCP sessions at the ends of a connection; instantiates `TcpSession` twice |
| `UdpSession` | a UDP session against any datagrams |
| `UdpPair` | two UDP sessions over a network that is ideal, lossy and reordering, or repeating; instantiates `UdpSession` twice |
| `SessionOutcome` | the abstract session: what a session promises to the application |
| `Application` | main thread, polling threads, exit flag, signals, exit status; sees sessions through the operators of `SessionOutcome` |
| `BandwidthThrottle` | a throttle as a record, with its arithmetic |
| `TimedPair` | a sender and a receiver: their throttles against a steady clock, their timers and statistics against the clock of the wall, which is set |
| `Process` | a TCP and a UDP session in one process, on one thread or two; instantiates `TcpSession`, `UdpSession` and `Application` |
| `Configuration` | from the command line and the session file to the configurations, the cores and the sockets |
| `SessionProofs` | lemmas about the methods of `Session` and about asio's operations, for either protocol |
| `TcpSessionProofs`, `UdpSessionProofs`, `TcpPairProofs`, `UdpPairProofs`, `TimedPairProofs`, `ApplicationProofs` | the theorems, each about the module of its name |
| `ProcessProofs` | the theorems about `Process`, and about `Configuration`, which makes its sessions of a file |
| `MC*` | instances for TLC, each with its `.cfg` files |

### How the modules correspond to the code

**Sessions.**  A session is one record `SessionState`, and a C++ method is an
operator of the same name from a record to the next.  A handler is then the
composition of the methods it calls, in the order of the calls, and one action:
`HandleConnect` is `start_transfer(dispatch(session))`, which in turn is
`start_sending(start_receiving(st))`, and so on to the last `cancel`.  In this way
an action is the whole handler, `on_finish` and its cancellations included.  asio
is three fields: `waiting` (operations that were initiated), `ready` (the queue of
completions with their arguments), `memory` (how often each `HandlerMemory` is in
use).  `begin`, `complete`, `cancel`, `dispatch` and `post` are all that touches
them.  `cancel` turns a waiting operation into a queued completion with
`operation_aborted`; it does not find a completion that is queued already.  Once
the exit is requested nothing is dispatched any more, as in `Thread::run`.

The bytes are real, modulo `BYTE_VALUES`: `SendBuffer` is filled as in
`Session::initialize`, `verify` compares with the pattern at the count of received
bytes.  The slice that a handler captures (`slice_remaining_size`) is a field of the
session, since only one receive and one send are ever outstanding (which is
itself proved, `ExclusiveHandlerMemory`).

**TCP.**  In `TcpSession` the peer sends right or wrong bytes, too many or too few,
shuts down, resets or stays silent.  The connection may be there before the handlers
run or fail, and since `TcpSocket` ignores that failure the transfer starts all the
same.  In `TcpPair` the peer is the other tester, which may have been told another
size: the actions of two instances are joined by what one sends and the other receives.
A pair of ends that is "calm" runs without interruption, for `BothSucceed`.

**UDP.**  In `UdpSession` any datagram of `Datagrams` may arrive; in `UdpPair` only
those that the other end has sent.  A receive gives a datagram the room that is left
in its slice and cuts off the rest.  The ends may have been told different sizes.  One size of `DatagramSizes` is chosen for each
datagram, as the random generator does; it may be 0.  The bytes of the receive buffer
matter to one case only: `--verify first` looks at the first of them also after an empty
datagram, which is why `head` is a variable.  `strange` remembers what verification has
to find.

**Outcome.**  `SessionOutcome` is what `Application` knows of a session: it finishes
once, or fails once and requests the exit; after it has finished only its timer or a
signal that was queued already can make it fail; nothing changes after the exit was
requested.  `KeepsPromise` in `TcpSession` and in `UdpSession` is the refinement, with
`OutcomeOf(session)` as the mapping.  `Application` uses the operators `advances` and
`aborts` of the same module for its handlers, so what is checked of the application
rests on what the sessions are checked to do.

**Process.**  `Process` closes that loop: its threads dispatch the handlers of a real
`TcpSession` and a real `UdpSession`, and `ImplementsApplication` is the refinement to
`Application`, under the outcomes of the sessions created so far.  The exit flag is the
process's; what a session calls `exit_requested` is there that its thread has left the
loop, or that it has aborted.

**Threads.**  A thread is pinned before it polls.  A core that the host lacks
(`configuration.missing`) makes it throw, which nothing catches; so does a thread that
cannot be created, if others run.  Both end the process amidst the sessions.

**Throttle.**  `TcpSession` and `UdpSession` know no time: a throttle expires at any
moment.  How fast a session sends is the subject of `TimedPair`, which has the
clock, the arithmetic of slices and the estimated duration, and only counts bytes.
It has both ends of a connection: the listener starts first and its timer runs
while it waits, the sender may come at any of `Launches`, and each end has its own two
bandwidths, its sampling frequency and its margin.

There are two clocks.  Throttles go by the steady one, `now`.  Timers and dates go by that
of the wall, `universal_time`: `timeout_timer_` is a `boost::asio::deadline_timer`
(`Session.hpp:125`), whose deadline is the time of the wall at its start plus the
estimated duration.  Somebody may set that clock once, in any test (`SetsClock`), forward
or back, and a timer then expires early or late (`Expires`).  Whether a timer that
a clock set forward has passed notices it at once is the reactor's affair: it may expire from then on.
History, which the code does not keep, are `slices`, how many slices an end has begun since its
start; `launched`, `start` and `finish`, the moments of its dates by the steady clock;
`ahead`, how far the clock of the wall was ahead when the timer was started; and `expired`, whether
that clock has passed the deadline.
`compute_bandwidth` is `Statistics.cpp`.

**Configuration.**  The text of an option is a token (`8KiB` is
`[count |-> 8, power |-> 1, i |-> TRUE, unit |-> "B"]`), since the regular
expressions of `parse_size` and the words of the readers decide which tokens there
are.  The count of a size ends at the highest `long long` (`atoll`), and its product with the
unit wraps around.  Every line is parsed into the same object `c`, which the line before left moved
from.  A bound of a range without text leaves a variable uninitialised: it is any core.
An endpoint is the sequence of its parts.  `resolve` makes addresses of them, as the
resolver does: `HostOf` and `PortOf` are any functions from hosts and from the services of
a protocol to the address and the port that is found first, so that an address has several
names, the wildcard among them.  `bound` says which of them a client and a listener bind,
and `OpensSocket` opens the sockets in the order of the lines.  A port 0, as in
`127.0.0.1:0:127.0.0.1:1234` of `tests/TestNetTester.cpp:71`, is one that the system chooses of
`EPHEMERAL`.  Over TCP the system refuses an address that overlaps one that is listened on,
in this program or in another (`Taken`), and it may refuse any for reasons of its own.
`Reaches` is where a client then gets to.  Over TCP it asks when it is opened
(`async_connect` calls `connect` at once), so that its listener has to be in the file before it.

## What is checked

| Run | Question | Properties |
|---|---|---|
| `tcp_transfer` | Is the control of a TCP session consistent against any peer and any interruption? | `ControlInv`, `HandlerMemoryExclusive`, `NeverAbortsItself`, `FinishedLeavesNothing`, `SuccessMeansTransferred`, `FinishedReceivedAll`, `FailureIsFinal`, `KeepsPromise` |
| `tcp_data` | Is the pattern unbroken however it is split, is verification exact, and does the session end whatever its peer does? | `VerificationExact`, `SendsPattern`, `EventuallyEnds` |
| `pair_all` | What do the two ends of a connection know of each other, with all policies and with different sizes; and which of them succeed undisturbed? | `StreamsAgree`, `SuccessConfirmed`, `FailuresExplained`, `BothWaitForPeer`, `BothSucceed` |
| `udp_session` | Is the control of a UDP session consistent, verification exact, and does it end? | `ControlInv`, `VerificationExact`, `KeepsPromise`, `EventuallyEnds` |
| `udp_network` | What do loss, repetition, reordering and truncation do to two testers? | `FirstSuffices`, `NothingCutOff`, `SuccessIsExact`, `BothSucceed` |
| `throttle_truncated` | Does an unobstructed transfer complete in time? **It does not.** | `CompletesInTime` |
| `timed_pair` | Do the throttles keep their schedules, does lateness add up, which end governs the speed, what is a timeout due to, and what does the report say? | `ScheduleInv`, `SlowerEndGoverns`, `NoDrift`, `TimeoutExplained`, `StatisticsFaithful` |
| `app_threads` | Failures, signals, missing cores and the end of the program over several threads | `OneFailurePerThread`, `StatusOfSessions`, `ProgramEnds` |
| `app_early` | Does status 0 mean that the test completed? **It does not.** | `ZeroMeansCompleted` |
| `process` | Do real sessions in one process do what `Application` says of outcomes? | `ImplementsApplication`, `ZeroMeansTransferred`, `AlwaysEnds` |
| `configuration_file` | Is each session what its own line says, fit to run, and does it meet its peer? | `LinesIndependent`, `SessionsAccepted`, `EndpointsMeet`, `CoresListed` |

### Three disagreements

* `throttle_truncated`: `to_slice_bytes_count` rounds down, while the time that a test
  is allowed is computed from the bandwidth itself.  With the default 1000 Hz a
  bandwidth of 1500 B/s is sent as 1000 B/s, and a transfer that nothing obstructs
  fails with `test_timeout`.  `TimeoutExplained` shows that the timer is enough when
  nothing is rounded, the other end is not the slower one and comes in time, and nobody
  sets the clock of the wall forward.
* The same run: the session has the default margin, which the help calls "infinity" and
  which `estimate_test_duration` makes a tenth.  It times out.
* `app_early`: a signal before the first session exists makes the program return 0 with
  nothing transferred.  The last part of `StatusOfSessions` shows that a request for exit
  is the only way to it.

### What the runs show besides

* `WAIT_FOR_PEER` shuts down in `on_eof`, after the peer has shut down, whether or not
  the session has sent everything; `RECEIVE_COMPLETE` does so after its last byte
  received.  A session that sends and receives with one of them can fail with
  `broken_pipe`, and its peer with `unexpected_eof`.  `FailuresExplained` says that
  there is no other reason but different sizes, and `Fits` of `BothSucceed` names the pairs
  of policies without that risk.
* Bytes beyond the size of a receiver pass when they come with its last ones, and fail it
  with `unexpected_data` when they come later: with a sender that was told more, success
  depends on how the stream is cut (`StreamsAgree`, `SuccessConfirmed`).
* Two ends with `WAIT_FOR_PEER` wait for each other until a timer expires
  (`BothWaitForPeer`).
* A session that finished may still fail: its timer, completed before `on_finish`
  cancels it, is dispatched afterwards.  `SessionOutcome` allows exactly that.
* With UDP, two testers lose bytes on an ideal network unless each slice received is a
  whole number of slices sent (`NothingCutOff`).  Of what testers send, `--verify first`
  finds whatever `--verify all` would, unless a range of datagram sizes has 0 in it
  (`FirstSuffices`).
* A UDP session succeeds once it has received its size, and may by then have received
  more: its last slice is not shortened to what is missing, so that a sender that was told
  more is not found out (`SuccessIsExact`).
* An end assumes that its peer is as fast as the slower of its own two bandwidths.  If it
  is not, or if the sender is started later after its listener than the margin and the
  shorter slice of the two ends allow, the test times out (`TimeoutExplained`).
* The timer goes by the clock of the wall: setting it forward during a test, by more than the margin
  and the shorter slice have to spare, times the test out, and setting it back gives the test that much
  more time (`TimeoutExplained`, `Ahead`).
* The reported bandwidth is rounded down to whole thousands of bytes per second: less
  than that is reported as 0.  It uses the clock of the wall; when that is set back by more
  than the transfer took, 0 is reported too (`StatisticsFaithful`).
* A datagram size of 0 sends empty datagrams until the timer ends the session
  (`EventuallyEnds`), and an empty datagram lets `--verify first` report the first byte of
  an earlier one (`VerificationExact`).
* A listener ignores the local part of its endpoint, and a client binds it.  So the mirror
  image of a client's endpoint, which is what the peer of a UDP session has, is of no use to
  a listener: it would listen on the address that the client binds, and in one file a client
  after it is refused (`EndpointsMeet`).  Two UDP sessions may have the same local port; which
  of them gets a datagram is up to the system.
* A session file that cannot be opened is an empty one, and the program returns 0.
* `mode=rx` is rejected without an explicit shutdown policy, for UDP too, which has
  none: the default is `send_complete` (`accepts`).
* `Ranges.ipp` removes duplicates that are neighbours only: a core is listed once for each
  range that has it, less once for each that starts with it where the one before ends
  (`CoresListed`).  `0-1,1-2` lists the core 1 once, `0-1,0-1` lists both twice.

### Bounds

`BYTE_VALUES` is 256 in the program and 1 or 2 here, `BUFFER_SIZE` 128 KiB and here 2 to
4: always at least `BYTE_VALUES`, not a multiple of it in `tcp_data`, so that a send
ends at the end of the buffer, at a slice, at the size, and at a partial write.  Sizes
are 2 to 5 bytes, slices 0 (a bandwidth below the frequency), below, equal to and above
the size.  `ROOM` bytes in flight make sends partial and block them.  A peer sends up to
`EXCESS` bytes more than it should.  `pair_all` has sizes one below, equal to and one
above the other end's.  The proofs hold without any of these bounds.

`udp_session` has a socket that holds `RECEIVE_BUFFER` datagrams and a system that takes
`SEND_BUFFER` before a send blocks, one each: enough for a datagram to wait while the
session is busy, and for a send to wait for room.  What is dropped before it arrives is
never sent, as the source of datagrams is free.

`udp_network` uses a socket of one datagram, three bytes, a sender that was told two or
four where the receiver was told three, datagrams of one or two, and slices that fit or
do not.  A network with more room in its sockets only delivers later:
undelivered datagrams are in `outgoing`, where all that a size of three sends has room.
`app_threads` has three sessions on two threads (two share one), two sessions on one,
a thread without session, no session at all, and a core that the host lacks.  `timed_pair` has
10 ticks in a second, slices of 1, 2 and 5 ticks, also different ones at the two ends,
bandwidths that are multiples of the frequency or not or below it, so that a slice grants
nothing, four pairs of bandwidths per end, a margin by default, of nothing and of more than
a slice, a sender that comes at once, at the limit of the margin, or much later, and
handlers up to `LATENESS` ticks late; it ends at `HORIZON`, after the longest test and its
timer.  A group of these tests has the clock of the wall set once, at any moment: back, forward by less than the
test has to spare, and forward by more.  On hosts that are not prompt there is any lateness until
`STALLED`, with the clock set too.  `process` has one byte in each direction and the
smallest buffers: what more bytes do to a session is what the runs of the sessions
show, and here it is the interleaving of two sessions, two threads and the main thread
that matters.  `configuration_file` has files of up to three lines out of twenty-four,
with two names of one address, the wildcard, a port by its name and by its number, ports that the
system chooses (one that a line names among them), and an address that another program listens on; any pair of five ranges over
four cores; and sizes modulo 2^20, so that `1MiB` stands for the `16EiB` that wraps to 0.

Deadlock is not checked in these runs: a session whose work is done, a program that has
ended and a file that was read stop, as they should.  That they do not stop earlier
is what `SuccessMeansTransferred`, `EventuallyEnds`, `ProgramEnds`, `AlwaysEnds` and both
`BothSucceed` say.

### Fairness

* `TcpSession`, `UdpSession`: handlers are dispatched, since `Thread::run` polls until it stops, and
  the timer expires.  Nothing is assumed of the peer, the network or the throttles.
* `TcpPair`, `UdpPair`: threads poll, throttles expire, the network delivers.  A lossy
  network may lose what it would deliver.
* `Application`: the main thread and the polling threads run.  Nothing is assumed of
  the sessions: that they have work for ever is allowed, and `ProgramEnds` holds
  nevertheless.
* `Process`: each thread runs, and so do the main thread and the timers.  The last two are
  one condition, because both take finitely many steps.  Which of two sessions a thread
  serves is left open: a session that were served for ever would meet its own timer, and
  the exit that it requests ends the other one.
* `TimedPair`, `Configuration`: none, there is no liveness; that a transfer
  comes to its end in time is a safety property there.

## What is proved

* `SessionProofs` has what sessions of both protocols share: what `begin`, `complete`,
  `cancel`, `dispatch` and `on_finish` do to the queue and to the memory of the handlers,
  for an arbitrary session record (`Consistent`); what each method leaves alone (`Keeps`);
  and that what `async_send` hands to the socket lies within the buffer.
* `TcpSessionProofs`: `Spec => []ControlInv` for every set of configurations, every
  buffer and byte size with `BUFFER_SIZE >= BYTE_VALUES`, and any peer.  `ControlInv` is
  inductive and was checked by TLC first.  Its parts are: an operation is outstanding
  once (`QueueInv`); the timer is started before anything but the connection is
  handled (`StartInv`); each direction has at most one operation outstanding
  (`LaneInv`); a handler memory is in use exactly while its operation is outstanding
  (`MemoryInv`); only a session that closes itself cancels, only its timer and its signal,
  and neither a cancellation nor the end of the stream is ever reported as such
  (`AbortedInv`); a session is closed exactly when both directions are complete, and then
  nothing of it waits (`CompleteInv`); what slices and counters add up to
  (`ReceiveSizeInv`, `SendSizeInv`); and until the exit is requested each direction is
  complete or under way, and a session that is not closed waits for a signal
  (`ProgressInv`).  The parts are needed together: that closing cancels nothing of a
  direction follows from its completion flag, which is set only when its lane is free.
  There is a lemma per method, proved for an arbitrary session record, so that an
  action is proved by chaining the lemmas of the calls of its handler.  From the
  invariant follow `TypeCorrect`, `ExclusiveHandlerMemory`, `NoSelfAbort`, `NothingLeft`,
  `SuccessTransfers` and, as an action property, `FinalFailure`.
* `TcpSessionProofs`, its second part: `Spec => []DataInv`, the bytes of a TCP session.  `DataInv` says where
  everything that is on its way stands in the two streams: what is received, what a
  completed receive holds for its handler and what is in the socket are together what the
  peer sent, each byte right or wrong as its position in that stream says (`StreamInv`); what
  the peer has still to read ends where the socket accepted the last byte, counting those of
  a completed send whose handler has not run (`OutboundInv`); an end of the stream that
  was read leaves nothing behind it (`EndInv`); a failed receive holds no bytes
  (`ResultInv`).  None of this can be said of `received` and `sent` alone, which are behind
  the socket while a completion waits.  Before it is connected a session has nothing in
  hand (`LinkInv`): here a size above 0 is needed, as a session without bytes to transfer
  would complete unconnected.  It rests on `ControlInv`, for one operation at a time in each
  direction, and on a lemma per method for what the method leaves alone (`Keeps`).  From it
  follow `ExactVerification`, `FinishedComplete` and `PatternSent`, for every way in which
  streams are split.  The runs check these three, each with a mutant of the code that
  breaks it; `DataInv`, which implies them together with `ControlInv`, was checked by TLC on
  the instances of `tcp_transfer` and `tcp_data` before it was proved.
* `PolicyKept`: a TCP session transfers in the directions it was configured with, and shuts
  its sending side down only when its policy has it done (`PolicyInv`): this is what the
  other end of a connection relies on.
* `TcpPairProofs`: the two ends of a TCP connection, for all configurations of both, any
  network and any sizes.  `PairInv` contains the invariants of each end, and adds what is
  true of both at once: what the socket of one end accepted is on its way or has been read
  by the other one, unchanged, and what was read of a stream's end did happen (`Flow`);
  a failure that only the other end can cause has its cause there as soon as it is
  queued, before its handler runs (`Explains`); of two ends that wait for their peer neither
  sees an end before the other exits (`AwaitsExit`); and the two have opposite
  directions (`Opposite`).  Every step of the pair is a step of one `TcpSession`, or of
  two at once where one sends and the other receives, so that the invariants of the ends are
  inherited from `TcpSessionProofs`.  It is instantiated there under the substitutions of
  `TcpPair`; as two instances of a module define everything twice, the lemmas `SameA`, `SameB`,
  `VocabularyA` and `VocabularyB` first say that their definitions are those of `TcpPair`.
  From `PairInv` follow `StreamsAgreed`, `SuccessesConfirmed`, `FailuresAreExplained` and
  `BothKeepWaiting`.
* `UdpSessionProofs`: the same control for `UdpSession`, against any datagrams.  What differs is
  that a direction completes without the end of a stream, and that one handler can report
  a mismatch and close the session (`Leaves`).
* `DatagramsVerified`: `VerificationExact` of `UdpSession`.  Its strengthening `DatagramInv`
  adds the datagram that was taken from the socket and is not yet verified: what
  is strange about it is known to the model's ghost `strange` already, and if all bytes are
  verified then a wrong one is there and nowhere else.
* `PromiseKept`, in `TcpSessionProofs` and in `UdpSessionProofs`: `Spec => KeepsPromise`,
  the refinement to `SessionOutcome` on which `Application` rests.  Completions do not
  change the outcome, since nothing waits in a closed session; a handler of the transfer
  finds a session that is not closed, and the signal that it leaves outstanding keeps
  a session that it closes from being idle at once; the timer and the signals abort, or
  are cancelled ones of a closed session, the last of which leaves it idle.
* `UdpPairProofs`: two UDP sessions, for all configurations of both, all sizes
  of datagrams, buffers and slices, and a network that may lose, reorder and repeat
  (`DatagramsKept`).  What one end does is known to the other by two numbers, `Passed` and
  `Reached`: the position behind the last byte it sent, or took from its socket, those of
  a completion that is still queued included; `Moves` says of every step of a session what
  it does to them and to the datagrams on both sides of it, and is proved in
  `UdpSessionProofs` (`EndMoves`) without a peer.  For it `HandInv` is needed: an operation
  is where its slice says (`Placed`), so that a datagram that is sent does not cross the bound
  of a slice, and one that does not cross it is received in full.  `UdpInv` then relates
  the two ends (`Carried`): unless the network repeats datagrams no more is received, waiting
  or on its way than was sent; and on an ideal network, if the slices fit, nothing is
  missing, and what waits and what is on its way is a `Chain`, in which each datagram is the run of
  the pattern that starts where the one before it ended.  The network only takes a
  datagram from one sequence and puts it at the end of the other (`CarriedByNetwork`).  The
  bytes of a sequence are counted by the cardinality of a set (`Volume`), as no fold
  over a sequence can be reasoned about here.  From it follow `NothingIsCutOff` and
  `SuccessesAreExact`.  `FirstIsEnough` needs less of the network, and more of a datagram: it is
  a non-empty run of the pattern wherever it is (`Runs`), so that its first byte is in its
  place or none is, and an end that verifies has a strange datagram at most in the receive
  whose handler is next (`FirstInv`).
* The attempt to prove these three corrected them.  `FirstSuffices` was false when a range
  of datagram sizes has 0 in it, and the sizes of the run did not have it; `SuccessIsExact`
  said that exactly the size is received, which only holds of ends that were told the same
  size, as all ends of the run were; and `NothingCutOff` had a condition on slices that
  exceed the buffer, which it does not need.
* `TimedPairProofs`: `Schedule`, `ScheduleInv` for any two configurations, any clock and any
  lateness.  It is inductive.  Of each end it says that the time of its throttle is its start
  and a whole number of slices, however late handlers are (`OnSchedule`), that it has asked
  for as many bytes as these slices grant and for no slice that its size does not need
  (`SlicesNeeded`), that its dates agree with the steady clock as long as nobody sets
  the other one (`Dated`), and that its deadline is its start, the estimated duration and what
  the clock of the wall was ahead then (`Timed`); of the two, what the status of one says of the other
  (`Connection`); and on prompt hosts that one of them, the one that the other waits for, is late by one
  handler at most (`Prompt`), whatever happens to the slower one meanwhile.
* From it follow `Governs` (`SlowerEndGoverns`), with slices that divide the second without
  remainder; `KeepsSchedule` (`NoDrift`), by arithmetic about the last slice a size needs
  (`QuotientBound`); and `Reports` (`StatisticsFaithful`).  `Explained` (`TimeoutExplained`)
  is an invariant of its own on top: the moment at which a timer expires while an end is under way,
  less what the clock of the wall was set forward since its start, is compared with the last slice that
  the two schedules allow.
* The attempt to prove `TimeoutExplained` showed that it had said too much: the time that is
  to spare is that of the *shorter* slice of the two ends, and a sender that is launched only
  after its listener has timed out never starts its transfer.  The tests of the run had ends with equal
  slices only; now they have different ones.
* `ApplicationProofs`: `OneFailure`, for any number of sessions and threads.  The
  strengthening is `FailureStopsThread`: a thread in which a session failed is about to
  look at the flag, which is set.  And `ExitStatus`, that `StatusOfSessions` holds: its
  strengthening `ThreadsInv` says what a thread that has left its loop knows, namely
  that all sessions exist, that it was pinned, and that the exit was requested or its
  io_service has run out of work, which it never gets back (`IdleForEver`).  When main
  has joined all of them this is known of all sessions, by round robin.
* `ProcessProofs`: `ApplicationImplemented`, the refinement `Spec => ImplementsApplication`, and
  `ZeroTransfers`, that a program which returns 0 without having been interrupted before it
  had sessions has transferred what every line of its file asks for.  The first says that
  a step of the threads, of the peers, of the network or of a timer changes what the
  application knows of the sessions as `Application` allows, or not at all.  Each session
  keeps the invariant of its own proofs, instantiated there under the substitutions of
  `Process` (`SameTcp`, `SameUdp`: both instances of a session are one); a handler of it
  makes of its outcome what `Turns` says, and everything else that happens to it is unseen.
  What has to be added, `ProcessInv`, relates sessions and threads: a session whose
  handlers are not called any more has raised the flag or seen it, and its thread has left its
  loop or is about to look (`Follows`), so that a thread which finds no handler to call
  has sessions that are idle or wait, and not ones that were given up; a session that is not
  created yet is untouched; and no thread runs before both exist.  An `io_service` is out
  of work just when the outcomes of its sessions are idle: this is where a signal that
  still waits for its handler matters.  `ZeroTransfers` joins three proofs: by the
  refinement `StatusInv` of `ApplicationProofs` holds of the process, so that status 0
  means idle outcomes, and an idle session has transferred its sizes by its own invariant.
  `ProcessInv` was checked by TLC on the instance of `process` before it was proved.
* `ProcessProofs`, its part about `Configuration`: `LinesStayIndependent`,
  `AllSessionsAccepted` and `ClientsFindTheirListeners`, for any file.  The object that lines are parsed into always has
  the shape that moving from it left (`Shape`), every option that is read from it was
  written by this line's parsing or by its defaults (`LineInv`), and sockets are those of
  the sessions so far, each bound to what its endpoint says or to a port of the system's, and over TCP
  apart from all that listened before it and from other programs (`SocketInv`).  That a client
  reaches nobody else follows from overlap: whoever would answer one address overlaps
  (`AnswersOverlap`), whatever its name was, and two such listeners cannot both be open.

Assumptions are those that the modules name: `BufferAssumption`,
`ConfigurationsAssumption` (accepted configurations, which `AllSessionsAccepted` shows the
parser to produce), `EnvironmentAssumption`, `DatagramsAssumption` (a datagram to send fits
the buffer at every offset; `SizesAssumption` in `UdpPair`), `SecondAssumption`,
`PairAssumption` (in `TimedPair` a bandwidth, a frequency and a size above 0),
`TestsAssumption` (in `TcpPair` accepted configurations with opposite directions, in
`UdpPair` accepted configurations, in `Process` accepted configurations of both lines),
`NetworkAssumption`, `LatenessAssumption`, `FailuresAssumption`, `LinesAssumption` (the
value of an option that names an endpoint is not empty, as `program_options` has it), and
`ResolverAssumption` (ports are numbers, and no host or service is named by an empty text).

Only model-checked:

* Liveness, which is out of the prover's reach: `EventuallyEnds`, `BothSucceed`,
  `ProgramEnds`, `AlwaysEnds`.
* `CoresListed`: what `unique` leaves of the concatenated ranges is a fold over a sequence
  whose length is that of the data, and its correctness needs induction over that
  length, which the prover cannot instantiate.

All other properties of the passing runs are theorems.

## What is not modelled

* Printing: the operators `<<` of sizes, ranges and configurations, and the layout of the
  report (its numbers are in `TimedPair`).
* The number of the exit status: `Application` distinguishes success, the failure that is
  reported, an exception, and the end by a signal or by an exception of a thread.
* Address families; the addresses that a resolver finds after the first one, which the program
  does not use; and a resolver whose answers change while the file is read.
* The builds for Windows (`CpuWin.cpp`, one signal less).
* The spelling of options and their abbreviations.
* Cases that the assumptions exclude, each of them a hazard in PROJECT.json: a bandwidth
  of 0 (division by zero in `estimate_test_duration`), a maximum datagram size of nearly
  128 KiB, a frequency above 10^9; and a range of datagram sizes with its bounds exchanged,
  which the random distribution does not define.

## Plan

1. *Done*: `Session`, `TcpSession`, `SessionOutcome`, `TcpPair`, `BandwidthThrottle`,
   `Application`, `UdpSession`, `UdpPair`, `Configuration`, and the proofs
   above, in that order: from the transfer, the heart of the program, outwards.  Then
   `TimedPair` and `Process`, which compose them, unequal sizes in `TcpPair`, empty datagrams
   and liveness in `UdpSession`, pinning and its failure in `Application`, endpoints and
   sockets in `Configuration`.
2. *Done*: `ControlInv` of `UdpSession`, with the lemmas for `Session` in a module of their
   own; the refinement `KeepsPromise` of both sessions; the exit status of `Application`;
   the bytes of a TCP session (`DataInv`), and with them `FinishedReceivedAll`,
   `VerificationExact` and `SendsPattern`; the bytes of datagrams; the
   schedules of two throttles and what follows from them in `TimedPair`, which took over what
   a module with the sender alone had said; the two ends of a TCP connection, and the two
   ends of a test over UDP; the configuration; and the refinement of `Application` by
   `Process`, by which its theorems hold of real sessions.
3. Left: `CoresListed`, by an induction that the installed provers do not have; and liveness.
