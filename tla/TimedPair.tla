------------------------------ MODULE TimedPair ------------------------------
(***************************************************************************)
(* A sender and a receiver of the same size against the clock: the listener *)
(* starts first, each end has its throttle and its timer, and each takes   *)
(* the statistics that it reports (src/Statistics.cpp).  The throttles go  *)
(* by the steady clock; the timers, which are deadline_timers, and the     *)
(* dates by that of the wall, which somebody may set.  What the ends do    *)
(* apart from time is in TcpPair; here the sender shuts down when it has   *)
(* sent everything, and the receiver when it has seen the end of that.     *)
(***************************************************************************)
EXTENDS BandwidthThrottle, Sequences

CONSTANTS
    Tests,      \* the tests to choose from, each on hosts that are prompt or not
                \* and whose clock of the wall may be set back or forward
    MILLI,      \* milliseconds in a second, 1000 in the program
    LATENESS,   \* ticks that a handler may be late on a prompt host
    ROOM,       \* bytes in flight
    Launches,   \* when the sender may be started; the listener is at 0
    HORIZON,    \* bounds on the clock: on prompt hosts,
    STALLED     \* and on others

\* A margin is <<>> when the option is not given.
Configuration ==
    [send_bandwidth : Nat \ {0}, receive_bandwidth : Nat \ {0},
     sampling_frequency : Nat \ {0}, duration_margin : Seq(Nat)]

ASSUME PairAssumption ==
    /\ MILLI \in Nat \ {0} /\ LATENESS \in Nat /\ ROOM \in Nat \ {0}
    /\ Launches \subseteq Nat
    /\ \A t \in Tests :
        /\ {t.sender, t.receiver} \subseteq Configuration
        /\ t.size \in Nat \ {0} /\ t.prompt \in BOOLEAN /\ t.adjustments \subseteq Int

VARIABLES
    now,        \* the steady clock,
    offset,     \* and how far the clock of the wall is ahead of it
    test,
    sender, receiver    \* the two ends

vars == <<now, offset, test, sender, receiver>>

End ==
    [status : {"absent", "connecting", "transferring", "waiting", "complete", "timeout",
               "disconnected"},
     throttle : Throttle,
     slice : Nat,           \* slice_remaining_size
     count : Nat,           \* sent_bytes_count or received_bytes_count
     deadline : Int,        \* timeout_timer_,
     start_date : Int,      \* start_date and the durations, by the clock of the wall;
     duration : Int,
     launched : Nat,        \* the same moments by the steady clock (history),
     start : Nat,
     finish : Nat,
     ahead : Int,           \* the offset when the timer was started,
     expired : BOOLEAN,     \* whether the timer had expired when the clock was set
     slices : Nat]          \* how many slices began since the start (history)

TypeOK ==
    /\ now \in Nat
    /\ test \in Tests
    /\ offset \in test.adjustments \cup {0}
    /\ sender \in End /\ receiver \in End

universal_time == now + offset

-----------------------------------------------------------------------------
(* Session: the timer and the moments of the transfer.                     *)

Least(a, b) == IF a < b THEN a ELSE b

slowest(conf) == Least(conf.receive_bandwidth, conf.send_bandwidth)

theoretical(conf, size) == (size \div slowest(conf) + 1) * SECOND

margin(conf, size) ==
    IF conf.duration_margin = <<>> THEN theoretical(conf, size) \div 10
    ELSE conf.duration_margin[1]

estimate_test_duration(conf, size) == theoretical(conf, size) + margin(conf, size)

\* Faulty variant: the timer is started by one clock and expires by the other.
launch_steady(conf, bandwidth, size) ==
    [status |-> "connecting",
     throttle |-> new(bandwidth, conf.sampling_frequency, now),
     slice |-> 0, count |-> 0,
     deadline |-> now + estimate_test_duration(conf, size),
     start_date |-> 0, duration |-> 0,
     launched |-> now, start |-> 0, finish |-> 0,
     ahead |-> offset, expired |-> FALSE, slices |-> 0]

\* The constructor, and start_timer(): expires_from_now() of a deadline_timer counts
\* from the time of the wall.
launch(conf, bandwidth, size) ==
    [status |-> "connecting",
     throttle |-> new(bandwidth, conf.sampling_frequency, now),
     slice |-> 0, count |-> 0,
     deadline |-> universal_time + estimate_test_duration(conf, size),
     start_date |-> 0, duration |-> 0,
     launched |-> now, start |-> 0, finish |-> 0,
     ahead |-> offset, expired |-> FALSE, slices |-> 0]

\* Faulty variant: the date is left to the constructor.
start_transfer_undated(e) ==
    [e EXCEPT !.status = "transferring", !.throttle = delay(reset(@, now)),
              !.start = now]

start_transfer(e) ==
    [e EXCEPT !.status = "transferring", !.throttle = delay(reset(@, now)),
              !.start = now, !.start_date = universal_time]

\* async_send() and async_receive() with a new slice.
take_slice(e, most) ==
    LET started == start_slice(e.throttle, now)
        bytes == Least(started.slice_bytes_count, most)
    IN  [e EXCEPT !.slice = bytes, !.slices = @ + 1,
                  !.throttle = IF bytes = 0 THEN delay(started) ELSE started]

\* on_send() and on_receive(), finish_send() and finish_receive().
transfer(e, n) ==
    LET moved == [e EXCEPT !.count = @ + n, !.slice = @ - n]
    IN  IF moved.count >= test.size
        THEN [moved EXCEPT !.status = "waiting", !.finish = now,
                           !.duration = universal_time - e.start_date]
        ELSE IF moved.slice = 0 THEN [moved EXCEPT !.throttle = delay(@)] ELSE moved

-----------------------------------------------------------------------------
(* Statistics                                                              *)

Undefined == -1     \* "undefined", which is printed instead of a bandwidth

\* In bytes per second.  A negative number of milliseconds, as an unsigned one, is
\* beyond every count.
compute_bandwidth(bytes_count, duration) ==
    LET magnitude == IF duration < 0 THEN - duration ELSE duration
        total_milliseconds == (magnitude * MILLI) \div SECOND
    IN  IF total_milliseconds = 0 THEN Undefined
        ELSE IF duration < 0 THEN 0
        ELSE (bytes_count \div total_milliseconds) * MILLI

-----------------------------------------------------------------------------

in_flight == sender.count - receiver.count

Init ==
    /\ now = 0
    /\ offset = 0
    /\ test \in Tests
    /\ sender = [launch(test.sender, test.sender.send_bandwidth, test.size)
                    EXCEPT !.status = "absent"]
    /\ receiver = launch(test.receiver, test.receiver.receive_bandwidth, test.size)

LaunchesSender ==
    /\ sender.status = "absent"
    /\ now \in Launches
    /\ sender' = launch(test.sender, test.sender.send_bandwidth, test.size)
    /\ UNCHANGED <<now, offset, test, receiver>>

\* The handlers of the connection.
Connected(e) == e.status = "connecting" /\ sender.status # "absent"

SenderStarts ==
    /\ Connected(sender)
    /\ sender' = start_transfer(sender)
    /\ UNCHANGED <<now, offset, test, receiver>>

ReceiverStarts ==
    /\ Connected(receiver)
    /\ receiver' = start_transfer(receiver)
    /\ UNCHANGED <<now, offset, test, sender>>

NextSlice(e) == e.status = "transferring" /\ expired(e.throttle, now)

SenderTakesSlice ==
    /\ NextSlice(sender)
    /\ sender' = take_slice(sender, test.size - sender.count)
    /\ UNCHANGED <<now, offset, test, receiver>>

\* The receive is not limited to what is left of the size.
ReceiverTakesSlice ==
    /\ NextSlice(receiver)
    /\ receiver' = take_slice(receiver, receiver.throttle.slice_bytes_count)
    /\ UNCHANGED <<now, offset, test, sender>>

MayMove(e, most) == IF e.status = "transferring" THEN 1 .. Least(e.slice, most) ELSE {}

Sends ==
    /\ \E n \in MayMove(sender, ROOM - in_flight) : sender' = transfer(sender, n)
    /\ UNCHANGED <<now, offset, test, receiver>>

Receives ==
    /\ \E n \in MayMove(receiver, in_flight) : receiver' = transfer(receiver, n)
    /\ UNCHANGED <<now, offset, test, sender>>

\* The end of the stream: the sender's follows its last byte, and the receiver closes
\* the connection when it arrives.
ReceiverEnds ==
    /\ receiver.status = "waiting" /\ sender.status = "waiting"
    /\ receiver' = [receiver EXCEPT !.status = "complete"]
    /\ UNCHANGED <<now, offset, test, sender>>

SenderEnds ==
    /\ sender.status = "waiting" /\ receiver.status = "complete"
    /\ sender' = [sender EXCEPT !.status = "complete"]
    /\ UNCHANGED <<now, offset, test, receiver>>

UnderWay(e) == e.status \in {"connecting", "transferring", "waiting"}

\* The handler runs at any time from the deadline on, and once the timer has expired
\* it does so even when the clock is set back.
Expires(e) == UnderWay(e) /\ (e.expired \/ universal_time >= e.deadline)

SenderTimesOut ==
    /\ Expires(sender)
    /\ sender' = [sender EXCEPT !.status = "timeout"]
    /\ UNCHANGED <<now, offset, test, receiver>>

ReceiverTimesOut ==
    /\ Expires(receiver)
    /\ receiver' = [receiver EXCEPT !.status = "timeout"]
    /\ UNCHANGED <<now, offset, test, sender>>

\* The process of the other end has exited: what remains of the connection fails.
Loses(e, other) == UnderWay(e) /\ other.status = "timeout"

SenderDisconnected ==
    /\ Loses(sender, receiver)
    /\ sender' = [sender EXCEPT !.status = "disconnected"]
    /\ UNCHANGED <<now, offset, test, receiver>>

ReceiverDisconnected ==
    /\ Loses(receiver, sender)
    /\ receiver' = [receiver EXCEPT !.status = "disconnected"]
    /\ UNCHANGED <<now, offset, test, sender>>

\* On prompt hosts what can be done is done at once, and the handler of a throttle
\* runs LATENESS after its time at the latest.
Pending ==
    \/ Connected(sender) \/ Connected(receiver)
    \/ MayMove(sender, ROOM - in_flight) # {} \/ MayMove(receiver, in_flight) # {}
    \/ sender.status = "waiting" /\ receiver.status \in {"waiting", "complete"}
    \/ Loses(sender, receiver) \/ Loses(receiver, sender)

InTime(e) ==
    (e.status = "transferring" /\ e.throttle.waiting) =>
        now < e.throttle.next_slice_start + LATENESS

Tick ==
    /\ now < IF test.prompt THEN HORIZON ELSE STALLED
    /\ test.prompt => ~Pending /\ InTime(sender) /\ InTime(receiver)
    /\ now' = now + 1
    /\ UNCHANGED <<offset, test, sender, receiver>>

\* Somebody sets the clock of the wall, once.
SetsClock ==
    /\ offset = 0
    /\ offset' \in test.adjustments \ {0}
    /\ sender' = [sender EXCEPT !.expired = Expires(sender)]
    /\ receiver' = [receiver EXCEPT !.expired = Expires(receiver)]
    /\ UNCHANGED <<now, test>>

Next ==
    \/ LaunchesSender \/ SenderStarts \/ ReceiverStarts
    \/ SenderTakesSlice \/ ReceiverTakesSlice \/ Sends \/ Receives
    \/ ReceiverEnds \/ SenderEnds
    \/ SenderTimesOut \/ ReceiverTimesOut
    \/ SenderDisconnected \/ ReceiverDisconnected
    \/ Tick \/ SetsClock

Spec == Init /\ [][Next]_vars

-----------------------------------------------------------------------------
(* The schedule                                                            *)

Started(e) == e.status \in {"transferring", "waiting", "complete"}

grant(conf, bandwidth) == to_slice_bytes_count(bandwidth, conf.sampling_frequency)

slice_time(conf) == to_slice_duration(conf.sampling_frequency)

\* Where the throttle of an end stands at a time, and what the end has moved, or may
\* still move, of the slices that began.
OnSchedule(e, conf, bandwidth, time) ==
    /\ e.throttle.slice_bytes_count = grant(conf, bandwidth)
    /\ e.throttle.slice_duration = slice_time(conf)
    /\ e.status \in {"absent", "connecting"} => e.slices = 0
    /\ Started(e) =>
        /\ e.throttle.next_slice_start = e.start + e.slices * slice_time(conf)
        /\ e.start <= time
        /\ e.slices > 0 => e.start + (e.slices - 1) * slice_time(conf) <= time
    /\ e.count + e.slice <= e.slices * grant(conf, bandwidth)

\* An end only waits for a slice when it needs one, and has used up the one before.
SlicesNeeded(e, conf, bandwidth, size) ==
    /\ e.status = "transferring" =>
        e.count < size /\ (e.throttle.waiting <=> e.slice = 0)
    /\ e.status \in {"waiting", "complete"} => e.count >= size
    /\ grant(conf, bandwidth) > 0 =>
        /\ e.count + e.slice \in {size, e.slices * grant(conf, bandwidth)}
        /\ e.slices > 0 => (e.slices - 1) * grant(conf, bandwidth) < size

\* As long as nobody sets the clock of the wall, it and the steady one agree.
Dated(e, time) ==
    /\ Started(e) => e.start_date = e.start /\ e.start <= time
    /\ e.status \in {"waiting", "complete"} =>
        /\ e.duration = e.finish - e.start
        /\ e.start <= e.finish /\ e.finish <= time

\* How much sooner than it should a timer may expire, because the clock of the wall was
\* set forward while it ran.
Ahead(e) == IF offset > e.ahead THEN offset - e.ahead ELSE 0

\* A timer covers the time that is estimated, by the clock as it was at its start, and
\* what had expired when that was set had done so in its time.
Timed(e, conf) ==
    LET estimate == estimate_test_duration(conf, test.size)
    IN  /\ e.launched <= now
        /\ e.ahead \in {0, offset}
        /\ e.deadline = e.launched + e.ahead + estimate
        /\ e.expired => now >= e.launched + estimate

\* What the status of one end says of the other.
Connection ==
    /\ in_flight \in 0 .. ROOM
    /\ sender.count + sender.slice <= test.size
    /\ receiver.launched = 0 /\ receiver.ahead = 0
    /\ receiver.status # "absent"
    /\ sender.status = "absent" => receiver.status \in {"connecting", "timeout"}
    /\ sender.status = "complete" => receiver.status = "complete"
    /\ sender.status = "disconnected" => receiver.status = "timeout"
    /\ receiver.status = "disconnected" => sender.status = "timeout"

\* When the sender was launched, once it is.
launched == sender.launched

\* The slice that an end is on: the last one until it is used up.
latest(e, size) == IF e.slice = 0 /\ e.count < size THEN e.slices ELSE e.slices - 1

OnTime(e, conf) == now <= launched + latest(e, test.size) * slice_time(conf) + LATENESS

Grants ==
    /\ grant(test.sender, test.sender.send_bandwidth) > 0
    /\ grant(test.receiver, test.receiver.receive_bandwidth) > 0

\* On prompt hosts the two ends start together, and at any time one of them, the one
\* that the other waits for, is late by no more than one handler.
Prompt ==
    /\ (sender.status = "absent" /\ receiver.status = "timeout") =>
            now + Ahead(receiver) >= estimate_test_duration(test.receiver, test.size)
    /\ sender.status # "absent" =>
        /\ \A e \in {sender, receiver} :
            /\ e.status = "connecting" => now = launched
            /\ Started(e) => e.start = launched
        /\ (Grants /\ (UnderWay(sender) \/ UnderWay(receiver))) =>
            OnTime(sender, test.sender) \/ OnTime(receiver, test.receiver)

-----------------------------------------------------------------------------
(* Properties                                                              *)

\* A slice of a throttle begins when the handler of its time runs, yet its time is the
\* start of the transfer and a whole number of slices (BandwidthThrottle.hpp:32): no
\* late handler and no stalled connection moves the schedule, and an end only asks for
\* the slices that the size needs.
ScheduleInv ==
    /\ TypeOK
    /\ OnSchedule(sender, test.sender, test.sender.send_bandwidth, now)
    /\ OnSchedule(receiver, test.receiver, test.receiver.receive_bandwidth, now)
    /\ SlicesNeeded(sender, test.sender, test.sender.send_bandwidth, test.size)
    /\ SlicesNeeded(receiver, test.receiver, test.receiver.receive_bandwidth, test.size)
    /\ Connection
    /\ Timed(sender, test.sender) /\ Timed(receiver, test.receiver)
    /\ offset = 0 => Dated(sender, now) /\ Dated(receiver, now)
    /\ test.prompt => Prompt

\* Each end keeps to the bandwidth of its direction since its own start, and the
\* sender, through what the connection holds, to that of the receiver.  (Slices have
\* to divide the second without remainder.)
Whole(conf) == slice_time(conf) * conf.sampling_frequency = SECOND

Within(count, bandwidth, e) ==
    count * SECOND <= bandwidth * (now - e.start + e.throttle.slice_duration)

SlowerEndGoverns ==
    /\ (Started(sender) /\ Whole(test.sender)) =>
            Within(sender.count, test.sender.send_bandwidth, sender)
    /\ (Started(receiver) /\ Whole(test.receiver)) =>
            /\ Within(receiver.count, test.receiver.receive_bandwidth, receiver)
            /\ Within(sender.count - ROOM, test.receiver.receive_bandwidth, receiver)

\* On prompt hosts a late handler delays the slice of its end only: neither the
\* lateness of one end nor that of both adds up over the slices, and a test is over,
\* but for that of one handler, by the last slice of the end that needs longer.
ByLastSlice(conf, bandwidth) ==
    now <= launched + LATENESS
            + ((test.size - 1) \div grant(conf, bandwidth)) * slice_time(conf)

NoDrift ==
    (/\ test.prompt /\ Grants
     /\ sender.status # "absent"
     /\ UnderWay(sender) \/ UnderWay(receiver)) =>
        \/ ByLastSlice(test.sender, test.sender.send_bandwidth)
        \/ ByLastSlice(test.receiver, test.receiver.receive_bandwidth)

\* On prompt hosts and with throttles that grant the bandwidth exactly, a test only
\* times out when the other end is slower than this end assumes, which takes the
\* lower one of its own two bandwidths; or the listener does because the sender came
\* too late, as its timer covers the wait for a connection too; or because somebody
\* set the clock of the wall forward meanwhile, as it is that clock that the timers
\* go by, while the throttles do not.  What is left for all that, and for late
\* handlers, is the margin and the shorter slice of the two ends.  A clock that is
\* set back times out nobody.
Exact(conf, bandwidth) == Whole(conf) /\ bandwidth % conf.sampling_frequency = 0

Spare(conf) ==
    margin(conf, test.size) + Least(slice_time(test.sender), slice_time(test.receiver))

TimeoutExplained ==
    LET rate == Least(test.sender.send_bandwidth, test.receiver.receive_bandwidth)
    IN  (/\ test.prompt
         /\ Exact(test.sender, test.sender.send_bandwidth)
         /\ Exact(test.receiver, test.receiver.receive_bandwidth)) =>
            /\ sender.status = "timeout" =>
                    \/ rate < slowest(test.sender)
                    \/ LATENESS + Ahead(sender) >= Spare(test.sender)
            /\ receiver.status = "timeout" =>
                    \/ rate < slowest(test.receiver)
                    \/ sender.status = "absent"
                    \/ launched + LATENESS + Ahead(receiver) >= Spare(test.receiver)

\* The help says that the margin is "Extra time from theoretical test time allowed
\* to complete without timeout error", by default "infinity" (Executable.cpp:173): a
\* test that meets no obstacle needs no more than the time and the margin.
CompletesInTime == (test.prompt /\ offset = 0) => sender.status # "timeout"

\* The bandwidth that an end reports is that of its own transfer, from its start to
\* its last byte, rounded down to whole thousands of bytes per second.  When the
\* clock of the wall is set meanwhile it is anything from nothing to the whole size
\* in a millisecond.
StatisticsFaithful ==
    \A e \in {sender, receiver} :
        e.status \in {"waiting", "complete"} =>
            LET reported == compute_bandwidth(e.count, e.duration)
                elapsed == ((e.finish - e.start) * MILLI) \div SECOND
            IN  IF offset # 0 THEN reported \in Undefined .. e.count * MILLI
                ELSE IF elapsed = 0 THEN reported = Undefined
                ELSE /\ reported * elapsed <= e.count * MILLI
                     /\ e.count * MILLI < (reported + MILLI) * elapsed
=============================================================================
