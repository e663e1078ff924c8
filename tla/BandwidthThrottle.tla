-------------------------- MODULE BandwidthThrottle --------------------------
(***************************************************************************)
(* The throttle of src/BandwidthThrottle.hpp, which each session has one   *)
(* of per direction, as operators on a record.  Time is a number of ticks  *)
(* of the steady clock.                                                    *)
(***************************************************************************)
EXTENDS Integers

CONSTANT SECOND     \* ticks in a second, 10^9 in the program

ASSUME SecondAssumption == SECOND \in Nat \ {0}

Throttle ==
    [slice_bytes_count : Nat, slice_duration : Nat, next_slice_start : Nat,
     waiting : BOOLEAN]     \* delay() has been called, its handler has not run

to_slice_duration(sampling_frequency) == SECOND \div sampling_frequency

to_slice_bytes_count(bandwidth, sampling_frequency) ==
    bandwidth \div sampling_frequency

new(bandwidth, sampling_frequency, now) ==
    [slice_bytes_count |-> to_slice_bytes_count(bandwidth, sampling_frequency),
     slice_duration |-> to_slice_duration(sampling_frequency),
     next_slice_start |-> now,
     waiting |-> FALSE]

\* Faulty variant: the first slices are those since the construction.
reset_nothing(throttle, now) == throttle

reset(throttle, now) == [throttle EXCEPT !.next_slice_start = now]

delay(throttle) == [throttle EXCEPT !.waiting = TRUE]

expired(throttle, now) == throttle.waiting /\ now >= throttle.next_slice_start

\* Faulty variant: the next slice is counted from the time of the handler.
start_slice_from_now(throttle, now) ==
    [throttle EXCEPT !.waiting = FALSE,
                     !.next_slice_start = now + throttle.slice_duration]

\* The handler of delay(), before it hands slice_bytes_count_ to the session.  The
\* start of the next slice does not depend on how late the handler runs.
start_slice(throttle, now) ==
    [throttle EXCEPT !.waiting = FALSE,
                     !.next_slice_start = @ + throttle.slice_duration]
=============================================================================
