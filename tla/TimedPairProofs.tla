--------------------------- MODULE TimedPairProofs ---------------------------
(***************************************************************************)
(* For every configuration of the two ends and any clock: the schedules of *)
(* the throttles, and what follows for the bandwidth, the lateness, the    *)
(* timers and the statistics.                                              *)
(***************************************************************************)
EXTENDS TimedPair, TLAPS

\* Multiplication is monotonic (the provers know it of constants only).
LEMMA ProductMonotonic ==
    ASSUME NEW a \in Nat, NEW b \in Nat, NEW c \in Nat, a <= b
    PROVE  /\ a * c <= b * c /\ c * a <= c * b
           /\ a * c \in Nat
    OBVIOUS

\* A quotient times its divisor is what was divided, but for less than a divisor.
LEMMA QuotientBound ==
    ASSUME NEW a \in Nat, NEW b \in Nat \ {0}
    PROVE  /\ a \div b \in Nat
           /\ (a \div b) * b <= a
           /\ a < (a \div b + 1) * b
    OBVIOUS

\* One more slice is one more duration, or one more grant.
LEMMA OneMore ==
    ASSUME NEW n \in Nat, NEW d \in Nat
    PROVE  n * d \in Nat /\ (n + 1) * d = n * d + d /\ (n + 1) - 1 = n /\ 0 * d = 0
    OBVIOUS

\* A factor of less is less.
LEMMA FactorLess ==
    ASSUME NEW a \in Nat, NEW b \in Nat, NEW c \in Nat, a * c < b * c
    PROVE  a + 1 <= b
<1>1. CASE b <= a
  <2>1. b * c <= a * c /\ b * c \in Nat /\ a * c \in Nat
      BY <1>1, ProductMonotonic
  <2> QED
      BY <2>1
<1> QED
    BY <1>1

\* What the tests are.
LEMMA TestType ==
    ASSUME NEW t \in Tests
    PROVE  /\ t.sender \in Configuration /\ t.receiver \in Configuration
           /\ t.size \in Nat \ {0} /\ t.prompt \in BOOLEAN
           /\ t.sender.send_bandwidth \in Nat \ {0}
           /\ t.receiver.receive_bandwidth \in Nat \ {0}
    BY PairAssumption DEF Configuration

\* What a configuration allows is a number.
LEMMA ConfigurationType ==
    ASSUME NEW conf \in Configuration, NEW bandwidth \in Nat \ {0},
           NEW size \in Nat \ {0}
    PROVE  /\ grant(conf, bandwidth) \in Nat
           /\ slice_time(conf) \in Nat
           /\ slowest(conf) \in Nat \ {0}
           /\ theoretical(conf, size) \in Nat
           /\ margin(conf, size) \in Nat
           /\ estimate_test_duration(conf, size) \in Nat
<1>1. /\ conf.sampling_frequency \in Nat \ {0}
      /\ conf.send_bandwidth \in Nat \ {0} /\ conf.receive_bandwidth \in Nat \ {0}
      /\ conf.duration_margin \in Seq(Nat)
    BY DEF Configuration
<1>2. grant(conf, bandwidth) \in Nat /\ slice_time(conf) \in Nat
    BY <1>1, SecondAssumption, QuotientBound
    DEF grant, slice_time, to_slice_bytes_count, to_slice_duration
<1>3. slowest(conf) \in Nat \ {0}
    BY <1>1 DEF slowest, Least
<1>4. theoretical(conf, size) \in Nat
  <2>1. size \div slowest(conf) + 1 \in Nat
      BY <1>3, QuotientBound
  <2> QED
      BY <2>1, SecondAssumption DEF theoretical
<1>5. margin(conf, size) \in Nat
  <2>1. theoretical(conf, size) \div 10 \in Nat
      BY <1>4
  <2>2. conf.duration_margin # <<>> => conf.duration_margin[1] \in Nat
      BY <1>1
  <2> QED
      BY <2>1, <2>2 DEF margin
<1> QED
    BY <1>2, <1>3, <1>4, <1>5 DEF estimate_test_duration

-----------------------------------------------------------------------------
(* What each operation on an end keeps.                                    *)

\* The invariant of one end.
EndInv(e, conf, bandwidth, size, time, ahead) ==
    /\ e \in End
    /\ OnSchedule(e, conf, bandwidth, time)
    /\ SlicesNeeded(e, conf, bandwidth, size)
    /\ ahead = 0 => Dated(e, time)

\* What the operations after the construction leave alone.
SameTimer(f, e) ==
    /\ f.deadline = e.deadline /\ f.launched = e.launched
    /\ f.ahead = e.ahead /\ f.expired = e.expired

\* An end as its construction leaves it, or is going to.
Constructed(e, conf, bandwidth, size, status) ==
    \/ e = launch(conf, bandwidth, size) /\ status = "connecting"
    \/ e = [launch(conf, bandwidth, size) EXCEPT !.status = status]

\* The construction of a session starts its schedule with no slice.
LEMMA LaunchKeeps ==
    ASSUME NEW conf \in Configuration, NEW bandwidth \in Nat \ {0},
           NEW size \in Nat \ {0}, now \in Nat, offset \in Int,
           NEW status \in {"absent", "connecting"},
           NEW e, Constructed(e, conf, bandwidth, size, status)
    PROVE  EndInv(e, conf, bandwidth, size, now, offset)
<1>1. /\ grant(conf, bandwidth) \in Nat /\ slice_time(conf) \in Nat
      /\ estimate_test_duration(conf, size) \in Nat
    BY ConfigurationType
<1> DEFINE th == new(bandwidth, conf.sampling_frequency, now)
<1>2. /\ th \in Throttle
      /\ th.slice_bytes_count = grant(conf, bandwidth)
      /\ th.slice_duration = slice_time(conf)
    BY <1>1 DEF new, Throttle, grant, slice_time
<1> HIDE DEF th
<1> DEFINE deadline == now + offset + estimate_test_duration(conf, size)
<1>4. e = [status |-> status, throttle |-> th, slice |-> 0, count |-> 0,
           deadline |-> deadline, start_date |-> 0, duration |-> 0,
           launched |-> now, start |-> 0, finish |-> 0,
           ahead |-> offset, expired |-> FALSE, slices |-> 0]
  <2> DEFINE l == launch(conf, bandwidth, size)
  <2>1. l = [status |-> "connecting", throttle |-> th, slice |-> 0, count |-> 0,
             deadline |-> deadline, start_date |-> 0, duration |-> 0,
             launched |-> now, start |-> 0, finish |-> 0,
             ahead |-> offset, expired |-> FALSE, slices |-> 0]
      BY DEF launch, th, universal_time
  <2> HIDE DEF th, deadline, l
  <2>2. CASE e = l /\ status = "connecting"
      BY <2>1, <2>2
  <2>3. CASE e = [l EXCEPT !.status = status]
      BY <2>1, <2>3
  <2> QED
      BY <2>2, <2>3 DEF l, Constructed
<1>5. deadline \in Int
    BY <1>1
<1> HIDE DEF deadline
<1>6. e \in End
  <2>1. [status |-> status, throttle |-> th, slice |-> 0, count |-> 0,
         deadline |-> deadline, start_date |-> 0, duration |-> 0,
         launched |-> now, start |-> 0, finish |-> 0,
         ahead |-> offset, expired |-> FALSE, slices |-> 0] \in End
      BY <1>2, <1>5 DEF End
  <2> QED
      BY <1>4, <2>1
<1>7. e.count + e.slice = 0 /\ e.slices * grant(conf, bandwidth) = 0
    BY <1>1, <1>4, OneMore
<1>8. OnSchedule(e, conf, bandwidth, now)
    BY <1>1, <1>2, <1>4, <1>7 DEF OnSchedule, Started
<1>9. SlicesNeeded(e, conf, bandwidth, size)
    BY <1>1, <1>4, <1>7 DEF SlicesNeeded
<1>10. Dated(e, now)
    BY <1>4 DEF Dated, Started
<1> QED
    BY <1>4, <1>6, <1>8, <1>9, <1>10 DEF EndInv, deadline

\* The fields of an end.
LEMMA EndType ==
    ASSUME NEW e \in End
    PROVE  /\ e.throttle \in Throttle /\ e.slice \in Nat /\ e.count \in Nat
           /\ e.deadline \in Int /\ e.launched \in Nat /\ e.ahead \in Int
           /\ e.expired \in BOOLEAN /\ e.start_date \in Int /\ e.duration \in Int
           /\ e.start \in Nat /\ e.finish \in Nat /\ e.slices \in Nat
           /\ e.throttle.slice_bytes_count \in Nat /\ e.throttle.slice_duration \in Nat
           /\ e.throttle.next_slice_start \in Nat /\ e.throttle.waiting \in BOOLEAN
    BY DEF End, Throttle

\* The start of the transfer is the start of the schedule, and the end waits at once.
LEMMA StartKeeps ==
    ASSUME NEW conf \in Configuration, NEW bandwidth \in Nat \ {0},
           NEW size \in Nat \ {0}, now \in Nat, offset \in Int,
           NEW e, EndInv(e, conf, bandwidth, size, now, offset),
           e.status = "connecting",
           NEW f, f = start_transfer(e)
    PROVE  /\ EndInv(f, conf, bandwidth, size, now, offset)
           /\ f.status = "transferring" /\ f.start = now
           /\ f.count = 0 /\ f.slice = 0 /\ f.slices = 0
           /\ SameTimer(f, e)
           /\ e.count = 0 /\ e.slice = 0 /\ e.slices = 0
<1>1. grant(conf, bandwidth) \in Nat /\ slice_time(conf) \in Nat
    BY ConfigurationType
<1>2. /\ e \in End /\ OnSchedule(e, conf, bandwidth, now)
      /\ SlicesNeeded(e, conf, bandwidth, size)
    BY DEF EndInv
<1> DEFINE th == [e.throttle EXCEPT !.next_slice_start = now, !.waiting = TRUE]
<1>3. /\ th \in Throttle /\ th.waiting = TRUE /\ th.next_slice_start = now
      /\ th.slice_bytes_count = e.throttle.slice_bytes_count
      /\ th.slice_duration = e.throttle.slice_duration
    BY <1>2, EndType DEF Throttle
<1>4. th = delay(reset(e.throttle, now))
    BY <1>2, EndType DEF delay, reset, Throttle
<1> HIDE DEF th
<1>5. f = [e EXCEPT !.status = "transferring", !.throttle = th,
                    !.start = now, !.start_date = universal_time]
    BY <1>4 DEF start_transfer
<1>6. /\ f \in End
      /\ f.status = "transferring" /\ f.throttle = th /\ f.start = now
      /\ f.start_date = universal_time
      /\ f.slice = e.slice /\ f.count = e.count /\ f.slices = e.slices
      /\ SameTimer(f, e)
  <2>1. universal_time \in Int
      BY DEF universal_time
  <2> QED
      BY <1>2, <1>3, <1>5, <2>1 DEF End, SameTimer
<1>7. /\ e.slices = 0 /\ e.count + e.slice <= e.slices * grant(conf, bandwidth)
      /\ e.throttle.slice_bytes_count = grant(conf, bandwidth)
      /\ e.throttle.slice_duration = slice_time(conf)
    BY <1>2 DEF OnSchedule
<1>8. 0 * grant(conf, bandwidth) = 0 /\ 0 * slice_time(conf) = 0
    BY <1>1, OneMore
<1>9. e.count = 0 /\ e.slice = 0
  <2>1. e.count \in Nat /\ e.slice \in Nat
      BY <1>2, EndType
  <2>2. e.count + e.slice <= 0
      BY <1>7, <1>8
  <2> QED
      BY <2>1, <2>2
<1>10. OnSchedule(f, conf, bandwidth, now)
    BY <1>3, <1>6, <1>7, <1>8, <1>9 DEF OnSchedule, Started
<1>11. SlicesNeeded(f, conf, bandwidth, size)
    BY <1>3, <1>6, <1>7, <1>8, <1>9 DEF SlicesNeeded
<1>12. offset = 0 => Dated(f, now)
    BY <1>6 DEF Dated, Started, universal_time
<1> QED
    BY <1>6, <1>7, <1>9, <1>10, <1>11, <1>12 DEF EndInv

\* A slice is granted at its time or later, and the time of the next one is that of
\* this one and a slice.
LEMMA TakeKeeps ==
    ASSUME NEW conf \in Configuration, NEW bandwidth \in Nat \ {0},
           NEW size \in Nat \ {0}, now \in Nat,
           NEW e, EndInv(e, conf, bandwidth, size, now, offset),
           NextSlice(e),
           NEW most \in Nat, most \in {size - e.count, grant(conf, bandwidth)},
           NEW f, f = take_slice(e, most)
    PROVE  /\ EndInv(f, conf, bandwidth, size, now, offset)
           /\ e.status = "transferring" /\ e.slice = 0 /\ e.count < size
           /\ f.status = "transferring" /\ f.start = e.start
           /\ f.count = e.count /\ f.slices = e.slices + 1
           /\ f.slice \in Nat /\ f.slice <= most
           /\ grant(conf, bandwidth) > 0 => f.slice > 0
           /\ SameTimer(f, e)
<1> DEFINE g == grant(conf, bandwidth)
           d == slice_time(conf)
           started == start_slice(e.throttle, now)
           bytes == Least(started.slice_bytes_count, most)
           th == IF bytes = 0 THEN delay(started) ELSE started
<1>1. g \in Nat /\ d \in Nat
    BY ConfigurationType
<1>2. /\ e \in End /\ OnSchedule(e, conf, bandwidth, now)
      /\ SlicesNeeded(e, conf, bandwidth, size)
      /\ offset = 0 => Dated(e, now)
    BY DEF EndInv
<1>3. /\ e.throttle \in Throttle /\ e.slices \in Nat /\ e.count \in Nat /\ e.start \in Nat
      /\ e.slice \in Nat /\ e.throttle.next_slice_start \in Nat
      /\ e.throttle.slice_bytes_count \in Nat /\ e.throttle.slice_duration \in Nat
    BY <1>2, EndType
<1>4. e.status = "transferring" /\ e.throttle.waiting /\ e.throttle.next_slice_start <= now
    BY DEF NextSlice, expired
<1>5. /\ e.throttle.slice_bytes_count = g /\ e.throttle.slice_duration = d
      /\ e.throttle.next_slice_start = e.start + e.slices * d
      /\ e.start <= now
      /\ e.count + e.slice <= e.slices * g
    BY <1>2, <1>4 DEF OnSchedule, Started
<1>6. /\ e.slice = 0 /\ e.count < size
      /\ g > 0 => e.count + e.slice \in {size, e.slices * g}
    BY <1>2, <1>4 DEF SlicesNeeded
<1>7. /\ started = [e.throttle EXCEPT !.waiting = FALSE,
                       !.next_slice_start = e.throttle.next_slice_start
                                             + e.throttle.slice_duration]
      /\ e.throttle.next_slice_start + e.throttle.slice_duration \in Nat
    BY <1>3 DEF start_slice
<1>8. /\ started \in Throttle /\ started.waiting = FALSE
      /\ started.slice_bytes_count = g
      /\ started.slice_duration = d
      /\ started.next_slice_start = e.throttle.next_slice_start + d
    BY <1>3, <1>5, <1>7 DEF Throttle
<1>9. bytes = Least(g, most)
    BY <1>8
<1> HIDE DEF started, g, d
<1>10. /\ th \in Throttle /\ th.slice_bytes_count = g /\ th.slice_duration = d
       /\ th.next_slice_start = e.throttle.next_slice_start + d
  <2>1. /\ delay(started) \in Throttle /\ delay(started).slice_bytes_count = g
        /\ delay(started).slice_duration = d
        /\ delay(started).next_slice_start = e.throttle.next_slice_start + d
      BY <1>8 DEF delay, Throttle
  <2> QED
      BY <1>8, <2>1
<1>11. th.waiting <=> bytes = 0
  <2>1. delay(started).waiting = TRUE
      BY <1>8 DEF delay, Throttle
  <2>2. CASE bytes = 0
      BY <2>1, <2>2
  <2>3. CASE bytes # 0
      BY <1>8, <2>3
  <2> QED
      BY <2>2, <2>3
<1>12. f = [e EXCEPT !.slice = bytes, !.slices = e.slices + 1, !.throttle = th]
    BY DEF take_slice, started
<1> HIDE DEF th, bytes
<1>13. /\ bytes \in Nat /\ bytes <= most /\ bytes <= g
       /\ bytes = g \/ bytes = size - e.count
       /\ g > 0 => bytes > 0
  <2>1. most = size - e.count \/ most = g
      BY DEF g
  <2>2. size - e.count > 0
      BY <1>3, <1>6
  <2>3. g > 0 => most > 0
      BY <2>1, <2>2
  <2> QED
      BY <1>1, <1>9, <2>1, <2>3 DEF Least
<1>14. /\ f \in End /\ f.status = "transferring" /\ f.throttle = th /\ f.start = e.start
       /\ f.start_date = e.start_date /\ f.slice = bytes /\ f.count = e.count
       /\ f.slices = e.slices + 1 /\ SameTimer(f, e)
  <2>1. e \in End /\ e.slices + 1 \in Nat /\ bytes \in Nat /\ th \in Throttle
      BY <1>2, <1>3, <1>10, <1>13
  <2>2. f \in End
      BY <2>1, <1>12 DEF End
  <2> QED
      BY <2>1, <2>2, <1>4, <1>12 DEF End, SameTimer
<1>15. /\ e.slices * d \in Nat /\ e.slices * g \in Nat
       /\ (e.slices + 1) * d = e.slices * d + d
       /\ (e.slices + 1) * g = e.slices * g + g
       /\ (e.slices + 1) - 1 = e.slices
    BY <1>1, <1>3, OneMore
<1>16. OnSchedule(f, conf, bandwidth, now)
  <2>1. f.throttle.next_slice_start = f.start + f.slices * d
      BY <1>1, <1>3, <1>5, <1>10, <1>14, <1>15
  <2>2. f.start + (f.slices - 1) * d <= now
      BY <1>4, <1>5, <1>14, <1>15
  <2>3. f.count + f.slice <= f.slices * g
    <3>1. e.count <= e.slices * g
        BY <1>3, <1>5, <1>6
    <3> QED
        BY <1>1, <1>3, <1>13, <1>14, <1>15, <3>1
  <2> QED
      BY <1>5, <1>10, <1>14, <2>1, <2>2, <2>3 DEF OnSchedule, Started, g, d
<1>17. SlicesNeeded(f, conf, bandwidth, size)
  <2>1. g > 0 => e.count = e.slices * g
      BY <1>3, <1>6
  <2>2. g > 0 => f.count + f.slice \in {size, f.slices * g}
      BY <1>1, <1>3, <1>13, <1>14, <1>15, <2>1
  <2>3. g > 0 => (f.slices - 1) * g < size
      BY <1>6, <1>14, <1>15, <2>1
  <2>4. f.count < size /\ (f.throttle.waiting <=> f.slice = 0)
      BY <1>6, <1>11, <1>14
  <2> QED
      BY <1>14, <2>2, <2>3, <2>4 DEF SlicesNeeded, g
<1>18. offset = 0 => Dated(f, now)
    BY <1>2, <1>4, <1>14 DEF Dated, Started
<1>19. EndInv(f, conf, bandwidth, size, now, offset)
    BY <1>14, <1>16, <1>17, <1>18 DEF EndInv
<1> QED
    BY <1>4, <1>6, <1>13, <1>14, <1>19 DEF g

\* What is moved is taken from the slice, and a slice that is used up is waited for
\* unless the size is complete.
LEMMA TransferKeeps ==
    ASSUME NEW conf \in Configuration, NEW bandwidth \in Nat \ {0},
           now \in Nat, offset \in Int, test.size \in Nat \ {0},
           NEW e, EndInv(e, conf, bandwidth, test.size, now, offset),
           e.status = "transferring",
           NEW n \in 1 .. e.slice,
           NEW f, f = transfer(e, n)
    PROVE  /\ EndInv(f, conf, bandwidth, test.size, now, offset)
           /\ f.status = IF e.count + n >= test.size THEN "waiting" ELSE "transferring"
           /\ f.start = e.start /\ SameTimer(f, e)
           /\ f.count = e.count + n /\ f.slice = e.slice - n /\ f.slices = e.slices
<1> DEFINE g == grant(conf, bandwidth)
           d == slice_time(conf)
           moved == [e EXCEPT !.count = e.count + n, !.slice = e.slice - n]
<1>1. /\ e \in End /\ OnSchedule(e, conf, bandwidth, now)
      /\ SlicesNeeded(e, conf, bandwidth, test.size)
      /\ offset = 0 => Dated(e, now)
    BY DEF EndInv
<1>2. /\ e.throttle \in Throttle /\ e.slices \in Nat /\ e.count \in Nat /\ e.start \in Nat
      /\ e.slice \in Nat /\ e.start_date \in Int /\ n \in Nat /\ n > 0 /\ n <= e.slice
    BY <1>1, EndType
<1>3. e.count + n \in Nat /\ e.slice - n \in Nat
    BY <1>2
<1>4. /\ moved \in End /\ moved.count = e.count + n /\ moved.slice = e.slice - n
      /\ moved.status = "transferring" /\ moved.throttle = e.throttle
      /\ moved.start = e.start /\ moved.start_date = e.start_date
      /\ moved.slices = e.slices /\ SameTimer(moved, e)
    BY <1>1, <1>3 DEF End, SameTimer
<1>5. f = IF moved.count >= test.size
          THEN [moved EXCEPT !.status = "waiting", !.finish = now,
                             !.duration = universal_time - e.start_date]
          ELSE IF moved.slice = 0 THEN [moved EXCEPT !.throttle = delay(e.throttle)]
               ELSE moved
    BY <1>4 DEF transfer
<1> HIDE DEF moved, g, d
<1>6. /\ delay(e.throttle) \in Throttle /\ delay(e.throttle).waiting = TRUE
      /\ delay(e.throttle).slice_bytes_count = e.throttle.slice_bytes_count
      /\ delay(e.throttle).slice_duration = e.throttle.slice_duration
      /\ delay(e.throttle).next_slice_start = e.throttle.next_slice_start
    BY <1>2 DEF delay, Throttle
<1>7. universal_time \in Int /\ universal_time - e.start_date \in Int
    BY <1>2 DEF universal_time
<1>8. CASE moved.count >= test.size
  <2>1. f = [moved EXCEPT !.status = "waiting", !.finish = now,
                          !.duration = universal_time - e.start_date]
      BY <1>5, <1>8
  <2>2. /\ f \in End /\ f.count = moved.count /\ f.slice = moved.slice
        /\ f.status = "waiting" /\ f.throttle = moved.throttle
        /\ f.start = moved.start /\ f.start_date = moved.start_date
        /\ f.finish = now /\ f.duration = universal_time - e.start_date
        /\ f.slices = moved.slices /\ SameTimer(f, moved)
      BY <1>4, <1>7, <2>1 DEF End, SameTimer
  <2>3. f.count + f.slice = e.count + e.slice
      BY <1>2, <1>4, <2>2
  <2>4. OnSchedule(f, conf, bandwidth, now)
      BY <1>1, <1>4, <2>2, <2>3 DEF OnSchedule, Started
  <2>5. SlicesNeeded(f, conf, bandwidth, test.size)
      BY <1>1, <1>4, <1>8, <2>2, <2>3 DEF SlicesNeeded
  <2>6. offset = 0 => Dated(f, now)
    <3> SUFFICES ASSUME offset = 0 PROVE Dated(f, now)
        OBVIOUS
    <3>1. e.start_date = e.start /\ e.start <= now
        BY <1>1 DEF Dated, Started
    <3>2. universal_time = now
        BY DEF universal_time
    <3> QED
        BY <1>4, <2>2, <3>1, <3>2 DEF Dated, Started
  <2> QED
      BY <1>4, <1>8, <2>2, <2>4, <2>5, <2>6 DEF EndInv, SameTimer
<1>9. CASE ~(moved.count >= test.size)
  <2>1. f = IF moved.slice = 0 THEN [moved EXCEPT !.throttle = delay(e.throttle)]
            ELSE moved
      BY <1>5, <1>9
  <2>2. /\ f \in End /\ f.count = moved.count /\ f.slice = moved.slice
        /\ f.status = "transferring"
        /\ f.throttle = IF moved.slice = 0 THEN delay(e.throttle) ELSE e.throttle
        /\ f.start = moved.start /\ f.start_date = moved.start_date
        /\ f.slices = moved.slices /\ SameTimer(f, moved)
      BY <1>4, <1>6, <2>1 DEF End, SameTimer
  <2>3. f.count + f.slice = e.count + e.slice
      BY <1>2, <1>4, <2>2
  <2>4. /\ f.throttle.slice_bytes_count = e.throttle.slice_bytes_count
        /\ f.throttle.slice_duration = e.throttle.slice_duration
        /\ f.throttle.next_slice_start = e.throttle.next_slice_start
      BY <1>6, <2>2
  <2>5. OnSchedule(f, conf, bandwidth, now)
      BY <1>1, <1>4, <2>2, <2>3, <2>4 DEF OnSchedule, Started
  <2>6. f.throttle.waiting <=> f.slice = 0
    <3>1. ~e.throttle.waiting
        BY <1>1, <1>2 DEF SlicesNeeded
    <3>2. CASE moved.slice = 0
        BY <1>6, <2>2, <3>2
    <3>3. CASE moved.slice # 0
        BY <2>2, <3>1, <3>3
    <3> QED
        BY <3>2, <3>3
  <2>7. f.count < test.size
      BY <1>3, <1>4, <1>9, <2>2
  <2>8. SlicesNeeded(f, conf, bandwidth, test.size)
      BY <1>1, <1>4, <2>2, <2>3, <2>6, <2>7 DEF SlicesNeeded
  <2>9. offset = 0 => Dated(f, now)
      BY <1>1, <1>4, <2>2 DEF Dated, Started
  <2> QED
      BY <1>4, <1>9, <2>2, <2>5, <2>8, <2>9 DEF EndInv, SameTimer
<1> QED
    BY <1>8, <1>9

\* The end of a session, in whatever way, is not a matter of its schedule.
LEMMA EndKeeps ==
    ASSUME NEW conf, NEW bandwidth, NEW size, NEW time, NEW ahead,
           NEW e, EndInv(e, conf, bandwidth, size, time, ahead),
           NEW status \in {"timeout", "disconnected", "complete"},
           status = "complete" => e.status = "waiting",
           e.status # "absent",
           NEW f, f = [e EXCEPT !.status = status]
    PROVE  /\ EndInv(f, conf, bandwidth, size, time, ahead)
           /\ f.status = status
           /\ f.count = e.count /\ f.slice = e.slice /\ f.slices = e.slices
           /\ f.start = e.start /\ SameTimer(f, e)
<1>1. /\ e \in End /\ OnSchedule(e, conf, bandwidth, time)
      /\ SlicesNeeded(e, conf, bandwidth, size)
      /\ ahead = 0 => Dated(e, time)
    BY DEF EndInv
<1>2. /\ f \in End /\ f.status = status /\ f.throttle = e.throttle
      /\ f.count = e.count /\ f.slice = e.slice /\ f.slices = e.slices
      /\ f.start = e.start /\ SameTimer(f, e) /\ f.start_date = e.start_date
      /\ f.finish = e.finish /\ f.duration = e.duration
    BY <1>1 DEF End, SameTimer
<1>3. OnSchedule(f, conf, bandwidth, time)
    BY <1>1, <1>2 DEF OnSchedule, Started
<1>4. SlicesNeeded(f, conf, bandwidth, size)
    BY <1>1, <1>2 DEF SlicesNeeded
<1>5. ahead = 0 => Dated(f, time)
    BY <1>1, <1>2 DEF Dated, Started
<1> QED
    BY <1>2, <1>3, <1>4, <1>5 DEF EndInv

\* Nor is whether its timer has expired.
LEMMA ExpiredKeeps ==
    ASSUME NEW conf, NEW bandwidth, NEW size, NEW time,
           NEW e, EndInv(e, conf, bandwidth, size, time, 0),
           NEW over \in BOOLEAN, NEW ahead,
           NEW f, f = [e EXCEPT !.expired = over]
    PROVE  /\ EndInv(f, conf, bandwidth, size, time, ahead)
           /\ f.status = e.status /\ f.start = e.start /\ f.throttle = e.throttle
           /\ f.count = e.count /\ f.slice = e.slice /\ f.slices = e.slices
           /\ f.deadline = e.deadline /\ f.launched = e.launched /\ f.ahead = e.ahead
           /\ f.expired = over
<1>1. /\ e \in End /\ OnSchedule(e, conf, bandwidth, time)
      /\ SlicesNeeded(e, conf, bandwidth, size)
      /\ Dated(e, time)
    BY DEF EndInv
<1>2. /\ f \in End /\ f.status = e.status /\ f.throttle = e.throttle
      /\ f.count = e.count /\ f.slice = e.slice /\ f.slices = e.slices
      /\ f.start = e.start /\ f.start_date = e.start_date
      /\ f.finish = e.finish /\ f.duration = e.duration
      /\ f.deadline = e.deadline /\ f.launched = e.launched /\ f.ahead = e.ahead
      /\ f.expired = over
    BY <1>1 DEF End
<1>3. OnSchedule(f, conf, bandwidth, time)
    BY <1>1, <1>2 DEF OnSchedule, Started
<1>4. SlicesNeeded(f, conf, bandwidth, size)
    BY <1>1, <1>2 DEF SlicesNeeded
<1>5. Dated(f, time)
    BY <1>1, <1>2 DEF Dated, Started
<1> QED
    BY <1>2, <1>3, <1>4, <1>5 DEF EndInv

\* Time passes, and nothing that has happened happens later.
LEMMA TickKeeps ==
    ASSUME NEW conf \in Configuration, NEW bandwidth \in Nat \ {0}, NEW size,
           NEW time \in Nat, NEW ahead,
           NEW e, EndInv(e, conf, bandwidth, size, time, ahead)
    PROVE  EndInv(e, conf, bandwidth, size, time + 1, ahead)
<1>1. /\ e \in End /\ OnSchedule(e, conf, bandwidth, time)
      /\ SlicesNeeded(e, conf, bandwidth, size)
      /\ ahead = 0 => Dated(e, time)
    BY DEF EndInv
<1>2. e.start \in Nat /\ e.finish \in Nat /\ e.slices \in Nat /\ time <= time + 1
    BY <1>1, EndType
<1>3. e.start + (e.slices - 1) * slice_time(conf) \in Int
  <2>1. slice_time(conf) \in Nat
    <3>1. conf.sampling_frequency \in Nat \ {0}
        BY DEF Configuration
    <3> QED
        BY <3>1, SecondAssumption, QuotientBound DEF slice_time, to_slice_duration
  <2> DEFINE d == slice_time(conf)
             k == e.slices - 1
  <2>2. d \in Nat /\ k \in Int
      BY <2>1, <1>2
  <2> HIDE DEF d, k
  <2>3. k * d \in Int
      BY <2>2
  <2> QED
      BY <2>3, <1>2 DEF d, k
<1>4. OnSchedule(e, conf, bandwidth, time + 1)
  <2> DEFINE past == e.start + (e.slices - 1) * slice_time(conf)
  <2>1. past \in Int
      BY <1>3
  <2>2. /\ Started(e) => e.start <= time
        /\ Started(e) /\ e.slices > 0 => past <= time
      BY <1>1 DEF OnSchedule
  <2> HIDE DEF past
  <2>3. /\ Started(e) => e.start <= time + 1
        /\ Started(e) /\ e.slices > 0 => past <= time + 1
      BY <1>2, <2>1, <2>2
  <2> QED
      BY <1>1, <2>3 DEF OnSchedule, past
<1>5. ahead = 0 => Dated(e, time + 1)
    BY <1>1, <1>2 DEF Dated
<1> QED
    BY <1>1, <1>4, <1>5 DEF EndInv

-----------------------------------------------------------------------------
(* What each action keeps of both ends, and what it changes.               *)

EndsInv ==
    /\ now \in Nat /\ test \in Tests /\ offset \in test.adjustments \cup {0}
    /\ EndInv(sender, test.sender, test.sender.send_bandwidth, test.size, now, offset)
    /\ EndInv(receiver, test.receiver, test.receiver.receive_bandwidth, test.size,
              now, offset)

TimersInv == Timed(sender, test.sender) /\ Timed(receiver, test.receiver)

\* The types that the lemmas on one end require.
LEMMA EndsType ==
    ASSUME EndsInv
    PROVE  /\ now \in Nat /\ offset \in Int /\ test \in Tests
           /\ test.sender \in Configuration /\ test.receiver \in Configuration
           /\ test.size \in Nat \ {0} /\ test.prompt \in BOOLEAN
           /\ test.sender.send_bandwidth \in Nat \ {0}
           /\ test.receiver.receive_bandwidth \in Nat \ {0}
           /\ sender \in End /\ receiver \in End
           /\ sender.count \in Nat /\ receiver.count \in Nat
           /\ ROOM - in_flight \in Int /\ in_flight \in Int
<1>1. test \in Tests /\ sender \in End /\ receiver \in End /\ now \in Nat
    BY DEF EndsInv, EndInv
<1>2. offset \in Int
    BY PairAssumption DEF EndsInv
<1>3. sender.count \in Nat /\ receiver.count \in Nat
    BY <1>1, EndType
<1>4. ROOM - in_flight \in Int /\ in_flight \in Int
    BY <1>3, PairAssumption DEF in_flight
<1> QED
    BY <1>1, <1>2, <1>3, <1>4, TestType

\* An end moves what its slice and the connection allow.
LEMMA MayMoveType ==
    ASSUME NEW e \in End, NEW most \in Int, NEW n \in MayMove(e, most)
    PROVE  e.status = "transferring" /\ n \in 1 .. e.slice /\ n <= most
<1>1. e.status = "transferring" /\ n \in 1 .. Least(e.slice, most)
    BY DEF MayMove
<1>2. e.slice \in Nat
    BY EndType
<1> QED
    BY <1>1, <1>2 DEF Least

\* The sender is launched.
LEMMA LaunchesSenderEffect ==
    ASSUME EndsInv, LaunchesSender
    PROVE  /\ EndsInv'
           /\ UNCHANGED <<now, offset, test, receiver>>
           /\ sender.status = "absent" /\ sender'.status = "connecting"
           /\ sender.count = 0
           /\ sender'.count = 0 /\ sender'.slice = 0 /\ sender'.slices = 0
           /\ sender'.deadline
                = now + offset + estimate_test_duration(test.sender, test.size)
           /\ sender'.launched = now /\ sender'.ahead = offset
           /\ sender'.expired = FALSE
<1> DEFINE s == launch(test.sender, test.sender.send_bandwidth, test.size)
<1>1. /\ sender' = s /\ sender.status = "absent"
      /\ UNCHANGED <<now, offset, test, receiver>>
    BY DEF LaunchesSender
<1>2. /\ "connecting" \in {"absent", "connecting"}
      /\ test.sender \in Configuration /\ test.sender.send_bandwidth \in Nat \ {0}
      /\ test.size \in Nat \ {0} /\ now \in Nat /\ offset \in Int
      /\ Constructed(s, test.sender, test.sender.send_bandwidth, test.size, "connecting")
    BY EndsType DEF Constructed
<1> HIDE DEF s
<1>3. /\ EndInv(s, test.sender, test.sender.send_bandwidth, test.size, now, offset)
      /\ s.status = "connecting" /\ s.count = 0 /\ s.slice = 0 /\ s.slices = 0
  <2>1. EndInv(s, test.sender, test.sender.send_bandwidth, test.size, now, offset)
      BY <1>2, LaunchKeeps
  <2>2. s.status = "connecting" /\ s.count = 0 /\ s.slice = 0 /\ s.slices = 0
      BY <1>2 DEF s, launch
  <2> QED
      BY <2>1, <2>2
<1>4. /\ s.deadline = now + offset + estimate_test_duration(test.sender, test.size)
      /\ s.launched = now /\ s.ahead = offset /\ s.expired = FALSE
    BY DEF s, launch, universal_time
<1>5. EndsInv'
    BY <1>1, <1>3 DEF EndsInv
<1>6. sender.count = 0
  <2>1. /\ sender.count \in Nat /\ sender.slice \in Nat
        /\ grant(test.sender, test.sender.send_bandwidth) \in Nat
      BY EndsType, EndType, ConfigurationType
  <2>2. OnSchedule(sender, test.sender, test.sender.send_bandwidth, now)
      BY DEF EndsInv, EndInv
  <2>3. sender.count + sender.slice
            <= 0 * grant(test.sender, test.sender.send_bandwidth)
      BY <1>1, <2>2 DEF OnSchedule
  <2>4. 0 * grant(test.sender, test.sender.send_bandwidth) = 0
      BY <2>1, OneMore
  <2> QED
      BY <2>1, <2>3, <2>4
<1> QED
    BY <1>1, <1>3, <1>4, <1>5, <1>6

\* The sender starts.
LEMMA SenderStartsEffect ==
    ASSUME EndsInv, SenderStarts
    PROVE  /\ EndsInv'
           /\ UNCHANGED <<now, offset, test, receiver>>
           /\ sender.status = "connecting" /\ sender.status # "absent"
           /\ sender.count = 0 /\ sender.slice = 0 /\ sender.slices = 0
           /\ sender'.status = "transferring" /\ sender'.start = now
           /\ sender'.count = 0 /\ sender'.slice = 0 /\ sender'.slices = 0
           /\ SameTimer(sender', sender)
<1>1. /\ sender.status = "connecting" /\ sender.status # "absent"
      /\ sender' = start_transfer(sender)
      /\ UNCHANGED <<now, offset, test, receiver>>
    BY DEF SenderStarts, Connected
<1>2. EndInv(sender, test.sender, test.sender.send_bandwidth, test.size, now, offset)
    BY DEF EndsInv
<1>3. /\ EndInv(sender', test.sender, test.sender.send_bandwidth, test.size, now, offset)
      /\ sender'.status = "transferring" /\ sender'.start = now
      /\ sender'.count = 0 /\ sender'.slice = 0 /\ sender'.slices = 0
      /\ SameTimer(sender', sender)
      /\ sender.count = 0 /\ sender.slice = 0 /\ sender.slices = 0
    BY <1>1, <1>2, EndsType, StartKeeps
<1>4. EndsInv'
    BY <1>1, <1>3 DEF EndsInv
<1> QED
    BY <1>1, <1>3, <1>4

\* The receiver starts.
LEMMA ReceiverStartsEffect ==
    ASSUME EndsInv, ReceiverStarts
    PROVE  /\ EndsInv'
           /\ UNCHANGED <<now, offset, test, sender>>
           /\ receiver.status = "connecting" /\ sender.status # "absent"
           /\ receiver.count = 0 /\ receiver.slice = 0 /\ receiver.slices = 0
           /\ receiver'.status = "transferring" /\ receiver'.start = now
           /\ receiver'.count = 0 /\ receiver'.slice = 0 /\ receiver'.slices = 0
           /\ SameTimer(receiver', receiver)
<1>1. /\ receiver.status = "connecting" /\ sender.status # "absent"
      /\ receiver' = start_transfer(receiver)
      /\ UNCHANGED <<now, offset, test, sender>>
    BY DEF ReceiverStarts, Connected
<1>2. EndInv(receiver, test.receiver, test.receiver.receive_bandwidth, test.size, now, offset)
    BY DEF EndsInv
<1>3. /\ EndInv(receiver', test.receiver, test.receiver.receive_bandwidth, test.size, now, offset)
      /\ receiver'.status = "transferring" /\ receiver'.start = now
      /\ receiver'.count = 0 /\ receiver'.slice = 0 /\ receiver'.slices = 0
      /\ SameTimer(receiver', receiver)
      /\ receiver.count = 0 /\ receiver.slice = 0 /\ receiver.slices = 0
    BY <1>1, <1>2, EndsType, StartKeeps
<1>4. EndsInv'
    BY <1>1, <1>3 DEF EndsInv
<1> QED
    BY <1>1, <1>3, <1>4

\* The sender takes a slice.
LEMMA SenderTakesSliceEffect ==
    ASSUME EndsInv, SenderTakesSlice
    PROVE  /\ EndsInv'
           /\ UNCHANGED <<now, offset, test, receiver>>
           /\ sender.status = "transferring" /\ sender.slice = 0 /\ sender.count < test.size
           /\ sender'.status = "transferring" /\ sender'.start = sender.start
           /\ sender'.count = sender.count /\ sender'.slices = sender.slices + 1
           /\ sender'.slice \in Nat
           /\ sender'.slice <= test.size - sender.count
           /\ grant(test.sender, test.sender.send_bandwidth) > 0 => sender'.slice > 0
           /\ SameTimer(sender', sender)
<1> DEFINE most == test.size - sender.count
<1>1. /\ NextSlice(sender) /\ sender' = take_slice(sender, most)
      /\ UNCHANGED <<now, offset, test, receiver>>
    BY DEF SenderTakesSlice
<1>2. EndInv(sender, test.sender, test.sender.send_bandwidth, test.size, now, offset)
    BY DEF EndsInv
<1>3. most \in Nat
      /\ most \in {test.size - sender.count,
                   grant(test.sender, test.sender.send_bandwidth)}
  <2>1. sender.count < test.size
      BY <1>1, <1>2 DEF EndInv, SlicesNeeded, NextSlice
  <2> QED
      BY <2>1, EndsType
<1> HIDE DEF most
<1>4. /\ EndInv(sender', test.sender, test.sender.send_bandwidth, test.size, now, offset)
      /\ sender.status = "transferring" /\ sender.slice = 0 /\ sender.count < test.size
      /\ sender'.status = "transferring" /\ sender'.start = sender.start
      /\ sender'.count = sender.count /\ sender'.slices = sender.slices + 1
      /\ sender'.slice \in Nat /\ sender'.slice <= most
      /\ grant(test.sender, test.sender.send_bandwidth) > 0 => sender'.slice > 0
      /\ SameTimer(sender', sender)
    BY <1>1, <1>2, <1>3, EndsType, TakeKeeps
<1>5. EndsInv'
    BY <1>1, <1>4 DEF EndsInv
<1> QED
    BY <1>1, <1>4, <1>5 DEF most

\* The receiver takes a slice.
LEMMA ReceiverTakesSliceEffect ==
    ASSUME EndsInv, ReceiverTakesSlice
    PROVE  /\ EndsInv'
           /\ UNCHANGED <<now, offset, test, sender>>
           /\ receiver.status = "transferring" /\ receiver.slice = 0 /\ receiver.count < test.size
           /\ receiver'.status = "transferring" /\ receiver'.start = receiver.start
           /\ receiver'.count = receiver.count /\ receiver'.slices = receiver.slices + 1
           /\ receiver'.slice \in Nat
           /\ receiver'.slice <= receiver.throttle.slice_bytes_count
           /\ grant(test.receiver, test.receiver.receive_bandwidth) > 0 => receiver'.slice > 0
           /\ SameTimer(receiver', receiver)
<1> DEFINE most == receiver.throttle.slice_bytes_count
<1>1. /\ NextSlice(receiver) /\ receiver' = take_slice(receiver, most)
      /\ UNCHANGED <<now, offset, test, sender>>
    BY DEF ReceiverTakesSlice
<1>2. EndInv(receiver, test.receiver, test.receiver.receive_bandwidth, test.size, now, offset)
    BY DEF EndsInv
<1>3. most \in Nat
      /\ most \in {test.size - receiver.count,
                   grant(test.receiver, test.receiver.receive_bandwidth)}
  <2>1. most = grant(test.receiver, test.receiver.receive_bandwidth)
      BY <1>2 DEF EndInv, OnSchedule
  <2> QED
      BY <2>1, EndsType, ConfigurationType
<1> HIDE DEF most
<1>4. /\ EndInv(receiver', test.receiver, test.receiver.receive_bandwidth, test.size, now, offset)
      /\ receiver.status = "transferring" /\ receiver.slice = 0 /\ receiver.count < test.size
      /\ receiver'.status = "transferring" /\ receiver'.start = receiver.start
      /\ receiver'.count = receiver.count /\ receiver'.slices = receiver.slices + 1
      /\ receiver'.slice \in Nat /\ receiver'.slice <= most
      /\ grant(test.receiver, test.receiver.receive_bandwidth) > 0 => receiver'.slice > 0
      /\ SameTimer(receiver', receiver)
    BY <1>1, <1>2, <1>3, EndsType, TakeKeeps
<1>5. EndsInv'
    BY <1>1, <1>4 DEF EndsInv
<1> QED
    BY <1>1, <1>4, <1>5 DEF most

\* The sender moves bytes.
LEMMA SendsEffect ==
    ASSUME EndsInv, Sends
    PROVE  /\ EndsInv'
           /\ UNCHANGED <<now, offset, test, receiver>>
           /\ sender.status = "transferring"
           /\ \E n \in 1 .. sender.slice :
                /\ n <= ROOM - in_flight
                /\ sender'.count = sender.count + n /\ sender'.slice = sender.slice - n
                /\ sender'.status = IF sender.count + n >= test.size
                                   THEN "waiting" ELSE "transferring"
           /\ sender'.slices = sender.slices /\ sender'.start = sender.start
           /\ SameTimer(sender', sender)
<1>1. PICK n \in MayMove(sender, ROOM - in_flight) : sender' = transfer(sender, n)
    BY DEF Sends
<1>2. UNCHANGED <<now, offset, test, receiver>>
    BY DEF Sends
<1>3. EndInv(sender, test.sender, test.sender.send_bandwidth, test.size, now, offset)
    BY DEF EndsInv
<1>4. sender.status = "transferring" /\ n \in 1 .. sender.slice /\ n <= ROOM - in_flight
    BY <1>1, EndsType, MayMoveType
<1>5. /\ EndInv(sender', test.sender, test.sender.send_bandwidth, test.size, now, offset)
      /\ sender'.status = IF sender.count + n >= test.size THEN "waiting" ELSE "transferring"
      /\ sender'.start = sender.start /\ SameTimer(sender', sender)
      /\ sender'.count = sender.count + n /\ sender'.slice = sender.slice - n
      /\ sender'.slices = sender.slices
    BY <1>1, <1>3, <1>4, EndsType, TransferKeeps
<1>6. EndsInv'
    BY <1>2, <1>5 DEF EndsInv
<1> QED
    BY <1>2, <1>4, <1>5, <1>6

\* The receiver moves bytes.
LEMMA ReceivesEffect ==
    ASSUME EndsInv, Receives
    PROVE  /\ EndsInv'
           /\ UNCHANGED <<now, offset, test, sender>>
           /\ receiver.status = "transferring"
           /\ \E n \in 1 .. receiver.slice :
                /\ n <= in_flight
                /\ receiver'.count = receiver.count + n /\ receiver'.slice = receiver.slice - n
                /\ receiver'.status = IF receiver.count + n >= test.size
                                   THEN "waiting" ELSE "transferring"
           /\ receiver'.slices = receiver.slices /\ receiver'.start = receiver.start
           /\ SameTimer(receiver', receiver)
<1>1. PICK n \in MayMove(receiver, in_flight) : receiver' = transfer(receiver, n)
    BY DEF Receives
<1>2. UNCHANGED <<now, offset, test, sender>>
    BY DEF Receives
<1>3. EndInv(receiver, test.receiver, test.receiver.receive_bandwidth, test.size, now, offset)
    BY DEF EndsInv
<1>4. receiver.status = "transferring" /\ n \in 1 .. receiver.slice /\ n <= in_flight
    BY <1>1, EndsType, MayMoveType
<1>5. /\ EndInv(receiver', test.receiver, test.receiver.receive_bandwidth, test.size, now, offset)
      /\ receiver'.status = IF receiver.count + n >= test.size THEN "waiting" ELSE "transferring"
      /\ receiver'.start = receiver.start /\ SameTimer(receiver', receiver)
      /\ receiver'.count = receiver.count + n /\ receiver'.slice = receiver.slice - n
      /\ receiver'.slices = receiver.slices
    BY <1>1, <1>3, <1>4, EndsType, TransferKeeps
<1>6. EndsInv'
    BY <1>2, <1>5 DEF EndsInv
<1> QED
    BY <1>2, <1>4, <1>5, <1>6

\* The sender is over, in whatever way.
LEMMA SenderOver ==
    ASSUME EndsInv, NEW status \in {"timeout", "disconnected", "complete"},
           sender' = [sender EXCEPT !.status = status],
           UNCHANGED <<now, offset, test, receiver>>,
           sender.status # "absent", status = "complete" => sender.status = "waiting"
    PROVE  /\ EndsInv'
           /\ sender'.status = status
           /\ sender'.count = sender.count /\ sender'.slice = sender.slice
           /\ sender'.slices = sender.slices /\ sender'.start = sender.start
           /\ SameTimer(sender', sender)
<1>1. EndInv(sender, test.sender, test.sender.send_bandwidth, test.size, now, offset)
    BY DEF EndsInv
<1>2. /\ EndInv(sender', test.sender, test.sender.send_bandwidth, test.size, now, offset)
      /\ sender'.status = status
      /\ sender'.count = sender.count /\ sender'.slice = sender.slice
      /\ sender'.slices = sender.slices /\ sender'.start = sender.start
      /\ SameTimer(sender', sender)
    BY <1>1, EndKeeps
<1>3. EndsInv'
    BY <1>2 DEF EndsInv
<1> QED
    BY <1>2, <1>3

\* The receiver is over, in whatever way.
LEMMA ReceiverOver ==
    ASSUME EndsInv, NEW status \in {"timeout", "disconnected", "complete"},
           receiver' = [receiver EXCEPT !.status = status],
           UNCHANGED <<now, offset, test, sender>>,
           receiver.status # "absent", status = "complete" => receiver.status = "waiting"
    PROVE  /\ EndsInv'
           /\ receiver'.status = status
           /\ receiver'.count = receiver.count /\ receiver'.slice = receiver.slice
           /\ receiver'.slices = receiver.slices /\ receiver'.start = receiver.start
           /\ SameTimer(receiver', receiver)
<1>1. EndInv(receiver, test.receiver, test.receiver.receive_bandwidth, test.size, now, offset)
    BY DEF EndsInv
<1>2. /\ EndInv(receiver', test.receiver, test.receiver.receive_bandwidth, test.size, now, offset)
      /\ receiver'.status = status
      /\ receiver'.count = receiver.count /\ receiver'.slice = receiver.slice
      /\ receiver'.slices = receiver.slices /\ receiver'.start = receiver.start
      /\ SameTimer(receiver', receiver)
    BY <1>1, EndKeeps
<1>3. EndsInv'
    BY <1>2 DEF EndsInv
<1> QED
    BY <1>2, <1>3

\* The actions that end a session, with what they require.
SenderIsOver(status) ==
    /\ status \in {"timeout", "disconnected", "complete"}
    /\ sender' = [sender EXCEPT !.status = status]
    /\ UNCHANGED <<now, offset, test, receiver>>
    /\ status = "complete" => sender.status = "waiting" /\ receiver.status = "complete"
    /\ status # "complete" => UnderWay(sender)
    /\ status = "disconnected" => receiver.status = "timeout"
    /\ status = "timeout" => Expires(sender)

ReceiverIsOver(status) ==
    /\ status \in {"timeout", "disconnected", "complete"}
    /\ receiver' = [receiver EXCEPT !.status = status]
    /\ UNCHANGED <<now, offset, test, sender>>
    /\ status = "complete" => receiver.status = "waiting" /\ sender.status = "waiting"
    /\ status # "complete" => UnderWay(receiver)
    /\ status = "disconnected" => sender.status = "timeout"
    /\ status = "timeout" => Expires(receiver)

\* One of the actions that end the session of the sender,
LEMMA SenderOverActions ==
    ASSUME SenderEnds \/ SenderTimesOut \/ SenderDisconnected
    PROVE  \E status : SenderIsOver(status)
<1>1. CASE SenderEnds
  <2>1. SenderIsOver("complete")
      BY <1>1 DEF SenderEnds, SenderIsOver
  <2> QED
      BY <2>1
<1>2. CASE SenderTimesOut
  <2>1. SenderIsOver("timeout")
      BY <1>2 DEF SenderTimesOut, Expires, SenderIsOver
  <2> QED
      BY <2>1
<1>3. CASE SenderDisconnected
  <2>1. SenderIsOver("disconnected")
      BY <1>3 DEF SenderDisconnected, Loses, SenderIsOver
  <2> QED
      BY <2>1
<1> QED
    BY <1>1, <1>2, <1>3

\* and of the receiver.
LEMMA ReceiverOverActions ==
    ASSUME ReceiverEnds \/ ReceiverTimesOut \/ ReceiverDisconnected
    PROVE  \E status : ReceiverIsOver(status)
<1>1. CASE ReceiverEnds
  <2>1. ReceiverIsOver("complete")
      BY <1>1 DEF ReceiverEnds, ReceiverIsOver
  <2> QED
      BY <2>1
<1>2. CASE ReceiverTimesOut
  <2>1. ReceiverIsOver("timeout")
      BY <1>2 DEF ReceiverTimesOut, Expires, ReceiverIsOver
  <2> QED
      BY <2>1
<1>3. CASE ReceiverDisconnected
  <2>1. ReceiverIsOver("disconnected")
      BY <1>3 DEF ReceiverDisconnected, Loses, ReceiverIsOver
  <2> QED
      BY <2>1
<1> QED
    BY <1>1, <1>2, <1>3

\* What they keep.
LEMMA SenderOverEffect ==
    ASSUME EndsInv, NEW status, SenderIsOver(status)
    PROVE  /\ EndsInv'
           /\ sender'.status = status
           /\ sender'.count = sender.count /\ sender'.slice = sender.slice
           /\ sender'.slices = sender.slices /\ sender'.start = sender.start
           /\ SameTimer(sender', sender)
<1>1. /\ status \in {"timeout", "disconnected", "complete"}
      /\ sender' = [sender EXCEPT !.status = status]
      /\ UNCHANGED <<now, offset, test, receiver>>
      /\ sender.status # "absent" /\ (status = "complete" => sender.status = "waiting")
    BY DEF SenderIsOver, UnderWay
<1> QED
    BY <1>1, SenderOver

\* The same of the receiver.
LEMMA ReceiverOverEffect ==
    ASSUME EndsInv, NEW status, ReceiverIsOver(status)
    PROVE  /\ EndsInv'
           /\ receiver'.status = status
           /\ receiver'.count = receiver.count /\ receiver'.slice = receiver.slice
           /\ receiver'.slices = receiver.slices /\ receiver'.start = receiver.start
           /\ SameTimer(receiver', receiver)
<1>1. /\ status \in {"timeout", "disconnected", "complete"}
      /\ receiver' = [receiver EXCEPT !.status = status]
      /\ UNCHANGED <<now, offset, test, sender>>
      /\ receiver.status # "absent" /\ (status = "complete" => receiver.status = "waiting")
    BY DEF ReceiverIsOver, UnderWay
<1> QED
    BY <1>1, ReceiverOver

\* Time passes for both.
LEMMA TickEffect ==
    ASSUME EndsInv, Tick
    PROVE  EndsInv'
<1>1. now' = now + 1 /\ UNCHANGED <<offset, test, sender, receiver>>
    BY DEF Tick
<1>2. /\ EndInv(sender, test.sender, test.sender.send_bandwidth, test.size, now, offset)
      /\ EndInv(receiver, test.receiver, test.receiver.receive_bandwidth, test.size,
                now, offset)
    BY DEF EndsInv
<1>3. EndInv(sender, test.sender, test.sender.send_bandwidth, test.size, now + 1, offset)
    BY <1>2, EndsType, TickKeeps
<1>4. EndInv(receiver, test.receiver, test.receiver.receive_bandwidth, test.size,
             now + 1, offset)
    BY <1>2, EndsType, TickKeeps
<1>5. now + 1 \in Nat
    BY EndsType
<1> QED
    BY <1>1, <1>3, <1>4, <1>5 DEF EndsInv

\* The clock of the wall is not that of the throttles.
LEMMA SetsClockEffect ==
    ASSUME EndsInv, SetsClock
    PROVE  /\ EndsInv' /\ offset = 0 /\ UNCHANGED <<now, test>>
           /\ sender'.status = sender.status /\ sender'.start = sender.start
           /\ sender'.count = sender.count /\ sender'.slice = sender.slice
           /\ sender'.slices = sender.slices /\ sender'.deadline = sender.deadline
           /\ sender'.launched = sender.launched /\ sender'.ahead = sender.ahead
           /\ sender'.expired = Expires(sender)
           /\ receiver'.status = receiver.status /\ receiver'.start = receiver.start
           /\ receiver'.count = receiver.count /\ receiver'.slice = receiver.slice
           /\ receiver'.slices = receiver.slices
           /\ receiver'.deadline = receiver.deadline
           /\ receiver'.launched = receiver.launched /\ receiver'.ahead = receiver.ahead
           /\ receiver'.expired = Expires(receiver)
<1>1. /\ offset = 0 /\ offset' \in test.adjustments
      /\ UNCHANGED <<now, test>>
      /\ sender' = [sender EXCEPT !.expired = Expires(sender)]
      /\ receiver' = [receiver EXCEPT !.expired = Expires(receiver)]
    BY DEF SetsClock
<1>2. Expires(sender) \in BOOLEAN /\ Expires(receiver) \in BOOLEAN
    BY DEF Expires, UnderWay
<1>3. /\ EndInv(sender, test.sender, test.sender.send_bandwidth, test.size, now, 0)
      /\ EndInv(receiver, test.receiver, test.receiver.receive_bandwidth, test.size,
                now, 0)
    BY <1>1 DEF EndsInv
<1>4. /\ EndInv(sender', test.sender, test.sender.send_bandwidth, test.size, now, offset')
      /\ sender'.status = sender.status /\ sender'.start = sender.start
      /\ sender'.count = sender.count /\ sender'.slice = sender.slice
      /\ sender'.slices = sender.slices /\ sender'.deadline = sender.deadline
      /\ sender'.launched = sender.launched /\ sender'.ahead = sender.ahead
      /\ sender'.expired = Expires(sender)
    BY <1>1, <1>2, <1>3, ExpiredKeeps
<1>5. /\ EndInv(receiver', test.receiver, test.receiver.receive_bandwidth, test.size,
                now, offset')
      /\ receiver'.status = receiver.status /\ receiver'.start = receiver.start
      /\ receiver'.count = receiver.count /\ receiver'.slice = receiver.slice
      /\ receiver'.slices = receiver.slices /\ receiver'.deadline = receiver.deadline
      /\ receiver'.launched = receiver.launched /\ receiver'.ahead = receiver.ahead
      /\ receiver'.expired = Expires(receiver)
    BY <1>1, <1>2, <1>3, ExpiredKeeps
<1>6. EndsInv'
    BY <1>1, <1>4, <1>5 DEF EndsInv
<1> QED
    BY <1>1, <1>4, <1>5, <1>6

\* Both ends are as their construction leaves them.
LEMMA EndsInit == Init => EndsInv
<1> SUFFICES ASSUME Init PROVE EndsInv
    OBVIOUS
<1>1. /\ now = 0 /\ offset = 0 /\ test \in Tests
      /\ sender = [launch(test.sender, test.sender.send_bandwidth, test.size)
                      EXCEPT !.status = "absent"]
      /\ receiver = launch(test.receiver, test.receiver.receive_bandwidth, test.size)
    BY DEF Init
<1>2. "absent" \in {"absent", "connecting"} /\ "connecting" \in {"absent", "connecting"}
    OBVIOUS
<1>3. /\ now \in Nat /\ offset \in Int
      /\ Constructed(sender, test.sender, test.sender.send_bandwidth, test.size, "absent")
      /\ Constructed(receiver, test.receiver, test.receiver.receive_bandwidth, test.size,
                     "connecting")
    BY <1>1 DEF Constructed
<1>4. EndInv(sender, test.sender, test.sender.send_bandwidth, test.size, now, offset)
    BY <1>1, <1>2, <1>3, TestType, LaunchKeeps
<1>5. EndInv(receiver, test.receiver, test.receiver.receive_bandwidth, test.size,
             now, offset)
    BY <1>1, <1>2, <1>3, TestType, LaunchKeeps
<1> QED
    BY <1>1, <1>4, <1>5 DEF EndsInv

\* A step of either end keeps both on their schedules.
LEMMA EndsStep == EndsInv /\ [Next]_vars => EndsInv'
<1> SUFFICES ASSUME EndsInv, [Next]_vars PROVE EndsInv'
    OBVIOUS
<1>1. CASE SenderEnds \/ SenderTimesOut \/ SenderDisconnected
    BY <1>1, SenderOverActions, SenderOverEffect
<1>2. CASE ReceiverEnds \/ ReceiverTimesOut \/ ReceiverDisconnected
    BY <1>2, ReceiverOverActions, ReceiverOverEffect
<1>3. CASE UNCHANGED vars
    BY <1>3 DEF vars, EndsInv
<1> QED
    BY <1>1, <1>2, <1>3, LaunchesSenderEffect, SenderStartsEffect, ReceiverStartsEffect,
       SenderTakesSliceEffect, ReceiverTakesSliceEffect, SendsEffect, ReceivesEffect,
       TickEffect, SetsClockEffect DEF Next

\* What the status of one end says of the other,
LEMMA ConnectionInit == Init => Connection
<1> SUFFICES ASSUME Init PROVE Connection
    OBVIOUS
<1>1. test \in Tests /\ now = 0
    BY DEF Init
<1>2. /\ test.sender \in Configuration /\ test.receiver \in Configuration
      /\ test.size \in Nat \ {0}
      /\ test.sender.send_bandwidth \in Nat \ {0}
      /\ test.receiver.receive_bandwidth \in Nat \ {0}
    BY <1>1, TestType
<1>3. /\ sender.count = 0 /\ sender.slice = 0 /\ sender.status = "absent"
      /\ receiver.count = 0 /\ receiver.status = "connecting"
      /\ receiver.launched = 0 /\ receiver.ahead = 0
    BY DEF Init, launch
<1> QED
    BY <1>1, <1>2, <1>3, PairAssumption DEF Connection, in_flight

\* and what is in flight, are kept by every step.
LEMMA ConnectionStep == EndsInv /\ Connection /\ [Next]_vars => Connection'
<1> SUFFICES ASSUME EndsInv, Connection, [Next]_vars PROVE Connection'
    OBVIOUS
<1>t. /\ sender.count \in Nat /\ receiver.count \in Nat /\ sender.slice \in Nat
      /\ receiver.slice \in Nat /\ ROOM \in Nat /\ test.size \in Nat
    BY EndsType, EndType, PairAssumption
<1>1. CASE LaunchesSender
    BY <1>1, <1>t, LaunchesSenderEffect DEF Connection, in_flight, SameTimer
<1>2. CASE SenderStarts
    BY <1>2, <1>t, SenderStartsEffect DEF Connection, in_flight, SameTimer
<1>3. CASE ReceiverStarts
    BY <1>3, <1>t, ReceiverStartsEffect DEF Connection, in_flight, SameTimer
<1>4. CASE SenderTakesSlice
    BY <1>4, <1>t, SenderTakesSliceEffect DEF Connection, in_flight, SameTimer
<1>5. CASE ReceiverTakesSlice
    BY <1>5, <1>t, ReceiverTakesSliceEffect DEF Connection, in_flight, SameTimer
<1>6. CASE Sends
    BY <1>6, <1>t, SendsEffect DEF Connection, in_flight, SameTimer
<1>7. CASE Receives
    BY <1>7, <1>t, ReceivesEffect DEF Connection, in_flight, SameTimer
<1>8. CASE SenderEnds \/ SenderTimesOut \/ SenderDisconnected
  <2>1. PICK status : SenderIsOver(status)
      BY <1>8, SenderOverActions
  <2> QED
      BY <2>1, SenderOverEffect
         DEF SenderIsOver, UnderWay, Connection, in_flight, SameTimer
<1>9. CASE ReceiverEnds \/ ReceiverTimesOut \/ ReceiverDisconnected
  <2>1. PICK status : ReceiverIsOver(status)
      BY <1>9, ReceiverOverActions
  <2> QED
      BY <2>1, ReceiverOverEffect
         DEF ReceiverIsOver, UnderWay, Connection, in_flight, SameTimer
<1>10. CASE Tick
    BY <1>10 DEF Tick, Connection, in_flight
<1>11. CASE SetsClock
    BY <1>11, SetsClockEffect DEF Connection, in_flight
<1>12. CASE UNCHANGED vars
    BY <1>12 DEF vars, Connection, in_flight
<1> QED
    BY <1>1, <1>2, <1>3, <1>4, <1>5, <1>6, <1>7, <1>8, <1>9, <1>10, <1>11, <1>12 DEF Next

-----------------------------------------------------------------------------
(* The timers and the clock that they go by.                               *)

\* The timer of an end that an operation leaves alone, as time passes.
LEMMA TimedKeeps ==
    ASSUME EndsInv, NEW conf, NEW e, Timed(e, conf), NEW f, SameTimer(f, e),
           NEW time \in Nat, now <= time, e.launched \in Nat,
           estimate_test_duration(conf, test.size) \in Nat
    PROVE  /\ f.launched <= time /\ f.ahead \in {0, offset}
           /\ f.deadline = f.launched + f.ahead
                             + estimate_test_duration(conf, test.size)
           /\ f.expired =>
                time >= f.launched + estimate_test_duration(conf, test.size)
<1> DEFINE estimate == estimate_test_duration(conf, test.size)
<1>1. /\ e.launched <= now /\ e.ahead \in {0, offset}
      /\ e.deadline = e.launched + e.ahead + estimate
      /\ e.expired => now >= e.launched + estimate
    BY DEF Timed
<1>2. now \in Nat /\ estimate \in Nat
    BY EndsType
<1> HIDE DEF estimate
<1>3. /\ f.launched <= time /\ f.ahead \in {0, offset}
      /\ f.deadline = f.launched + f.ahead + estimate
      /\ f.expired => time >= f.launched + estimate
    BY <1>1, <1>2 DEF SameTimer
<1> QED
    BY <1>3 DEF estimate

\* What is estimated is a number, and so are the moments of the timers.
LEMMA TimersType ==
    ASSUME EndsInv
    PROVE  /\ estimate_test_duration(test.sender, test.size) \in Nat
           /\ estimate_test_duration(test.receiver, test.size) \in Nat
           /\ sender.launched \in Nat /\ receiver.launched \in Nat
           /\ sender.ahead \in Int /\ receiver.ahead \in Int
           /\ Ahead(sender) \in Nat /\ Ahead(receiver) \in Nat
<1>1. sender.ahead \in Int /\ receiver.ahead \in Int /\ offset \in Int
    BY EndsType, EndType
<1> QED
    BY <1>1, EndsType, EndType, ConfigurationType DEF Ahead

\* The same of the next state.
LEMMA AheadTypeNext ==
    ASSUME EndsInv'
    PROVE  Ahead(sender)' \in Nat /\ Ahead(receiver)' \in Nat
<1>1. /\ sender' \in End /\ receiver' \in End
      /\ test' \in Tests /\ offset' \in test'.adjustments \cup {0}
    BY DEF EndsInv, EndInv
<1>2. offset' \in Int
    BY <1>1, PairAssumption
<1>3. sender'.ahead \in Int /\ receiver'.ahead \in Int
    BY <1>1, EndType
<1> QED
    BY <1>2, <1>3 DEF Ahead

\* A timer that expires does so at its time, or as much sooner as the clock was set
\* forward.
LEMMA TimeIsUp ==
    ASSUME EndsInv, NEW conf \in Configuration, NEW e \in End, Timed(e, conf), Expires(e)
    PROVE  now + Ahead(e) >= e.launched + estimate_test_duration(conf, test.size)
<1> DEFINE estimate == estimate_test_duration(conf, test.size)
<1>1. /\ e.deadline = e.launched + e.ahead + estimate
      /\ e.expired => now >= e.launched + estimate
    BY DEF Timed
<1>2. e.expired \/ now + offset >= e.deadline
    BY DEF Expires, universal_time
<1>3. /\ now \in Nat /\ offset \in Int /\ e.launched \in Nat /\ e.ahead \in Int
      /\ estimate \in Nat
  <2>1. 1 \in Nat \ {0} /\ test.size \in Nat \ {0}
      BY EndsType
  <2> QED
      BY <2>1, EndsType, EndType, ConfigurationType
<1> HIDE DEF estimate
<1>4. Ahead(e) \in Nat /\ Ahead(e) >= offset - e.ahead
    BY <1>3 DEF Ahead
<1>5. now + Ahead(e) >= e.launched + estimate
    BY <1>1, <1>2, <1>3, <1>4
<1> QED
    BY <1>5 DEF estimate

\* The timer of an end when the clock is set, which happens once.
LEMMA TimedSet ==
    ASSUME EndsInv, offset = 0, NEW conf \in Configuration,
           NEW e \in End, Timed(e, conf),
           NEW f, f.deadline = e.deadline, f.launched = e.launched, f.ahead = e.ahead,
           f.expired = Expires(e)
    PROVE  /\ f.launched <= now /\ f.ahead = 0
           /\ f.deadline = f.launched + f.ahead
                             + estimate_test_duration(conf, test.size)
           /\ f.expired =>
                now >= f.launched + estimate_test_duration(conf, test.size)
<1> DEFINE estimate == estimate_test_duration(conf, test.size)
<1>1. /\ e.launched <= now /\ e.ahead = 0
      /\ e.deadline = e.launched + e.ahead + estimate
    BY DEF Timed
<1>2. Ahead(e) = 0
    BY <1>1 DEF Ahead
<1>3. Expires(e) => now + 0 >= e.launched + estimate
    BY <1>2, TimeIsUp
<1>4. now \in Nat
    BY EndsType
<1> HIDE DEF estimate
<1>5. Expires(e) => now >= e.launched + estimate
    BY <1>3, <1>4
<1> QED
    BY <1>1, <1>5 DEF estimate

\* At first no time has passed,
LEMMA TimersInit == Init => TimersInv
<1> SUFFICES ASSUME Init PROVE TimersInv
    OBVIOUS
<1>1. now = 0 /\ offset = 0
    BY DEF Init
<1>2. /\ sender.launched = 0 /\ sender.ahead = 0 /\ sender.expired = FALSE
      /\ sender.deadline = 0 + estimate_test_duration(test.sender, test.size)
      /\ receiver.launched = 0 /\ receiver.ahead = 0 /\ receiver.expired = FALSE
      /\ receiver.deadline = 0 + estimate_test_duration(test.receiver, test.size)
    BY <1>1 DEF Init, launch, universal_time
<1>3. /\ estimate_test_duration(test.sender, test.size) \in Nat
      /\ estimate_test_duration(test.receiver, test.size) \in Nat
    BY EndsInit, TimersType
<1> QED
    BY <1>1, <1>2, <1>3 DEF TimersInv, Timed

\* and every step keeps the timers.
LEMMA TimersStep == EndsInv /\ TimersInv /\ [Next]_vars => TimersInv'
<1> SUFFICES ASSUME EndsInv, TimersInv, [Next]_vars PROVE TimersInv'
    OBVIOUS
<1>t. /\ Timed(sender, test.sender) /\ Timed(receiver, test.receiver)
      /\ estimate_test_duration(test.sender, test.size) \in Nat
      /\ estimate_test_duration(test.receiver, test.size) \in Nat
      /\ sender.launched \in Nat /\ receiver.launched \in Nat
      /\ now \in Nat /\ offset \in Int
    BY EndsType, TimersType DEF TimersInv
<1>s. ASSUME UNCHANGED <<test, offset>>, now' \in {now, now + 1},
             SameTimer(sender', sender), SameTimer(receiver', receiver)
      PROVE  TimersInv'
  <2>1. now' \in Nat /\ now <= now'
      BY <1>t, <1>s
  <2>2. /\ sender'.launched <= now' /\ sender'.ahead \in {0, offset}
        /\ sender'.deadline = sender'.launched + sender'.ahead
                               + estimate_test_duration(test.sender, test.size)
        /\ sender'.expired =>
              now' >= sender'.launched + estimate_test_duration(test.sender, test.size)
      BY <1>t, <1>s, <2>1, TimedKeeps
  <2>3. /\ receiver'.launched <= now' /\ receiver'.ahead \in {0, offset}
        /\ receiver'.deadline = receiver'.launched + receiver'.ahead
                               + estimate_test_duration(test.receiver, test.size)
        /\ receiver'.expired =>
              now' >= receiver'.launched + estimate_test_duration(test.receiver, test.size)
      BY <1>t, <1>s, <2>1, TimedKeeps
  <2> QED
      BY <1>s, <2>2, <2>3 DEF TimersInv, Timed
<1>1. CASE LaunchesSender
  <2>1. /\ UNCHANGED <<now, offset, test, receiver>>
        /\ sender'.deadline
                = now + offset + estimate_test_duration(test.sender, test.size)
        /\ sender'.launched = now /\ sender'.ahead = offset /\ sender'.expired = FALSE
      BY <1>1, LaunchesSenderEffect
  <2>2. Timed(receiver, test.receiver)'
      BY <1>t, <2>1 DEF Timed
  <2>3. Timed(sender, test.sender)'
      BY <1>t, <2>1 DEF Timed
  <2> QED
      BY <2>2, <2>3 DEF TimersInv
<1>2. CASE SenderStarts \/ SenderTakesSlice \/ Sends
  <2>1. UNCHANGED <<now, offset, test, receiver>> /\ SameTimer(sender', sender)
      BY <1>2, SenderStartsEffect, SenderTakesSliceEffect, SendsEffect
  <2> QED
      BY <1>s, <2>1 DEF SameTimer
<1>3. CASE ReceiverStarts \/ ReceiverTakesSlice \/ Receives
  <2>1. UNCHANGED <<now, offset, test, sender>> /\ SameTimer(receiver', receiver)
      BY <1>3, ReceiverStartsEffect, ReceiverTakesSliceEffect, ReceivesEffect
  <2> QED
      BY <1>s, <2>1 DEF SameTimer
<1>4. CASE SenderEnds \/ SenderTimesOut \/ SenderDisconnected
  <2>1. PICK status : SenderIsOver(status)
      BY <1>4, SenderOverActions
  <2>2. UNCHANGED <<now, offset, test, receiver>> /\ SameTimer(sender', sender)
      BY <2>1, SenderOverEffect DEF SenderIsOver
  <2> QED
      BY <1>s, <2>2 DEF SameTimer
<1>5. CASE ReceiverEnds \/ ReceiverTimesOut \/ ReceiverDisconnected
  <2>1. PICK status : ReceiverIsOver(status)
      BY <1>5, ReceiverOverActions
  <2>2. UNCHANGED <<now, offset, test, sender>> /\ SameTimer(receiver', receiver)
      BY <2>1, ReceiverOverEffect DEF ReceiverIsOver
  <2> QED
      BY <1>s, <2>2 DEF SameTimer
<1>6. CASE Tick
    BY <1>6, <1>s DEF Tick, SameTimer
<1>7. CASE SetsClock
  <2>1. offset = 0 /\ UNCHANGED <<now, test>>
      BY <1>7, SetsClockEffect
  <2>2. /\ sender'.launched <= now /\ sender'.ahead = 0
        /\ sender'.deadline = sender'.launched + sender'.ahead
                               + estimate_test_duration(test.sender, test.size)
        /\ sender'.expired =>
              now >= sender'.launched + estimate_test_duration(test.sender, test.size)
      BY <1>7, <1>t, <2>1, SetsClockEffect, EndsType, TimedSet
  <2>3. /\ receiver'.launched <= now /\ receiver'.ahead = 0
        /\ receiver'.deadline = receiver'.launched + receiver'.ahead
                               + estimate_test_duration(test.receiver, test.size)
        /\ receiver'.expired =>
              now >= receiver'.launched + estimate_test_duration(test.receiver, test.size)
      BY <1>7, <1>t, <2>1, SetsClockEffect, EndsType, TimedSet
  <2> QED
      BY <2>1, <2>2, <2>3 DEF TimersInv, Timed
<1>8. CASE UNCHANGED vars
    BY <1>8, <1>s DEF vars, SameTimer
<1> QED
    BY <1>1, <1>2, <1>3, <1>4, <1>5, <1>6, <1>7, <1>8 DEF Next

-----------------------------------------------------------------------------
(* How late the ends are on prompt hosts.                                  *)

\* The slice that an end is on is one of its slices, and one that the size needs.
LEMMA LatestNeeded ==
    ASSUME NEW conf \in Configuration, NEW bandwidth \in Nat \ {0},
           NEW size \in Nat \ {0}, NEW time, NEW ahead,
           NEW e, EndInv(e, conf, bandwidth, size, time, ahead)
    PROVE  /\ latest(e, size) \in Nat
           /\ grant(conf, bandwidth) > 0 =>
                latest(e, size) * grant(conf, bandwidth) <= size - 1
<1> DEFINE g == grant(conf, bandwidth)
           k == latest(e, size)
<1>1. g \in Nat
    BY ConfigurationType
<1>2. e \in End /\ OnSchedule(e, conf, bandwidth, time) /\ SlicesNeeded(e, conf, bandwidth, size)
    BY DEF EndInv
<1>3. e.slices \in Nat /\ e.count \in Nat /\ e.slice \in Nat
    BY <1>2, EndType
<1>4. /\ e.count + e.slice <= e.slices * g
      /\ g > 0 => e.count + e.slice \in {size, e.slices * g}
      /\ g > 0 /\ e.slices > 0 => (e.slices - 1) * g < size
    BY <1>2 DEF OnSchedule, SlicesNeeded
<1> HIDE DEF g
<1>5. 0 * g = 0 /\ e.slices * g \in Nat
    BY <1>1, <1>3, OneMore
<1>6. CASE e.slice = 0 /\ e.count < size
  <2>1. k = e.slices
      BY <1>6 DEF latest
  <2>2. g > 0 => k * g = e.count
      BY <1>3, <1>4, <1>6, <2>1
  <2>3. g > 0 => k * g <= size - 1
      BY <1>3, <1>6, <2>2
  <2> QED
      BY <1>3, <2>1, <2>3 DEF g
<1>7. CASE ~(e.slice = 0 /\ e.count < size)
  <2>1. k = e.slices - 1
      BY <1>7 DEF latest
  <2>2. e.slices # 0
    <3>1. CASE e.slices = 0
      <4>1. e.count + e.slice <= 0
          BY <1>4, <1>5, <3>1
      <4>2. e.count = 0 /\ e.slice = 0
          BY <1>3, <4>1
      <4> QED
          BY <1>7, <4>2
    <3> QED
        BY <3>1
  <2>3. k \in Nat
      BY <1>3, <2>1, <2>2
  <2>4. g > 0 => k * g < size
      BY <1>3, <1>4, <2>1, <2>2
  <2> HIDE DEF k
  <2>5. k * g \in Nat
      BY <1>1, <2>3
  <2>6. g > 0 => k * g <= size - 1
      BY <2>4, <2>5
  <2> QED
      BY <2>3, <2>6 DEF g, k
<1> QED
    BY <1>6, <1>7

\* The latest slices of both ends.
LEMMA LatestType ==
    ASSUME EndsInv
    PROVE  /\ latest(sender, test.size) \in Nat /\ latest(receiver, test.size) \in Nat
           /\ slice_time(test.sender) \in Nat /\ slice_time(test.receiver) \in Nat
           /\ launched \in Int
<1>1. /\ latest(sender, test.size) \in Nat
      /\ latest(receiver, test.size) \in Nat
    BY EndsType, LatestNeeded DEF EndsInv
<1>2. sender.launched \in Nat
    BY EndsType, EndType
<1> QED
    BY <1>1, <1>2, EndsType, ConfigurationType DEF launched

\* On a later slice an end is on time if it was on an earlier one.
LEMMA LaterSlice ==
    ASSUME NEW a \in Nat, NEW b \in Nat, a <= b, NEW d \in Nat,
           NEW time \in Nat, NEW origin \in Int, time <= origin + a * d + LATENESS
    PROVE  time <= origin + b * d + LATENESS
<1>1. a * d <= b * d /\ a * d \in Nat /\ b * d \in Nat
    BY ProductMonotonic
<1> QED
    BY <1>1, PairAssumption

\* A step that takes no time and does not go back to an earlier slice.
LEMMA PromptKeeps ==
    ASSUME EndsInv, EndsInv', Prompt, UNCHANGED <<now, test>>,
           sender.status # "absent", sender'.status # "absent",
           sender'.launched = sender.launched,
           sender'.status = "connecting" => sender.status = "connecting",
           receiver'.status = "connecting" => receiver.status = "connecting",
           Started(sender') => sender'.start = launched,
           Started(receiver') => receiver'.start = launched,
           UnderWay(sender') \/ UnderWay(receiver') => UnderWay(sender) \/ UnderWay(receiver),
           Grants => latest(sender', test.size) >= latest(sender, test.size),
           Grants => latest(receiver', test.size) >= latest(receiver, test.size)
    PROVE  Prompt'
<1>1. launched' = launched
    BY DEF launched
<1>2. /\ sender'.status = "connecting" => now' = launched'
      /\ receiver'.status = "connecting" => now' = launched'
    BY <1>1 DEF Prompt
<1>3. ASSUME Grants, UnderWay(sender') \/ UnderWay(receiver')
      PROVE  OnTime(sender, test.sender)' \/ OnTime(receiver, test.receiver)'
  <2>1. OnTime(sender, test.sender) \/ OnTime(receiver, test.receiver)
      BY <1>3 DEF Prompt
  <2>2. /\ latest(sender, test.size) \in Nat /\ latest(receiver, test.size) \in Nat
        /\ slice_time(test.sender) \in Nat /\ slice_time(test.receiver) \in Nat
        /\ launched \in Int /\ now \in Nat
      BY LatestType, EndsType
  <2>3. latest(sender', test.size) \in Nat /\ latest(receiver', test.size) \in Nat
    <3>1. test \in Tests
        BY EndsType
    <3>2. /\ EndInv(sender', test.sender, test.sender.send_bandwidth, test.size, now, offset')
          /\ EndInv(receiver', test.receiver, test.receiver.receive_bandwidth, test.size,
                    now, offset')
        BY DEF EndsInv
    <3> QED
        BY <3>1, <3>2, TestType, LatestNeeded
  <2>4. ASSUME OnTime(sender, test.sender) PROVE OnTime(sender, test.sender)'
    <3>1. now <= launched + latest(sender, test.size) * slice_time(test.sender) + LATENESS
        BY <2>4 DEF OnTime
    <3>2. latest(sender, test.size) <= latest(sender', test.size)
        BY <1>3, <2>2, <2>3
    <3>3. now <= launched + latest(sender', test.size) * slice_time(test.sender) + LATENESS
        BY <2>2, <2>3, <3>1, <3>2, LaterSlice
    <3> QED
        BY <1>1, <3>3 DEF OnTime
  <2>5. ASSUME OnTime(receiver, test.receiver) PROVE OnTime(receiver, test.receiver)'
    <3>1. now <= launched + latest(receiver, test.size) * slice_time(test.receiver) + LATENESS
        BY <2>5 DEF OnTime
    <3>2. latest(receiver, test.size) <= latest(receiver', test.size)
        BY <1>3, <2>2, <2>3
    <3>3. now <= launched + latest(receiver', test.size) * slice_time(test.receiver) + LATENESS
        BY <2>2, <2>3, <3>1, <3>2, LaterSlice
    <3> QED
        BY <1>1, <3>3 DEF OnTime
  <2> QED
      BY <2>1, <2>4, <2>5
<1>4. Grants' = Grants
    BY DEF Grants
<1>5. /\ Started(sender)' => sender'.start = launched'
      /\ Started(receiver)' => receiver'.start = launched'
    BY <1>1 DEF Started
<1>6. UnderWay(sender)' \/ UnderWay(receiver)' => UnderWay(sender') \/ UnderWay(receiver')
    BY DEF UnderWay
<1> QED
    BY <1>2, <1>3, <1>4, <1>5, <1>6 DEF Prompt

\* When nothing can be done at once, an end waits for its throttle: this one, or the
\* other, through the bytes in flight.
LEMMA SomeoneWaits ==
    ASSUME EndsInv, Connection, ~Pending, sender.status # "absent",
           UnderWay(sender) \/ UnderWay(receiver)
    PROVE  \/ sender.status = "transferring" /\ sender.slice = 0
           \/ receiver.status = "transferring" /\ receiver.slice = 0
<1>1. /\ sender.count \in Nat /\ receiver.count \in Nat /\ sender.slice \in Nat
      /\ receiver.slice \in Nat /\ ROOM \in Nat \ {0} /\ in_flight \in Int
      /\ test.size \in Nat
    BY EndsType, EndType, PairAssumption
<1>2. /\ sender.status # "connecting" /\ receiver.status # "connecting"
      /\ sender.status = "waiting" => receiver.status \notin {"waiting", "complete"}
      /\ UnderWay(sender) => receiver.status # "timeout"
      /\ UnderWay(receiver) => sender.status # "timeout"
    BY DEF Pending, Connected, Loses
<1>3. /\ in_flight = sender.count - receiver.count
      /\ sender.status = "complete" => receiver.status = "complete"
      /\ sender.status = "disconnected" => receiver.status = "timeout"
      /\ receiver.status = "disconnected" => sender.status = "timeout"
    BY DEF Connection, in_flight
<1>4. /\ sender.status = "transferring" => sender.count < test.size
      /\ sender.status \in {"waiting", "complete"} => sender.count >= test.size
      /\ receiver.status = "transferring" => receiver.count < test.size
      /\ receiver.status \in {"waiting", "complete"} => receiver.count >= test.size
    BY DEF EndsInv, EndInv, SlicesNeeded
<1>5. /\ sender.status = "transferring" => sender.slice = 0 \/ in_flight >= ROOM
      /\ receiver.status = "transferring" => receiver.slice = 0 \/ in_flight <= 0
  <2>1. /\ MayMove(sender, ROOM - in_flight) = {}
        /\ MayMove(receiver, in_flight) = {}
      BY DEF Pending
  <2>2. ASSUME sender.status = "transferring", sender.slice > 0, in_flight < ROOM
        PROVE  FALSE
    <3>1. 1 \in 1 .. Least(sender.slice, ROOM - in_flight)
        BY <1>1, <2>2 DEF Least
    <3> QED
        BY <2>1, <2>2, <3>1 DEF MayMove
  <2>3. ASSUME receiver.status = "transferring", receiver.slice > 0, in_flight > 0
        PROVE  FALSE
    <3>1. 1 \in 1 .. Least(receiver.slice, in_flight)
        BY <1>1, <2>3 DEF Least
    <3> QED
        BY <2>1, <2>3, <3>1 DEF MayMove
  <2> QED
      BY <1>1, <2>2, <2>3
<1>6. /\ sender.status \in {"absent", "connecting", "transferring", "waiting", "complete",
                            "timeout", "disconnected"}
      /\ receiver.status \in {"absent", "connecting", "transferring", "waiting", "complete",
                              "timeout", "disconnected"}
    BY EndsType DEF End
<1>7. UnderWay(sender) <=> sender.status \in {"transferring", "waiting"}
    BY <1>2 DEF UnderWay
<1>8. UnderWay(receiver) <=> receiver.status \in {"transferring", "waiting"}
    BY <1>2 DEF UnderWay
<1>9. CASE sender.status = "transferring"
  <2>1. receiver.status \notin {"timeout", "disconnected"}
      BY <1>2, <1>3, <1>7, <1>9
  <2>2. receiver.status # "absent"
      BY DEF Connection
  <2>3. CASE receiver.status = "transferring"
      BY <1>1, <1>5, <1>9, <2>3
  <2>4. CASE receiver.status \in {"waiting", "complete"}
      BY <1>1, <1>3, <1>4, <1>5, <1>9, <2>4
  <2> QED
      BY <1>2, <1>6, <2>1, <2>2, <2>3, <2>4
<1>10. CASE sender.status = "waiting"
  <2>1. receiver.status = "transferring"
      BY <1>2, <1>3, <1>6, <1>7, <1>10 DEF Connection
  <2> QED
      BY <1>1, <1>3, <1>4, <1>5, <1>10, <2>1
<1>11. CASE sender.status \in {"complete", "timeout", "disconnected"}
    BY <1>2, <1>3, <1>7, <1>8, <1>11
<1> QED
    BY <1>2, <1>6, <1>9, <1>10, <1>11

\* An end that waits for its throttle on a prompt host is called in time.
LEMMA WaitingIsOnTime ==
    ASSUME NEW conf \in Configuration, NEW bandwidth \in Nat \ {0},
           NEW size \in Nat \ {0}, now \in Nat, NEW ahead,
           NEW e, EndInv(e, conf, bandwidth, size, now, ahead),
           e.status = "transferring", e.slice = 0, InTime(e)
    PROVE  now + 1 <= e.start + latest(e, size) * slice_time(conf) + LATENESS
<1>1. e \in End /\ OnSchedule(e, conf, bandwidth, now) /\ SlicesNeeded(e, conf, bandwidth, size)
    BY DEF EndInv
<1>2. /\ e.throttle.waiting /\ latest(e, size) = e.slices
      /\ e.throttle.next_slice_start = e.start + e.slices * slice_time(conf)
    BY <1>1 DEF OnSchedule, SlicesNeeded, Started, latest
<1>3. now < e.throttle.next_slice_start + LATENESS
    BY <1>2 DEF InTime
<1>4. e.throttle.next_slice_start \in Nat /\ LATENESS \in Nat
    BY <1>1, EndType, PairAssumption
<1>5. now + 1 <= e.throttle.next_slice_start + LATENESS
    BY <1>3, <1>4
<1> QED
    BY <1>2, <1>5

\* A prompt host only lets time pass when the end that holds up the test is on time.
LEMMA PromptTick ==
    ASSUME EndsInv, test.prompt, Connection, Prompt, Tick
    PROVE  Prompt'
<1>1. /\ now' = now + 1 /\ UNCHANGED <<offset, test, sender, receiver>>
      /\ ~Pending /\ InTime(sender) /\ InTime(receiver)
    BY DEF Tick
<1>2. launched' = launched /\ now \in Nat
    BY <1>1, EndsType DEF launched
<1>3. (sender'.status = "absent" /\ receiver'.status = "timeout") =>
        (now + Ahead(receiver) >= estimate_test_duration(test.receiver, test.size))'
  <2>1. (now + Ahead(receiver))' = now + 1 + Ahead(receiver)
      BY <1>1 DEF Ahead
  <2>2. /\ Ahead(receiver) \in Nat
        /\ estimate_test_duration(test.receiver, test.size) \in Nat
      BY TimersType
  <2>3. estimate_test_duration(test.receiver, test.size)'
            = estimate_test_duration(test.receiver, test.size)
      BY <1>1
  <2>4. now + Ahead(receiver) >= estimate_test_duration(test.receiver, test.size)
        => now + 1 + Ahead(receiver) >= estimate_test_duration(test.receiver, test.size)
      BY <1>2, <2>2
  <2> QED
      BY <1>1, <2>1, <2>3, <2>4 DEF Prompt
<1>4. ASSUME sender.status # "absent"
      PROVE  /\ sender.status # "connecting" /\ receiver.status # "connecting"
             /\ Started(sender) => sender.start = launched
             /\ Started(receiver) => receiver.start = launched
    BY <1>1, <1>4 DEF Pending, Connected, Prompt
<1>5. ASSUME sender.status # "absent", UnderWay(sender) \/ UnderWay(receiver)
      PROVE  OnTime(sender, test.sender)' \/ OnTime(receiver, test.receiver)'
  <2>1. \/ sender.status = "transferring" /\ sender.slice = 0
        \/ receiver.status = "transferring" /\ receiver.slice = 0
      BY <1>1, <1>5, SomeoneWaits
  <2>2. CASE sender.status = "transferring" /\ sender.slice = 0
    <3>1. now + 1 <= sender.start + latest(sender, test.size) * slice_time(test.sender)
                        + LATENESS
        BY <1>1, <2>2, EndsType, WaitingIsOnTime DEF EndsInv
    <3>2. sender.start = launched
        BY <1>4, <1>5, <2>2 DEF Started
    <3> QED
        BY <1>1, <1>2, <3>1, <3>2 DEF OnTime
  <2>3. CASE receiver.status = "transferring" /\ receiver.slice = 0
    <3>1. now + 1 <= receiver.start + latest(receiver, test.size) * slice_time(test.receiver)
                        + LATENESS
        BY <1>1, <2>3, EndsType, WaitingIsOnTime DEF EndsInv
    <3>2. receiver.start = launched
        BY <1>4, <1>5, <2>3 DEF Started
    <3> QED
        BY <1>1, <1>2, <3>1, <3>2 DEF OnTime
  <2> QED
      BY <2>1, <2>2, <2>3
<1>6. /\ UnderWay(sender)' = UnderWay(sender) /\ UnderWay(receiver)' = UnderWay(receiver)
      /\ Started(sender)' = Started(sender) /\ Started(receiver)' = Started(receiver)
    BY <1>1 DEF UnderWay, Started
<1> QED
    BY <1>1, <1>2, <1>3, <1>4, <1>5, <1>6 DEF Prompt

\* The sender is launched: the test is at its first slice.
LEMMA PromptLaunch ==
    ASSUME EndsInv, Connection, test.prompt, Prompt, LaunchesSender
    PROVE  Prompt'
<1>1. /\ UNCHANGED <<now, offset, test, receiver>> /\ EndsInv'
      /\ sender.status = "absent" /\ sender'.status = "connecting"
      /\ sender'.count = 0 /\ sender'.slice = 0 /\ sender'.slices = 0
      /\ sender'.launched = now
    BY LaunchesSenderEffect
<1>2. /\ now \in Nat /\ test.size \in Nat \ {0} /\ LATENESS \in Nat
      /\ slice_time(test.sender) \in Nat
    BY EndsType, ConfigurationType, PairAssumption
<1>3. launched' = now
    BY <1>1 DEF launched
<1>4. receiver'.status \in {"connecting", "timeout"}
    BY <1>1 DEF Connection
<1>5. OnTime(sender, test.sender)'
  <2>1. latest(sender', test.size) = 0 /\ 0 * slice_time(test.sender) = 0
      BY <1>1, <1>2, OneMore DEF latest
  <2>2. now <= now + 0 + LATENESS
      BY <1>2
  <2> QED
      BY <1>1, <1>3, <2>1, <2>2 DEF OnTime
<1> QED
    BY <1>1, <1>3, <1>4, <1>5 DEF Prompt, Started

\* The start of an end takes no time.
LEMMA PromptStarts ==
    ASSUME EndsInv, Connection, test.prompt, Prompt, SenderStarts \/ ReceiverStarts
    PROVE  Prompt'
<1>1. CASE SenderStarts
  <2>1. /\ EndsInv' /\ UNCHANGED <<now, offset, test, receiver>>
        /\ sender.status = "connecting"
        /\ sender.count = 0 /\ sender.slice = 0 /\ sender.slices = 0
        /\ sender'.status = "transferring" /\ sender'.start = now
        /\ sender'.count = 0 /\ sender'.slice = 0 /\ sender'.slices = 0
        /\ sender'.launched = sender.launched
      BY <1>1, SenderStartsEffect DEF SameTimer
  <2>2. latest(sender', test.size) = latest(sender, test.size)
      BY <2>1 DEF latest
  <2>3. sender'.start = launched
      BY <2>1 DEF Prompt
  <2>4. Started(receiver') => receiver'.start = launched
      BY <2>1 DEF Prompt
  <2>5. UnderWay(sender)
      BY <2>1 DEF UnderWay
  <2> QED
      BY <2>1, <2>2, <2>3, <2>4, <2>5, LatestType, PromptKeeps
<1>2. CASE ReceiverStarts
  <2>1. /\ EndsInv' /\ UNCHANGED <<now, offset, test, sender>>
        /\ receiver.status = "connecting" /\ sender.status # "absent"
        /\ receiver.count = 0 /\ receiver.slice = 0 /\ receiver.slices = 0
        /\ receiver'.status = "transferring" /\ receiver'.start = now
        /\ receiver'.count = 0 /\ receiver'.slice = 0 /\ receiver'.slices = 0
      BY <1>2, ReceiverStartsEffect
  <2>2. latest(receiver', test.size) = latest(receiver, test.size)
      BY <2>1 DEF latest
  <2>3. receiver'.start = launched
      BY <2>1 DEF Prompt
  <2>4. Started(sender') => sender'.start = launched
      BY <2>1 DEF Prompt
  <2>5. UnderWay(receiver)
      BY <2>1 DEF UnderWay
  <2> QED
      BY <2>1, <2>2, <2>3, <2>4, <2>5, LatestType, PromptKeeps
<1> QED
    BY <1>1, <1>2

\* A new slice is the one that the end was waiting for.
LEMMA PromptTakes ==
    ASSUME EndsInv, Connection, test.prompt, Prompt, SenderTakesSlice \/ ReceiverTakesSlice
    PROVE  Prompt'
<1>1. CASE SenderTakesSlice
  <2>1. /\ EndsInv' /\ UNCHANGED <<now, offset, test, receiver>>
        /\ sender.status = "transferring" /\ sender.slice = 0 /\ sender.count < test.size
        /\ sender'.status = "transferring" /\ sender'.start = sender.start
        /\ sender'.count = sender.count /\ sender'.slices = sender.slices + 1
        /\ grant(test.sender, test.sender.send_bandwidth) > 0 => sender'.slice > 0
        /\ sender'.launched = sender.launched
      BY <1>1, SenderTakesSliceEffect DEF SameTimer
  <2>2. ASSUME Grants PROVE latest(sender', test.size) >= latest(sender, test.size)
    <3>1. latest(sender, test.size) = sender.slices /\ sender.slices \in Nat
        BY <2>1, EndsType, EndType DEF latest
    <3>2. latest(sender', test.size) = sender.slices + 1 - 1
        BY <2>1, <2>2, <3>1 DEF latest, Grants
    <3> QED
        BY <3>1, <3>2
  <2>3. /\ Started(sender') => sender'.start = launched
        /\ Started(receiver') => receiver'.start = launched
      BY <2>1 DEF Prompt, Started
  <2>4. UnderWay(sender)
      BY <2>1 DEF UnderWay
  <2> QED
      BY <2>1, <2>2, <2>3, <2>4, LatestType, PromptKeeps
<1>2. CASE ReceiverTakesSlice
  <2>1. /\ EndsInv' /\ UNCHANGED <<now, offset, test, sender>>
        /\ receiver.status = "transferring" /\ receiver.slice = 0
        /\ receiver.count < test.size
        /\ receiver'.status = "transferring" /\ receiver'.start = receiver.start
        /\ receiver'.count = receiver.count /\ receiver'.slices = receiver.slices + 1
        /\ grant(test.receiver, test.receiver.receive_bandwidth) > 0 => receiver'.slice > 0
      BY <1>2, ReceiverTakesSliceEffect
  <2>2. ASSUME Grants PROVE latest(receiver', test.size) >= latest(receiver, test.size)
    <3>1. latest(receiver, test.size) = receiver.slices /\ receiver.slices \in Nat
        BY <2>1, EndsType, EndType DEF latest
    <3>2. latest(receiver', test.size) = receiver.slices + 1 - 1
        BY <2>1, <2>2, <3>1 DEF latest, Grants
    <3> QED
        BY <3>1, <3>2
  <2>3. sender.status # "absent"
      BY <2>1 DEF Connection
  <2>4. /\ Started(sender') => sender'.start = launched
        /\ Started(receiver') => receiver'.start = launched
      BY <2>1, <2>3 DEF Prompt, Started
  <2>5. UnderWay(receiver)
      BY <2>1 DEF UnderWay
  <2> QED
      BY <2>1, <2>2, <2>3, <2>4, <2>5, LatestType, PromptKeeps
<1> QED
    BY <1>1, <1>2

\* A slice that is used up is followed by the next one.
LEMMA PromptMoves ==
    ASSUME EndsInv, Connection, test.prompt, Prompt, Sends \/ Receives
    PROVE  Prompt'
<1>1. CASE Sends
  <2>1. /\ EndsInv' /\ UNCHANGED <<now, offset, test, receiver>>
        /\ sender.status = "transferring" /\ sender.slice # 0
        /\ sender'.status \in {"transferring", "waiting"}
        /\ sender'.slices = sender.slices /\ sender'.start = sender.start
        /\ sender'.launched = sender.launched
      BY <1>1, SendsEffect, EndsType, EndType DEF SameTimer
  <2>2. latest(sender', test.size) >= latest(sender, test.size)
    <3>1. latest(sender, test.size) = sender.slices - 1 /\ sender.slices \in Nat
        BY <2>1, EndsType, EndType DEF latest
    <3>2. latest(sender', test.size) \in {sender.slices, sender.slices - 1}
        BY <2>1 DEF latest
    <3> QED
        BY <3>1, <3>2
  <2>3. /\ Started(sender') => sender'.start = launched
        /\ Started(receiver') => receiver'.start = launched
      BY <2>1 DEF Prompt, Started
  <2>4. UnderWay(sender)
      BY <2>1 DEF UnderWay
  <2> QED
      BY <2>1, <2>2, <2>3, <2>4, LatestType, PromptKeeps
<1>2. CASE Receives
  <2>1. /\ EndsInv' /\ UNCHANGED <<now, offset, test, sender>>
        /\ receiver.status = "transferring" /\ receiver.slice # 0
        /\ receiver'.status \in {"transferring", "waiting"}
        /\ receiver'.slices = receiver.slices /\ receiver'.start = receiver.start
      BY <1>2, ReceivesEffect, EndsType, EndType
  <2>2. latest(receiver', test.size) >= latest(receiver, test.size)
    <3>1. latest(receiver, test.size) = receiver.slices - 1 /\ receiver.slices \in Nat
        BY <2>1, EndsType, EndType DEF latest
    <3>2. latest(receiver', test.size) \in {receiver.slices, receiver.slices - 1}
        BY <2>1 DEF latest
    <3> QED
        BY <3>1, <3>2
  <2>3. sender.status # "absent"
      BY <2>1 DEF Connection
  <2>4. /\ Started(sender') => sender'.start = launched
        /\ Started(receiver') => receiver'.start = launched
      BY <2>1, <2>3 DEF Prompt, Started
  <2>5. UnderWay(receiver)
      BY <2>1 DEF UnderWay
  <2> QED
      BY <2>1, <2>2, <2>3, <2>4, <2>5, LatestType, PromptKeeps
<1> QED
    BY <1>1, <1>2

\* The timer of the listener counts from the start.
LEMMA ReceiverTimeIsUp ==
    ASSUME EndsInv, TimersInv, Connection, Expires(receiver)
    PROVE  now + Ahead(receiver) >= estimate_test_duration(test.receiver, test.size)
<1>1. now + Ahead(receiver)
            >= receiver.launched + estimate_test_duration(test.receiver, test.size)
    BY EndsType, TimeIsUp DEF TimersInv
<1>2. /\ receiver.launched = 0
      /\ estimate_test_duration(test.receiver, test.size) \in Nat
    BY TimersType DEF Connection
<1> HIDE DEF estimate_test_duration
<1> QED
    BY <1>1, <1>2

\* An end that is over does not move any more.
LEMMA PromptEnds ==
    ASSUME EndsInv, TimersInv, Connection, test.prompt, Prompt,
           \/ \E status : SenderIsOver(status)
           \/ \E status : ReceiverIsOver(status)
    PROVE  Prompt'
<1>1. ASSUME NEW status, SenderIsOver(status) PROVE Prompt'
  <2>1. /\ EndsInv' /\ UNCHANGED <<now, offset, test, receiver>>
        /\ sender'.status = status
        /\ sender'.count = sender.count /\ sender'.slice = sender.slice
        /\ sender'.slices = sender.slices /\ sender'.start = sender.start
        /\ sender'.launched = sender.launched
      BY <1>1, SenderOverEffect DEF SenderIsOver, SameTimer
  <2>2. /\ status \in {"timeout", "disconnected", "complete"}
        /\ UnderWay(sender) /\ sender.status # "absent"
        /\ status = "complete" => sender.status = "waiting"
      BY <1>1 DEF SenderIsOver, UnderWay
  <2>3. latest(sender', test.size) = latest(sender, test.size)
      BY <2>1 DEF latest
  <2>4. /\ Started(sender') => sender'.start = launched
        /\ Started(receiver') => receiver'.start = launched
      BY <2>1, <2>2 DEF Prompt, Started
  <2> QED
      BY <2>1, <2>2, <2>3, <2>4, LatestType, PromptKeeps
<1>2. ASSUME NEW status, ReceiverIsOver(status) PROVE Prompt'
  <2>1. /\ EndsInv' /\ UNCHANGED <<now, offset, test, sender>>
        /\ receiver'.status = status
        /\ receiver'.count = receiver.count /\ receiver'.slice = receiver.slice
        /\ receiver'.slices = receiver.slices /\ receiver'.start = receiver.start
        /\ receiver'.ahead = receiver.ahead
      BY <1>2, ReceiverOverEffect DEF ReceiverIsOver, SameTimer
  <2>2. /\ status \in {"timeout", "disconnected", "complete"}
        /\ UnderWay(receiver)
        /\ status = "complete" => receiver.status = "waiting" /\ sender.status = "waiting"
        /\ status = "timeout" => Expires(receiver)
        /\ status = "disconnected" => sender.status = "timeout"
      BY <1>2 DEF ReceiverIsOver, UnderWay
  <2>3. CASE sender.status = "absent"
    <3>1. receiver'.status = "timeout" => receiver'.status = status /\ Expires(receiver)
        BY <2>1, <2>2
    <3>2. Expires(receiver) =>
            now + Ahead(receiver) >= estimate_test_duration(test.receiver, test.size)
        BY ReceiverTimeIsUp
    <3>3. (now + Ahead(receiver))' = now + Ahead(receiver)
        BY <2>1 DEF Ahead
    <3>4. estimate_test_duration(test.receiver, test.size)'
            = estimate_test_duration(test.receiver, test.size)
        BY <2>1
    <3> QED
        BY <2>1, <2>3, <3>1, <3>2, <3>3, <3>4 DEF Prompt
  <2>4. CASE sender.status # "absent"
    <3>1. latest(receiver', test.size) = latest(receiver, test.size)
        BY <2>1 DEF latest
    <3>2. /\ Started(sender') => sender'.start = launched
          /\ Started(receiver') => receiver'.start = launched
        BY <2>1, <2>2, <2>4 DEF Prompt, Started
    <3> QED
        BY <2>1, <2>2, <2>4, <3>1, <3>2, LatestType, PromptKeeps
  <2> QED
      BY <2>3, <2>4
<1> QED
    BY <1>1, <1>2

\* Nor does the clock of the wall when it is set, and by then it was never ahead.
LEMMA PromptSet ==
    ASSUME EndsInv, TimersInv, Connection, test.prompt, Prompt, SetsClock
    PROVE  Prompt'
<1>1. /\ EndsInv' /\ offset = 0 /\ UNCHANGED <<now, test>>
      /\ sender'.status = sender.status /\ sender'.start = sender.start
      /\ sender'.count = sender.count /\ sender'.slice = sender.slice
      /\ sender'.slices = sender.slices /\ sender'.launched = sender.launched
      /\ receiver'.status = receiver.status /\ receiver'.start = receiver.start
      /\ receiver'.count = receiver.count /\ receiver'.slice = receiver.slice
      /\ receiver'.slices = receiver.slices
    BY SetsClockEffect
<1>2. CASE sender.status = "absent"
  <2>1. Ahead(receiver) = 0
      BY <1>1 DEF TimersInv, Timed, Ahead
  <2>2. Ahead(receiver)' \in Nat
      BY <1>1, AheadTypeNext
  <2>3. (now + Ahead(receiver))' = now + Ahead(receiver)' /\ now \in Nat
      BY <1>1, EndsType
  <2>4. estimate_test_duration(test.receiver, test.size)'
            = estimate_test_duration(test.receiver, test.size)
      BY <1>1
  <2>5. estimate_test_duration(test.receiver, test.size) \in Nat
      BY TimersType
  <2>6. now + 0 >= estimate_test_duration(test.receiver, test.size)
        => now + Ahead(receiver)' >= estimate_test_duration(test.receiver, test.size)
      BY <2>2, <2>3, <2>5
  <2> QED
      BY <1>1, <1>2, <2>1, <2>3, <2>4, <2>6 DEF Prompt
<1>3. CASE sender.status # "absent"
  <2>1. /\ latest(sender', test.size) = latest(sender, test.size)
        /\ latest(receiver', test.size) = latest(receiver, test.size)
      BY <1>1 DEF latest
  <2>2. /\ Started(sender') => sender'.start = launched
        /\ Started(receiver') => receiver'.start = launched
      BY <1>1, <1>3 DEF Prompt, Started
  <2>3. UnderWay(sender') \/ UnderWay(receiver') => UnderWay(sender) \/ UnderWay(receiver)
      BY <1>1 DEF UnderWay
  <2> QED
      BY <1>1, <1>3, <2>1, <2>2, <2>3, LatestType, PromptKeeps
<1> QED
    BY <1>2, <1>3

\* What a prompt host is, is kept by every step.
LEMMA PromptStep ==
    ASSUME EndsInv, TimersInv, Connection, test.prompt => Prompt, [Next]_vars
    PROVE  test'.prompt => Prompt'
<1>1. CASE LaunchesSender
    BY <1>1, PromptLaunch DEF LaunchesSender
<1>2. CASE SenderStarts \/ ReceiverStarts
    BY <1>2, PromptStarts DEF SenderStarts, ReceiverStarts
<1>3. CASE SenderTakesSlice \/ ReceiverTakesSlice
    BY <1>3, PromptTakes DEF SenderTakesSlice, ReceiverTakesSlice
<1>4. CASE Sends \/ Receives
    BY <1>4, PromptMoves DEF Sends, Receives
<1>5. CASE SenderEnds \/ SenderTimesOut \/ SenderDisconnected
  <2>1. PICK status : SenderIsOver(status)
      BY <1>5, SenderOverActions
  <2> QED
      BY <2>1, PromptEnds DEF SenderIsOver
<1>6. CASE ReceiverEnds \/ ReceiverTimesOut \/ ReceiverDisconnected
  <2>1. PICK status : ReceiverIsOver(status)
      BY <1>6, ReceiverOverActions
  <2> QED
      BY <2>1, PromptEnds DEF ReceiverIsOver
<1>7. CASE Tick
    BY <1>7, PromptTick DEF Tick
<1>8. CASE SetsClock
    BY <1>8, PromptSet DEF SetsClock
<1>9. CASE UNCHANGED vars
    BY <1>9 DEF vars, Prompt, Grants, OnTime, launched, UnderWay, Started, latest, Ahead
<1> QED
    BY <1>1, <1>2, <1>3, <1>4, <1>5, <1>6, <1>7, <1>8, <1>9 DEF Next

\* At first the sender is absent.
LEMMA PromptInit == Init => Prompt
    BY DEF Init, Prompt, launch

\* The invariant of the schedule is that of each end, and of both.
LEMMA ScheduleParts ==
    ScheduleInv <=> EndsInv /\ TimersInv /\ Connection /\ (test.prompt => Prompt)
    BY DEF ScheduleInv, TypeOK, EndsInv, EndInv, TimersInv

\* The throttles keep a schedule that neither a late handler nor a stalled connection
\* moves, and grant one slice for each of its instants (BandwidthThrottle.hpp:32).
THEOREM Schedule == Spec => []ScheduleInv
<1>1. Init => ScheduleInv
    BY EndsInit, TimersInit, ConnectionInit, PromptInit, ScheduleParts
<1>2. ScheduleInv /\ [Next]_vars => ScheduleInv'
  <2> SUFFICES ASSUME ScheduleInv, [Next]_vars PROVE ScheduleInv'
      OBVIOUS
  <2>1. EndsInv /\ TimersInv /\ Connection /\ (test.prompt => Prompt)
      BY ScheduleParts
  <2>2. EndsInv' /\ TimersInv' /\ Connection' /\ (test'.prompt => Prompt')
      BY <2>1, EndsStep, TimersStep, ConnectionStep, PromptStep
  <2> QED
      BY <2>2 DEF ScheduleInv, TypeOK, EndsInv, EndInv, TimersInv
<1> QED
    BY <1>1, <1>2, PTL DEF Spec

-----------------------------------------------------------------------------
(* What follows of the schedule.                                           *)

\* What the schedule allows an end to move is what the bandwidth allows.
LEMMA ScheduleWithinBandwidth ==
    ASSUME NEW conf \in Configuration, NEW bandwidth \in Nat \ {0}, now \in Nat,
           NEW size, NEW ahead,
           NEW e, EndInv(e, conf, bandwidth, size, now, ahead),
           Started(e), Whole(conf)
    PROVE  Within(e.count, bandwidth, e)
<1> DEFINE f == conf.sampling_frequency
           d == slice_time(conf)
           g == grant(conf, bandwidth)
           elapsed == now - e.start
           n == e.slices
           c == e.count
<1>1. e \in End /\ OnSchedule(e, conf, bandwidth, now)
    BY DEF EndInv
<1>2. /\ f \in Nat \ {0} /\ d \in Nat /\ g \in Nat
      /\ n \in Nat /\ c \in Nat /\ e.slice \in Nat /\ e.start \in Nat
  <2>1. f \in Nat \ {0}
      BY DEF Configuration
  <2>2. d \in Nat /\ g \in Nat
      BY <2>1, SecondAssumption, QuotientBound
      DEF slice_time, grant, to_slice_duration, to_slice_bytes_count
  <2> QED
      BY <1>1, <2>1, <2>2, EndType
<1>3. d * f = SECOND
    BY DEF Whole
<1>4. g * f <= bandwidth
    BY <1>2, QuotientBound DEF grant, to_slice_bytes_count
<1>5. /\ c + e.slice <= n * g
      /\ e.start <= now
      /\ n > 0 => e.start + (n - 1) * d <= now
      /\ e.throttle.slice_duration = d
    BY <1>1 DEF OnSchedule
<1> HIDE DEF f, d, g, n, c
<1>6. elapsed \in Nat
    BY <1>2, <1>5
<1>7. /\ n * g \in Nat /\ n * d \in Nat /\ g * f \in Nat /\ d * f \in Nat /\ 0 * d = 0
    BY <1>2, OneMore, ProductMonotonic
<1>8. c <= n * g
    BY <1>2, <1>5, <1>7
<1>9. n * d <= elapsed + d
  <2>1. CASE n = 0
      BY <1>2, <1>6, <1>7, <2>1
  <2>2. CASE n > 0
    <3>1. n - 1 \in Nat /\ (n - 1) + 1 = n
        BY <1>2, <2>2
    <3>2. (n - 1) * d \in Nat /\ n * d = (n - 1) * d + d
        BY <1>2, <3>1, OneMore
    <3> QED
        BY <1>2, <1>5, <2>2, <3>2
  <2> QED
      BY <1>2, <2>1, <2>2
<1> HIDE DEF elapsed
<1>10. elapsed + d \in Nat
    BY <1>2, <1>6
<1>11. c * SECOND <= (n * g) * (d * f)
    BY <1>2, <1>3, <1>7, <1>8, ProductMonotonic
<1>12. (n * g) * (d * f) = (n * d) * (g * f)
    BY <1>2
<1>13. (n * d) * (g * f) <= (elapsed + d) * (g * f)
    BY <1>7, <1>9, <1>10, ProductMonotonic
<1>14. (elapsed + d) * (g * f) <= (elapsed + d) * bandwidth
    BY <1>4, <1>7, <1>10, ProductMonotonic
<1>15. (elapsed + d) * bandwidth = bandwidth * (elapsed + d)
    BY <1>10
<1>16. /\ c * SECOND \in Nat
       /\ (n * d) * (g * f) \in Nat
       /\ (elapsed + d) * (g * f) \in Nat
       /\ (elapsed + d) * bandwidth \in Nat
    BY <1>2, <1>3, <1>7, <1>10, ProductMonotonic
<1>17. c * SECOND <= bandwidth * (elapsed + d)
    BY <1>11, <1>12, <1>13, <1>14, <1>15, <1>16
<1> QED
    BY <1>5, <1>17 DEF Within, elapsed, c

\* The sender is ahead of the receiver by what the connection holds.
LEMMA WithinOfLess ==
    ASSUME NEW a \in Int, NEW b \in Nat, a <= b, NEW bandwidth \in Nat \ {0},
           NEW e, Within(b, bandwidth, e),
           bandwidth * (now - e.start + e.throttle.slice_duration) \in Int
    PROVE  Within(a, bandwidth, e)
<1>1. SECOND \in Nat \ {0}
    BY SecondAssumption
<1>2. a * SECOND <= b * SECOND /\ a * SECOND \in Int /\ b * SECOND \in Nat
  <2>1. CASE a >= 0
      BY <1>1, <2>1, ProductMonotonic
  <2>2. CASE a < 0
    <3> DEFINE m == 0 - a
    <3>1. m \in Nat /\ a = 0 - m
        BY <2>2
    <3> HIDE DEF m
    <3>2. m * SECOND \in Nat /\ b * SECOND \in Nat
        BY <1>1, <3>1
    <3>3. a * SECOND = 0 - m * SECOND
        BY <1>1, <3>1
    <3> QED
        BY <3>2, <3>3
  <2> QED
      BY <2>1, <2>2
<1>3. b * SECOND <= bandwidth * (now - e.start + e.throttle.slice_duration)
    BY DEF Within
<1>4. a * SECOND <= bandwidth * (now - e.start + e.throttle.slice_duration)
  <2> DEFINE p == a * SECOND
             q == b * SECOND
             r == bandwidth * (now - e.start + e.throttle.slice_duration)
  <2>1. p \in Int /\ q \in Int /\ r \in Int /\ p <= q /\ q <= r
      BY <1>2, <1>3
  <2> HIDE DEF p, q, r
  <2>2. p <= r
      BY <2>1
  <2> QED
      BY <2>2 DEF p, r
<1> QED
    BY <1>4 DEF Within

\* --tx-bandwidth and --rx-bandwidth limit the average since the start, each that of
\* its end, and through the connection that of both.
LEMMA ScheduleGoverns == ScheduleInv => SlowerEndGoverns
<1> SUFFICES ASSUME EndsInv, Connection PROVE SlowerEndGoverns
    BY ScheduleParts
<1>1. ASSUME Started(sender), Whole(test.sender)
      PROVE  Within(sender.count, test.sender.send_bandwidth, sender)
    BY <1>1, EndsType, ScheduleWithinBandwidth DEF EndsInv
<1>2. ASSUME Started(receiver), Whole(test.receiver)
      PROVE  /\ Within(receiver.count, test.receiver.receive_bandwidth, receiver)
             /\ Within(sender.count - ROOM, test.receiver.receive_bandwidth, receiver)
  <2>1. Within(receiver.count, test.receiver.receive_bandwidth, receiver)
      BY <1>2, EndsType, ScheduleWithinBandwidth DEF EndsInv
  <2>2. /\ sender.count \in Nat /\ receiver.count \in Nat /\ ROOM \in Nat
        /\ receiver.start \in Nat /\ receiver.throttle.slice_duration \in Nat
        /\ now \in Nat /\ test.receiver.receive_bandwidth \in Nat \ {0}
      BY EndsType, EndType, PairAssumption
  <2>3. sender.count - ROOM \in Int /\ sender.count - ROOM <= receiver.count
      BY <2>2 DEF Connection, in_flight
  <2>4. now - receiver.start + receiver.throttle.slice_duration \in Int
      BY <2>2
  <2>5. test.receiver.receive_bandwidth
            * (now - receiver.start + receiver.throttle.slice_duration) \in Int
      BY <2>2, <2>4
  <2>6. Within(sender.count - ROOM, test.receiver.receive_bandwidth, receiver)
      BY <2>1, <2>2, <2>3, <2>5, WithinOfLess
  <2> QED
      BY <2>1, <2>6
<1> QED
    BY <1>1, <1>2 DEF SlowerEndGoverns

\* The sender keeps to the bandwidth of the slower of the two ends.
THEOREM Governs == Spec => []SlowerEndGoverns
    BY Schedule, ScheduleGoverns, PTL

\* A quotient is at least what its product with the divisor allows.
LEMMA QuotientAtLeast ==
    ASSUME NEW a \in Nat, NEW b \in Nat \ {0}, NEW k \in Nat, k * b <= a
    PROVE  k <= a \div b
<1> DEFINE q == a \div b
<1>1. q \in Nat /\ a < (q + 1) * b
    BY QuotientBound
<1> HIDE DEF q
<1>2. q + 1 \in Nat /\ (q + 1) * b \in Nat /\ k * b \in Nat
    BY <1>1
<1>3. k * b < (q + 1) * b
    BY <1>1, <1>2
<1>4. k + 1 <= q + 1
    BY <1>2, <1>3, FactorLess
<1> QED
    BY <1>1, <1>4 DEF q

\* The slice that an end is on is not after the last one.
LEMMA OnTimeByLastSlice ==
    ASSUME NEW conf \in Configuration, NEW bandwidth \in Nat \ {0}, EndsInv,
           NEW ahead, NEW e, EndInv(e, conf, bandwidth, test.size, now, ahead),
           grant(conf, bandwidth) > 0, OnTime(e, conf)
    PROVE  ByLastSlice(conf, bandwidth)
<1> DEFINE g == grant(conf, bandwidth)
           k == latest(e, test.size)
           last == (test.size - 1) \div g
<1>1. /\ g \in Nat \ {0} /\ test.size - 1 \in Nat /\ now \in Nat
      /\ slice_time(conf) \in Nat /\ launched \in Int
    BY EndsType, ConfigurationType, LatestType
<1>2. k \in Nat /\ k * g <= test.size - 1
    BY EndsType, LatestNeeded
<1>3. now <= launched + k * slice_time(conf) + LATENESS
    BY DEF OnTime
<1> HIDE DEF g, k
<1>4. last \in Nat /\ k <= last
    BY <1>1, <1>2, QuotientAtLeast, QuotientBound
<1> HIDE DEF last
<1>5. now <= launched + last * slice_time(conf) + LATENESS
    BY <1>1, <1>2, <1>3, <1>4, LaterSlice
<1>6. last * slice_time(conf) \in Nat /\ LATENESS \in Nat
    BY <1>1, <1>4, PairAssumption
<1>7. now <= launched + LATENESS + last * slice_time(conf)
    BY <1>1, <1>5, <1>6
<1> QED
    BY <1>7 DEF ByLastSlice, last, g

\* Lateness does not add up over the slices.
LEMMA ScheduleDoesNotDrift == ScheduleInv => NoDrift
<1> SUFFICES ASSUME EndsInv, test.prompt, Grants, Prompt, sender.status # "absent",
                    UnderWay(sender) \/ UnderWay(receiver)
             PROVE  \/ ByLastSlice(test.sender, test.sender.send_bandwidth)
                    \/ ByLastSlice(test.receiver, test.receiver.receive_bandwidth)
    BY ScheduleParts DEF NoDrift
<1>1. OnTime(sender, test.sender) \/ OnTime(receiver, test.receiver)
    BY DEF Prompt
<1>2. CASE OnTime(sender, test.sender)
    BY <1>2, EndsType, OnTimeByLastSlice DEF EndsInv, Grants
<1>3. CASE OnTime(receiver, test.receiver)
    BY <1>3, EndsType, OnTimeByLastSlice DEF EndsInv, Grants
<1> QED
    BY <1>1, <1>2, <1>3

\* On prompt hosts a late handler delays its own slice, and the lateness of neither
\* end, nor of both, adds up.
THEOREM KeepsSchedule == Spec => []NoDrift
    BY Schedule, ScheduleDoesNotDrift, PTL

\* A throttle without remainder grants the bandwidth.
LEMMA ExactGrants ==
    ASSUME NEW conf \in Configuration, NEW bandwidth \in Nat \ {0},
           Exact(conf, bandwidth)
    PROVE  /\ conf.sampling_frequency \in Nat \ {0}
           /\ slice_time(conf) * conf.sampling_frequency = SECOND
           /\ grant(conf, bandwidth) * conf.sampling_frequency = bandwidth
           /\ grant(conf, bandwidth) > 0
<1> DEFINE f == conf.sampling_frequency
           g == grant(conf, bandwidth)
<1>1. f \in Nat \ {0} /\ g \in Nat
    BY ConfigurationType DEF Configuration
<1>2. bandwidth % f = 0 /\ slice_time(conf) * f = SECOND
    BY DEF Exact, Whole
<1>3. g * f = bandwidth
  <2>1. g = bandwidth \div f
      BY DEF grant, to_slice_bytes_count
  <2>2. bandwidth = (bandwidth \div f) * f + (bandwidth % f)
      BY <1>1
  <2>3. (bandwidth \div f) * f \in Nat
      BY <1>1
  <2> QED
      BY <1>2, <2>1, <2>2, <2>3
<1> HIDE DEF f, g
<1>4. g # 0
  <2>1. 0 * f = 0
      BY <1>1, OneMore
  <2> QED
      BY <1>3, <2>1
<1> QED
    BY <1>1, <1>2, <1>3, <1>4 DEF f, g

\* The theoretical time of the size at a bandwidth that an end attains covers one
\* more slice than the end needs.
LEMMA TimeCoversSlices ==
    ASSUME NEW size \in Nat \ {0}, NEW slow \in Nat \ {0},
           NEW g \in Nat \ {0}, NEW f \in Nat \ {0}, NEW d \in Nat, d * f = SECOND,
           slow <= g * f, NEW k \in Nat, k * g <= size - 1
    PROVE  k * d + d <= (size \div slow + 1) * SECOND
<1> DEFINE q == size \div slow + 1
<1>1. q \in Nat /\ size < q * slow
    BY QuotientBound
<1> HIDE DEF q
<1>2. g * f \in Nat /\ q * f \in Nat /\ k * g \in Nat
    BY <1>1
<1>3. q * slow <= q * (g * f) /\ q * slow \in Nat /\ q * (g * f) \in Nat
    BY <1>1, <1>2, ProductMonotonic
<1>4. q * (g * f) = (q * f) * g
    BY <1>1
<1>5. k * g < (q * f) * g
    BY <1>1, <1>2, <1>3, <1>4
<1>6. k + 1 <= q * f
    BY <1>2, <1>5, FactorLess
<1>7. (k + 1) * d <= (q * f) * d /\ (k + 1) * d \in Nat
    BY <1>2, <1>6, ProductMonotonic
<1>8. (q * f) * d = q * (d * f)
    BY <1>1
<1>9. (k + 1) * d = k * d + d
    BY OneMore
<1>10. k * d + d <= q * SECOND
    BY <1>7, <1>8, <1>9
<1> QED
    BY <1>10 DEF q

\* The timer of one end leaves the slices of either end the time that they need, the
\* margin and a slice.
LEMMA EstimateCovers ==
    ASSUME NEW own \in Configuration, NEW conf \in Configuration,
           NEW bandwidth \in Nat \ {0}, NEW size \in Nat \ {0}, NEW time, NEW ahead,
           NEW e, EndInv(e, conf, bandwidth, size, time, ahead),
           Exact(conf, bandwidth), slowest(own) <= bandwidth
    PROVE  latest(e, size) * slice_time(conf) + slice_time(conf) + margin(own, size)
                <= estimate_test_duration(own, size)
<1> DEFINE f == conf.sampling_frequency
           g == grant(conf, bandwidth)
           d == slice_time(conf)
           k == latest(e, size)
           slow == slowest(own)
<1>1. /\ f \in Nat \ {0} /\ g \in Nat \ {0} /\ d \in Nat /\ d * f = SECOND
      /\ g * f = bandwidth
    BY ExactGrants, ConfigurationType
<1>2. k \in Nat /\ k * g <= size - 1
    BY <1>1, LatestNeeded
<1>3. slow \in Nat \ {0} /\ slow <= bandwidth
    BY ConfigurationType
<1> HIDE DEF f, g, d, k, slow
<1>4. k * d + d <= (size \div slow + 1) * SECOND
    BY <1>1, <1>2, <1>3, TimeCoversSlices
<1>5. theoretical(own, size) = (size \div slow + 1) * SECOND
    BY DEF theoretical, slow
<1>6. /\ theoretical(own, size) \in Nat /\ margin(own, size) \in Nat
      /\ estimate_test_duration(own, size) = theoretical(own, size) + margin(own, size)
    BY ConfigurationType DEF estimate_test_duration
<1>7. k * d \in Nat
    BY <1>1, <1>2
<1> HIDE DEF theoretical, margin, estimate_test_duration
<1>8. k * d + d + margin(own, size) <= estimate_test_duration(own, size)
    BY <1>1, <1>4, <1>5, <1>6, <1>7
<1> QED
    BY <1>8 DEF k, d

-----------------------------------------------------------------------------
(* The timers.                                                             *)

\* The configurations that TimeoutExplained is about.
ExactTest ==
    /\ test.prompt
    /\ Exact(test.sender, test.sender.send_bandwidth)
    /\ Exact(test.receiver, test.receiver.receive_bandwidth)

AtRate(conf) ==
    /\ slowest(conf) <= test.sender.send_bandwidth
    /\ slowest(conf) <= test.receiver.receive_bandwidth

\* The other end is as fast as this one assumes, or it is not.
LEMMA RateOf ==
    ASSUME NEW conf \in Configuration, test \in Tests
    PROVE  LET rate == Least(test.sender.send_bandwidth, test.receiver.receive_bandwidth)
           IN  AtRate(conf) <=> ~(rate < slowest(conf))
<1>1. /\ test.sender.send_bandwidth \in Nat \ {0}
      /\ test.receiver.receive_bandwidth \in Nat \ {0}
    BY TestType
<1>2. slowest(conf) \in Nat
    BY DEF Configuration, slowest, Least
<1> HIDE DEF slowest
<1> QED
    BY <1>1, <1>2 DEF AtRate, Least

\* TimeoutExplained in these terms.
LEMMA TimeoutTerms ==
    ASSUME test \in Tests
    PROVE  TimeoutExplained <=>
              (ExactTest =>
                /\ sender.status = "timeout" =>
                        \/ ~AtRate(test.sender)
                        \/ LATENESS + Ahead(sender) >= Spare(test.sender)
                /\ receiver.status = "timeout" =>
                        \/ ~AtRate(test.receiver)
                        \/ sender.status = "absent"
                        \/ launched + LATENESS + Ahead(receiver) >= Spare(test.receiver))
<1>1. test.sender \in Configuration /\ test.receiver \in Configuration
    BY TestType
<1> DEFINE rate == Least(test.sender.send_bandwidth, test.receiver.receive_bandwidth)
<1>2. /\ AtRate(test.sender) <=> ~(rate < slowest(test.sender))
      /\ AtRate(test.receiver) <=> ~(rate < slowest(test.receiver))
    BY <1>1, RateOf
<1>3. TimeoutExplained <=>
        (ExactTest =>
            /\ sender.status = "timeout" =>
                    \/ rate < slowest(test.sender)
                    \/ LATENESS + Ahead(sender) >= Spare(test.sender)
            /\ receiver.status = "timeout" =>
                    \/ rate < slowest(test.receiver)
                    \/ sender.status = "absent"
                    \/ launched + LATENESS + Ahead(receiver) >= Spare(test.receiver))
    BY DEF TimeoutExplained, ExactTest
<1> HIDE DEF rate
<1> QED
    BY <1>2, <1>3

\* The same of the next state.
LEMMA TimeoutTermsNext ==
    ASSUME test \in Tests, test' = test,
           ExactTest' =>
                /\ sender'.status = "timeout" =>
                        \/ ~AtRate(test.sender)'
                        \/ LATENESS + Ahead(sender)' >= Spare(test.sender)'
                /\ receiver'.status = "timeout" =>
                        \/ ~AtRate(test.receiver)'
                        \/ sender'.status = "absent"
                        \/ launched' + LATENESS + Ahead(receiver)' >= Spare(test.receiver)'
    PROVE  TimeoutExplained'
<1>1. test.sender \in Configuration /\ test.receiver \in Configuration
    BY TestType
<1> DEFINE rate == Least(test.sender.send_bandwidth, test.receiver.receive_bandwidth)
<1>2. /\ AtRate(test.sender) <=> ~(rate < slowest(test.sender))
      /\ AtRate(test.receiver) <=> ~(rate < slowest(test.receiver))
    BY <1>1, RateOf
<1>3. /\ AtRate(test.sender)' <=> AtRate(test.sender)
      /\ AtRate(test.receiver)' <=> AtRate(test.receiver)
    BY DEF AtRate
<1>4. TimeoutExplained' <=>
        (ExactTest' =>
            /\ sender'.status = "timeout" =>
                    \/ rate < slowest(test.sender)
                    \/ LATENESS + Ahead(sender)' >= Spare(test.sender)'
            /\ receiver'.status = "timeout" =>
                    \/ rate < slowest(test.receiver)
                    \/ sender'.status = "absent"
                    \/ launched' + LATENESS + Ahead(receiver)' >= Spare(test.receiver)')
    BY DEF TimeoutExplained, ExactTest
<1> HIDE DEF rate
<1> QED
    BY <1>2, <1>3, <1>4

\* What an end whose time is up has left for handlers that are late.
LEMMA LateForOwn ==
    ASSUME EndsInv, NEW own \in Configuration, NEW conf \in Configuration,
           NEW bandwidth \in Nat \ {0},
           NEW e, EndInv(e, conf, bandwidth, test.size, now, offset),
           Exact(conf, bandwidth), slowest(own) <= bandwidth, OnTime(e, conf)
    PROVE  now + margin(own, test.size) + slice_time(conf)
                <= launched + LATENESS + estimate_test_duration(own, test.size)
<1> DEFINE p == latest(e, test.size) * slice_time(conf)
           d == slice_time(conf)
           m == margin(own, test.size)
           estimate == estimate_test_duration(own, test.size)
<1>1. p + d + m <= estimate
    BY EndsType, EstimateCovers
<1>2. now <= launched + p + LATENESS
    BY DEF OnTime
<1>3. /\ p \in Nat /\ d \in Nat /\ m \in Nat /\ estimate \in Nat
      /\ now \in Nat /\ launched \in Int /\ LATENESS \in Nat
  <2>1. latest(e, test.size) \in Nat /\ d \in Nat
      BY EndsType, LatestNeeded, ConfigurationType
  <2>2. p \in Nat
      BY <2>1, OneMore
  <2> QED
      BY <2>1, <2>2, EndsType, LatestType, ConfigurationType, PairAssumption
<1> HIDE DEF p, d, m, estimate
<1>4. now + m + d <= launched + LATENESS + estimate
    BY <1>1, <1>2, <1>3
<1> QED
    BY <1>4 DEF m, d, estimate

\* One of the two ends is on time, and has that much.
LEMMA LateForEither ==
    ASSUME EndsInv, ExactTest, Prompt, sender.status # "absent",
           UnderWay(sender) \/ UnderWay(receiver),
           NEW own \in Configuration, AtRate(own)
    PROVE  now + Spare(own)
                <= launched + LATENESS + estimate_test_duration(own, test.size)
<1>1. /\ Exact(test.sender, test.sender.send_bandwidth)
      /\ Exact(test.receiver, test.receiver.receive_bandwidth)
    BY DEF ExactTest
<1>2. Grants
    BY <1>1, EndsType, ExactGrants DEF Grants
<1>3. OnTime(sender, test.sender) \/ OnTime(receiver, test.receiver)
    BY <1>2 DEF Prompt
<1> DEFINE d1 == slice_time(test.sender)
           d2 == slice_time(test.receiver)
           m == margin(own, test.size)
           limit == launched + LATENESS + estimate_test_duration(own, test.size)
<1>4. /\ d1 \in Nat /\ d2 \in Nat /\ m \in Nat /\ now \in Nat /\ limit \in Int
    BY EndsType, LatestType, ConfigurationType, PairAssumption
<1>5. now + m + d1 <= limit \/ now + m + d2 <= limit
  <2>1. CASE OnTime(sender, test.sender)
      BY <1>1, <2>1, EndsType, LateForOwn DEF EndsInv, AtRate
  <2>2. CASE OnTime(receiver, test.receiver)
      BY <1>1, <2>2, EndsType, LateForOwn DEF EndsInv, AtRate
  <2> QED
      BY <1>3, <2>1, <2>2
<1>6. Spare(own) = m + Least(d1, d2)
    BY DEF Spare
<1> HIDE DEF d1, d2, m, limit
<1>7. now + Spare(own) <= limit
    BY <1>4, <1>5, <1>6 DEF Least
<1> QED
    BY <1>7 DEF limit

\* What is left is a number.
LEMMA SpareType ==
    ASSUME EndsInv, NEW own \in Configuration
    PROVE  Spare(own) \in Nat
<1>1. slice_time(test.sender) \in Nat /\ slice_time(test.receiver) \in Nat
    BY LatestType
<1>2. margin(own, test.size) \in Nat
  <2>1. 1 \in Nat \ {0} /\ test.size \in Nat \ {0}
      BY EndsType
  <2> QED
      BY <2>1, ConfigurationType
<1> QED
    BY <1>1, <1>2 DEF Spare, Least

\* The sender times out,
LEMMA SenderTimeout ==
    ASSUME EndsInv, TimersInv, ExactTest, Prompt, Expires(sender), AtRate(test.sender)
    PROVE  LATENESS + Ahead(sender) >= Spare(test.sender)
<1> DEFINE estimate == estimate_test_duration(test.sender, test.size)
<1>1. now + Spare(test.sender) <= launched + LATENESS + estimate
    BY EndsType, LateForEither DEF UnderWay, Expires
<1>2. now + Ahead(sender) >= launched + estimate
    BY EndsType, TimeIsUp DEF TimersInv, launched
<1>3. /\ now \in Nat /\ estimate \in Nat /\ LATENESS \in Nat /\ launched \in Int
      /\ Ahead(sender) \in Nat
    BY EndsType, LatestType, TimersType, PairAssumption
<1>4. Spare(test.sender) \in Nat
    BY EndsType, SpareType
<1> HIDE DEF estimate
<1> QED
    BY <1>1, <1>2, <1>3, <1>4

\* the receiver does when the sender is there,
LEMMA ReceiverTimeout ==
    ASSUME EndsInv, TimersInv, Connection, ExactTest, Prompt, sender.status # "absent",
           Expires(receiver), AtRate(test.receiver)
    PROVE  launched + LATENESS + Ahead(receiver) >= Spare(test.receiver)
<1> DEFINE estimate == estimate_test_duration(test.receiver, test.size)
<1>1. now + Spare(test.receiver) <= launched + LATENESS + estimate
    BY EndsType, LateForEither DEF Expires
<1>2. now + Ahead(receiver) >= estimate
    BY ReceiverTimeIsUp
<1>3. /\ now \in Nat /\ estimate \in Nat /\ LATENESS \in Nat /\ launched \in Int
      /\ Ahead(receiver) \in Nat
    BY EndsType, LatestType, TimersType, PairAssumption
<1>4. Spare(test.receiver) \in Nat
    BY EndsType, SpareType
<1> HIDE DEF estimate
<1> QED
    BY <1>1, <1>2, <1>3, <1>4

\* and the sender is launched when the receiver has timed out.
LEMMA LateLaunch ==
    ASSUME EndsInv, ExactTest, NEW time \in Nat,
           time >= estimate_test_duration(test.receiver, test.size)
    PROVE  time >= Spare(test.receiver)
<1> DEFINE f == test.receiver.sampling_frequency
           d == slice_time(test.receiver)
           q == test.size \div slowest(test.receiver)
           m == margin(test.receiver, test.size)
<1>1. f \in Nat \ {0} /\ d \in Nat /\ d * f = SECOND
    BY EndsType, ExactGrants, ConfigurationType DEF ExactTest
<1>2. q \in Nat /\ m \in Nat /\ slice_time(test.sender) \in Nat
    BY EndsType, ConfigurationType, QuotientBound
<1>3. time >= (q + 1) * SECOND + m
    BY DEF estimate_test_duration, theoretical
<1>4. Spare(test.receiver) \in Nat /\ Spare(test.receiver) <= m + d
    BY <1>1, <1>2 DEF Spare, Least
<1> HIDE DEF f, d, q, m
<1>5. d * 1 <= d * f /\ d * 1 = d
    BY <1>1, ProductMonotonic
<1>6. 1 * SECOND <= (q + 1) * SECOND /\ 1 * SECOND = SECOND /\ (q + 1) * SECOND \in Nat
    BY <1>2, SecondAssumption, ProductMonotonic
<1>7. SECOND \in Nat
    BY SecondAssumption
<1>8. m + d <= time
    BY <1>1, <1>2, <1>3, <1>5, <1>6, <1>7
<1> QED
    BY <1>1, <1>2, <1>4, <1>8

\* A step by which no timer expires, and the sender is not launched.
LEMMA NoTimeout ==
    ASSUME EndsInv, TimersInv, EndsInv', TimeoutExplained, test' = test,
           offset' = offset \/ offset = 0,
           sender'.launched = sender.launched,
           sender'.ahead = sender.ahead, receiver'.ahead = receiver.ahead,
           sender'.status = "absent" <=> sender.status = "absent",
           sender'.status = "timeout" => sender.status = "timeout",
           receiver'.status = "timeout" => receiver.status = "timeout"
    PROVE  TimeoutExplained'
<1>1. launched' = launched /\ launched \in Int /\ LATENESS \in Nat
    BY LatestType, PairAssumption DEF launched
<1>2. /\ Ahead(sender) \in Nat /\ Ahead(receiver) \in Nat
      /\ Ahead(sender)' \in Nat /\ Ahead(receiver)' \in Nat
    BY TimersType, AheadTypeNext
<1>3. Ahead(sender) <= Ahead(sender)' /\ Ahead(receiver) <= Ahead(receiver)'
  <2>1. CASE offset' = offset
    <3>1. Ahead(sender)' = Ahead(sender) /\ Ahead(receiver)' = Ahead(receiver)
        BY <2>1 DEF Ahead
    <3> QED
        BY <1>2, <3>1
  <2>2. CASE offset = 0
    <3>1. Ahead(sender) = 0 /\ Ahead(receiver) = 0
        BY <2>2 DEF TimersInv, Timed, Ahead
    <3> QED
        BY <1>2, <3>1
  <2> QED
      BY <2>1, <2>2
<1>4. Spare(test.sender) \in Nat /\ Spare(test.receiver) \in Nat
    BY EndsType, SpareType
<1>5. /\ Spare(test.sender)' = Spare(test.sender)
      /\ Spare(test.receiver)' = Spare(test.receiver)
      /\ ExactTest' = ExactTest
      /\ AtRate(test.sender)' = AtRate(test.sender)
      /\ AtRate(test.receiver)' = AtRate(test.receiver)
    BY DEF Spare, ExactTest, Exact, Whole, AtRate
<1>6. /\ LATENESS + Ahead(sender) >= Spare(test.sender)
            => LATENESS + Ahead(sender)' >= Spare(test.sender)
      /\ launched + LATENESS + Ahead(receiver) >= Spare(test.receiver)
            => launched + LATENESS + Ahead(receiver)' >= Spare(test.receiver)
    BY <1>1, <1>2, <1>3, <1>4
<1>7. test \in Tests
    BY EndsType
<1>8. ExactTest =>
            /\ sender.status = "timeout" =>
                    \/ ~AtRate(test.sender)
                    \/ LATENESS + Ahead(sender) >= Spare(test.sender)
            /\ receiver.status = "timeout" =>
                    \/ ~AtRate(test.receiver)
                    \/ sender.status = "absent"
                    \/ launched + LATENESS + Ahead(receiver) >= Spare(test.receiver)
    BY <1>7, TimeoutTerms
<1>9. ExactTest' =>
            /\ sender'.status = "timeout" =>
                    \/ ~AtRate(test.sender)'
                    \/ LATENESS + Ahead(sender)' >= Spare(test.sender)'
            /\ receiver'.status = "timeout" =>
                    \/ ~AtRate(test.receiver)'
                    \/ sender'.status = "absent"
                    \/ launched' + LATENESS + Ahead(receiver)' >= Spare(test.receiver)'
    BY <1>1, <1>5, <1>6, <1>8
<1> QED
    BY <1>7, <1>9, TimeoutTermsNext

\* Every timeout has its reason when it happens, and keeps it.
LEMMA TimeoutStep ==
    ASSUME EndsInv, TimersInv, Connection, test.prompt => Prompt, TimeoutExplained,
           [Next]_vars
    PROVE  TimeoutExplained'
<1>t. test \in Tests
    BY EndsType
<1>e. EndsInv'
    BY EndsStep
<1>1. CASE LaunchesSender
  <2>1. /\ UNCHANGED <<now, offset, test, receiver>> /\ EndsInv'
        /\ sender.status = "absent" /\ sender'.status = "connecting"
        /\ sender'.launched = now
      BY <1>1, LaunchesSenderEffect
  <2>2. launched' = now /\ now \in Nat /\ LATENESS \in Nat /\ Ahead(receiver) \in Nat
      BY <2>1, EndsType, TimersType, PairAssumption DEF launched
  <2>3. ASSUME ExactTest, receiver.status = "timeout"
        PROVE  now + LATENESS + Ahead(receiver) >= Spare(test.receiver)
    <3>1. now + Ahead(receiver) >= estimate_test_duration(test.receiver, test.size)
        BY <2>1, <2>3 DEF ExactTest, Prompt
    <3>2. now + Ahead(receiver) >= Spare(test.receiver)
        BY <2>2, <2>3, <3>1, LateLaunch
    <3>3. Spare(test.receiver) \in Nat
        BY EndsType, SpareType
    <3> QED
        BY <2>2, <3>2, <3>3
  <2>4. ASSUME ExactTest', receiver'.status = "timeout"
        PROVE  launched' + LATENESS + Ahead(receiver)' >= Spare(test.receiver)'
    <3>1. ExactTest /\ receiver.status = "timeout"
        BY <2>1, <2>4 DEF ExactTest, Exact, Whole
    <3>2. Spare(test.receiver)' = Spare(test.receiver) /\ Ahead(receiver)' = Ahead(receiver)
        BY <2>1 DEF Spare, Ahead
    <3> QED
        BY <2>2, <2>3, <3>1, <3>2
  <2> QED
      BY <2>1, <2>4 DEF TimeoutExplained, ExactTest
<1>2. CASE SenderStarts
    BY <1>2, <1>e, SenderStartsEffect, NoTimeout DEF SameTimer
<1>3. CASE ReceiverStarts
    BY <1>3, <1>e, ReceiverStartsEffect, NoTimeout DEF SameTimer
<1>4. CASE SenderTakesSlice
    BY <1>4, <1>e, SenderTakesSliceEffect, NoTimeout DEF SameTimer
<1>5. CASE ReceiverTakesSlice
    BY <1>5, <1>e, ReceiverTakesSliceEffect, NoTimeout DEF SameTimer
<1>6. CASE Sends
    BY <1>6, <1>e, SendsEffect, NoTimeout DEF SameTimer
<1>7. CASE Receives
    BY <1>7, <1>e, ReceivesEffect, NoTimeout DEF SameTimer
<1>8. CASE SenderEnds \/ SenderTimesOut \/ SenderDisconnected
  <2>1. PICK status : SenderIsOver(status)
      BY <1>8, SenderOverActions
  <2>2. /\ UNCHANGED <<now, offset, test, receiver>> /\ sender'.status = status
        /\ SameTimer(sender', sender)
        /\ status \in {"timeout", "disconnected", "complete"}
        /\ UnderWay(sender)
        /\ status = "timeout" => Expires(sender)
      BY <2>1, SenderOverEffect DEF SenderIsOver, UnderWay
  <2>3. CASE status # "timeout"
      BY <1>e, <2>2, <2>3, NoTimeout DEF UnderWay, SameTimer
  <2>4. CASE status = "timeout"
    <3>1. /\ launched' = launched
          /\ Ahead(sender)' = Ahead(sender) /\ Ahead(receiver)' = Ahead(receiver)
        BY <2>2 DEF launched, Ahead, SameTimer
    <3>2. ExactTest' = ExactTest
        BY <2>2 DEF ExactTest, Exact, Whole
    <3>3. AtRate(test.sender)' = AtRate(test.sender) /\ AtRate(test.receiver)' = AtRate(test.receiver)
        BY <2>2 DEF AtRate
    <3>4. /\ Spare(test.sender)' = Spare(test.sender)
          /\ Spare(test.receiver)' = Spare(test.receiver)
        BY <2>2 DEF Spare
    <3>5. ASSUME ExactTest
          PROVE  /\ ~AtRate(test.sender) \/ LATENESS + Ahead(sender) >= Spare(test.sender)
                 /\ receiver.status = "timeout" =>
                        \/ ~AtRate(test.receiver)
                        \/ launched + LATENESS + Ahead(receiver) >= Spare(test.receiver)
      <4>1. ~AtRate(test.sender) \/ LATENESS + Ahead(sender) >= Spare(test.sender)
          BY <2>2, <2>4, <3>5, SenderTimeout DEF ExactTest
      <4>2. sender.status # "absent"
          BY <2>2 DEF UnderWay
      <4> QED
          BY <1>t, <3>5, <4>1, <4>2, TimeoutTerms
    <3>6. ExactTest' =>
            /\ sender'.status = "timeout" =>
                    \/ ~AtRate(test.sender)'
                    \/ LATENESS + Ahead(sender)' >= Spare(test.sender)'
            /\ receiver'.status = "timeout" =>
                    \/ ~AtRate(test.receiver)'
                    \/ sender'.status = "absent"
                    \/ launched' + LATENESS + Ahead(receiver)' >= Spare(test.receiver)'
        BY <2>2, <3>1, <3>2, <3>3, <3>4, <3>5
    <3> QED
        BY <1>t, <2>2, <3>6, TimeoutTermsNext
  <2> QED
      BY <2>3, <2>4
<1>9. CASE ReceiverEnds \/ ReceiverTimesOut \/ ReceiverDisconnected
  <2>1. PICK status : ReceiverIsOver(status)
      BY <1>9, ReceiverOverActions
  <2>2. /\ UNCHANGED <<now, offset, test, sender>> /\ receiver'.status = status
        /\ SameTimer(receiver', receiver)
        /\ status \in {"timeout", "disconnected", "complete"}
        /\ UnderWay(receiver)
        /\ status = "timeout" => Expires(receiver)
      BY <2>1, ReceiverOverEffect DEF ReceiverIsOver, UnderWay
  <2>3. CASE status # "timeout"
      BY <1>e, <2>2, <2>3, NoTimeout DEF SameTimer
  <2>4. CASE status = "timeout"
    <3>1. /\ launched' = launched
          /\ Ahead(sender)' = Ahead(sender) /\ Ahead(receiver)' = Ahead(receiver)
        BY <2>2 DEF launched, Ahead, SameTimer
    <3>2. ExactTest' = ExactTest
        BY <2>2 DEF ExactTest, Exact, Whole
    <3>3. AtRate(test.sender)' = AtRate(test.sender) /\ AtRate(test.receiver)' = AtRate(test.receiver)
        BY <2>2 DEF AtRate
    <3>4. /\ Spare(test.sender)' = Spare(test.sender)
          /\ Spare(test.receiver)' = Spare(test.receiver)
        BY <2>2 DEF Spare
    <3>5. ASSUME ExactTest
          PROVE  /\ sender.status = "timeout" =>
                        \/ ~AtRate(test.sender)
                        \/ LATENESS + Ahead(sender) >= Spare(test.sender)
                 /\ \/ ~AtRate(test.receiver)
                    \/ sender.status = "absent"
                    \/ launched + LATENESS + Ahead(receiver) >= Spare(test.receiver)
      <4>1. \/ ~AtRate(test.receiver) \/ sender.status = "absent"
            \/ launched + LATENESS + Ahead(receiver) >= Spare(test.receiver)
          BY <2>2, <2>4, <3>5, ReceiverTimeout DEF ExactTest
      <4> QED
          BY <1>t, <3>5, <4>1, TimeoutTerms
    <3>6. ExactTest' =>
            /\ sender'.status = "timeout" =>
                    \/ ~AtRate(test.sender)'
                    \/ LATENESS + Ahead(sender)' >= Spare(test.sender)'
            /\ receiver'.status = "timeout" =>
                    \/ ~AtRate(test.receiver)'
                    \/ sender'.status = "absent"
                    \/ launched' + LATENESS + Ahead(receiver)' >= Spare(test.receiver)'
        BY <2>2, <3>1, <3>2, <3>3, <3>4, <3>5
    <3> QED
        BY <1>t, <2>2, <3>6, TimeoutTermsNext
  <2> QED
      BY <2>3, <2>4
<1>10. CASE Tick
    BY <1>10, <1>e, NoTimeout DEF Tick
<1>11. CASE SetsClock
    BY <1>11, <1>e, SetsClockEffect, NoTimeout
<1>12. CASE UNCHANGED vars
    BY <1>12, <1>e, NoTimeout DEF vars
<1> QED
    BY <1>1, <1>2, <1>3, <1>4, <1>5, <1>6, <1>7, <1>8, <1>9, <1>10, <1>11, <1>12 DEF Next

\* At first nothing has timed out.
LEMMA TimeoutInit == Init => TimeoutExplained
    BY DEF Init, TimeoutExplained, launch

\* On prompt hosts a test only times out when an end is slower than the other assumes,
\* or when the sender comes so late, handlers are so late and the clock of the wall is
\* set forward so far, altogether, that what there is to spare does not cover it.
THEOREM Explained == Spec => []TimeoutExplained
<1>1. Init => TimeoutExplained
    BY TimeoutInit
<1>2. ScheduleInv /\ TimeoutExplained /\ [Next]_vars => TimeoutExplained'
    BY ScheduleParts, TimeoutStep
<1> QED
    BY <1>1, <1>2, Schedule, PTL DEF Spec

\* A rate that is rounded down, and what it leaves out.
LEMMA RoundedRate ==
    ASSUME NEW count \in Nat, NEW ticks \in Nat \ {0}, NEW milli \in Nat \ {0}
    PROVE  LET rate == (count \div ticks) * milli
           IN  /\ rate \in Nat
               /\ rate * ticks <= count * milli
               /\ count * milli < (rate + milli) * ticks
<1> DEFINE q == count \div ticks
           rate == q * milli
<1>1. q \in Nat /\ q * ticks <= count /\ count < (q + 1) * ticks
    BY QuotientBound
<1> HIDE DEF q
<1>2. rate \in Nat /\ q * ticks \in Nat /\ (q + 1) * ticks \in Nat
    BY <1>1
<1>3. (q * ticks) * milli <= count * milli
    BY <1>1, <1>2, ProductMonotonic
<1>4. rate * ticks = (q * ticks) * milli
    BY <1>1
<1>5. (rate + milli) * ticks = ((q + 1) * ticks) * milli
    BY <1>1
<1>6. count + 1 <= (q + 1) * ticks /\ count + 1 \in Nat
    BY <1>1, <1>2
<1>7. (count + 1) * milli <= ((q + 1) * ticks) * milli
    BY <1>2, <1>6, ProductMonotonic
<1>8. (count + 1) * milli = count * milli + milli /\ count * milli \in Nat
    BY OneMore
<1>9. ((q + 1) * ticks) * milli \in Nat
    BY <1>2
<1>10. count * milli < (rate + milli) * ticks
    BY <1>5, <1>7, <1>8, <1>9
<1> QED
    BY <1>2, <1>3, <1>4, <1>10 DEF q

\* What is printed is a rate, or that it is undefined.
LEMMA BandwidthRange ==
    ASSUME NEW count \in Nat, NEW duration \in Int
    PROVE  compute_bandwidth(count, duration) \in Undefined .. count * MILLI
<1> DEFINE magnitude == IF duration < 0 THEN - duration ELSE duration
           total == (magnitude * MILLI) \div SECOND
<1>1. MILLI \in Nat \ {0} /\ SECOND \in Nat \ {0}
    BY PairAssumption, SecondAssumption
<1>2. magnitude \in Nat
    OBVIOUS
<1> HIDE DEF magnitude
<1>3. magnitude * MILLI \in Nat /\ count * MILLI \in Nat
    BY <1>1, <1>2
<1>4. total \in Nat
    BY <1>1, <1>3, QuotientBound
<1>5. compute_bandwidth(count, duration) =
        IF total = 0 THEN Undefined ELSE IF duration < 0 THEN 0
        ELSE (count \div total) * MILLI
    BY DEF compute_bandwidth, magnitude
<1> HIDE DEF total
<1>6. ASSUME total # 0
      PROVE  (count \div total) * MILLI \in 0 .. count * MILLI
  <2> DEFINE q == count \div total
  <2>1. q \in Nat /\ q * total <= count /\ total \in Nat \ {0}
      BY <1>4, <1>6, QuotientBound
  <2> HIDE DEF q
  <2>2. q * 1 <= q * total /\ q * 1 = q /\ q * total \in Nat
      BY <2>1, ProductMonotonic
  <2>3. q <= count
      BY <2>1, <2>2
  <2>4. q * MILLI <= count * MILLI /\ q * MILLI \in Nat
      BY <1>1, <2>1, <2>3, ProductMonotonic
  <2> QED
      BY <1>3, <2>4 DEF q
<1> QED
    BY <1>3, <1>5, <1>6 DEF Undefined

\* The statistics of one end.
LEMMA EndStatistics ==
    ASSUME NEW conf, NEW bandwidth, NEW size, NEW time \in Nat,
           NEW e, EndInv(e, conf, bandwidth, size, time, offset),
           e.status \in {"waiting", "complete"}
    PROVE  LET reported == compute_bandwidth(e.count, e.duration)
               elapsed == ((e.finish - e.start) * MILLI) \div SECOND
           IN  IF offset # 0 THEN reported \in Undefined .. e.count * MILLI
               ELSE IF elapsed = 0 THEN reported = Undefined
               ELSE /\ reported * elapsed <= e.count * MILLI
                    /\ e.count * MILLI < (reported + MILLI) * elapsed
<1> DEFINE reported == compute_bandwidth(e.count, e.duration)
           length == e.finish - e.start
           elapsed == (length * MILLI) \div SECOND
<1>1. MILLI \in Nat \ {0} /\ SECOND \in Nat \ {0}
    BY PairAssumption, SecondAssumption
<1>2. e \in End /\ (offset = 0 => Dated(e, time))
    BY DEF EndInv
<1>3. /\ e.count \in Nat /\ e.duration \in Int /\ e.start \in Nat /\ e.finish \in Nat
    BY <1>2, EndType
<1>4. CASE offset # 0
    BY <1>3, <1>4, BandwidthRange
<1>5. CASE offset = 0
  <2>1. e.duration = length /\ length \in Nat
      BY <1>2, <1>3, <1>5 DEF Dated
  <2> HIDE DEF length
  <2>2. length * MILLI \in Nat
      BY <1>1, <2>1
  <2>3. elapsed \in Nat
      BY <1>1, <2>2, QuotientBound
  <2>4. ~(length < 0)
      BY <2>1
  <2>5. reported = IF elapsed = 0 THEN Undefined ELSE (e.count \div elapsed) * MILLI
      BY <2>1, <2>4 DEF compute_bandwidth
  <2> HIDE DEF elapsed, reported
  <2>6. elapsed # 0 => /\ reported * elapsed <= e.count * MILLI
                       /\ e.count * MILLI < (reported + MILLI) * elapsed
      BY <1>1, <1>3, <2>3, <2>5, RoundedRate
  <2> QED
      BY <1>5, <2>5, <2>6 DEF elapsed, reported, length
<1> QED
    BY <1>4, <1>5

\* What the two ends report is what they did.
LEMMA ScheduleReports == ScheduleInv => StatisticsFaithful
<1> SUFFICES ASSUME EndsInv, NEW e \in {sender, receiver},
                    e.status \in {"waiting", "complete"}
             PROVE  LET reported == compute_bandwidth(e.count, e.duration)
                        elapsed == ((e.finish - e.start) * MILLI) \div SECOND
                    IN  IF offset # 0 THEN reported \in Undefined .. e.count * MILLI
                        ELSE IF elapsed = 0 THEN reported = Undefined
                        ELSE /\ reported * elapsed <= e.count * MILLI
                             /\ e.count * MILLI < (reported + MILLI) * elapsed
    BY ScheduleParts DEF StatisticsFaithful
<1>1. CASE e = sender
    BY <1>1, EndsType, EndStatistics DEF EndsInv
<1>2. CASE e = receiver
    BY <1>2, EndsType, EndStatistics DEF EndsInv
<1> QED
    BY <1>1, <1>2

\* The reported bandwidth is that of the transfer, and a number in range when the clock
\* of the wall is set meanwhile.
THEOREM Reports == Spec => []StatisticsFaithful
    BY Schedule, ScheduleReports, PTL
=============================================================================
