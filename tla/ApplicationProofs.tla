-------------------------- MODULE ApplicationProofs --------------------------
(***************************************************************************)
(* For any number of sessions and threads: how far a failure spreads       *)
(* before all threads have seen the exit flag, and what the exit status    *)
(* says of the sessions.                                                   *)
(***************************************************************************)
EXTENDS Application, WellFoundedInduction, TLAPS

FailureInv == TypeOK /\ FailureStopsThread /\ OneFailurePerThread

\* Round robin assigns every session to a thread that exists.
LEMMA RoundRobin ==
    ASSUME TypeOK, NEW s \in Nat \ {0}
    PROVE  /\ io_service(s) \in Thread
           /\ get_concurrency \in Nat \ {0}
<1>1. configuration.cores \in Nat
    BY ConfigurationsAssumption DEF TypeOK
<1>2. get_concurrency \in Nat \ {0}
    BY <1>1 DEF get_concurrency, concurrency
<1> DEFINE n == get_concurrency
<1> HIDE DEF n
<1>3. n \in Nat \ {0}
    BY <1>2 DEF n
<1>4. (s - 1) \in Nat
    OBVIOUS
<1>5. ((s - 1) % n) \in 0 .. (n - 1)
    BY <1>3, <1>4
<1>6. ((s - 1) % n) + 1 \in 1 .. n
    BY <1>3, <1>5
<1> QED
    BY <1>2, <1>6 DEF io_service, Thread, n

\* What a handler makes of an outcome is an outcome; advances keep the failure.
LEMMA Outcomes ==
    ASSUME NEW o \in Session_!Outcome
    PROVE  /\ \A n \in Session_!advances(o) :
                    n \in Session_!Outcome /\ n.failure = o.failure
           /\ \A n \in Session_!aborts(o) : n \in Session_!Outcome
<1>1. \A n \in Session_!advances(o) :
            n \in Session_!Outcome /\ n.failure = o.failure
    BY DEF Session_!advances, Session_!Outcome
<1>2. \A n \in Session_!aborts(o) : n \in Session_!Outcome
  <2>1. CASE o.status = "active"
    <3>1. {"data_mismatch"} \subseteq Session_!ErrorCode
        BY DEF Session_!ErrorCode, Session_!Error
    <3>2. Session_!aborts(o) =
            [status : {"active"},
             failure : Session_!ErrorCode
                            \ {"success", "operation_aborted", "eof"}]
                \cup [status : {"finished"}, failure : {"data_mismatch"}]
        BY <2>1 DEF Session_!aborts
    <3> QED
        BY <3>1, <3>2 DEF Session_!Outcome
  <2>2. CASE o.status = "finished"
    <3>1. Session_!Interruption \subseteq Session_!ErrorCode
        BY DEF Session_!Interruption, Session_!ErrorCode, Session_!Error
    <3>2. Session_!aborts(o) =
            [status : {"finished", "idle"}, failure : Session_!Interruption]
        BY <2>2 DEF Session_!aborts
    <3> QED
        BY <3>1, <3>2 DEF Session_!Outcome
  <2>3. CASE o.status = "idle"
      BY <2>3 DEF Session_!aborts
  <2> QED
      BY <2>1, <2>2, <2>3 DEF Session_!Outcome
<1> QED
    BY <1>1, <1>2

\* A set of numbers that is not empty has a least one.
LEMMA SmallestNat ==
    ASSUME NEW S \in SUBSET Nat, S # {}
    PROVE  \E s \in S : \A r \in S : s <= r
<1> DEFINE R == OpToRel(<, Nat)
<1>1. IsWellFoundedOn(R, Nat)
    BY NatLessThanWellFounded
<1>2. \A r, s \in Nat : r < s => <<r, s>> \in R
    BY DEF OpToRel
<1> HIDE DEF R
<1>3. \E s \in S : \A r \in S : ~ (<<r, s>> \in R)
    BY <1>1, WFMin
<1>4. PICK s \in S : \A r \in S : ~ (<<r, s>> \in R)
    BY <1>3
<1>5. \A r \in S : ~ (r < s)
    BY <1>2, <1>4
<1> QED
    BY <1>5

\* Before anything runs no session exists.
LEMMA FailureInit == Init => FailureInv
<1> SUFFICES ASSUME Init PROVE FailureInv
    OBVIOUS
<1>1. TypeOK
  <2>1. configuration.sessions \in Nat
      BY ConfigurationsAssumption DEF Init
  <2>2. sessions \in Seq(Session_!Outcome) /\ Len(sessions) = 0
      BY DEF Init
  <2>3. threads \in [Thread -> {"none", "pin", "check", "poll", "ended"}]
      BY DEF Init
  <2>4. Len(sessions) <= configuration.sessions
      BY <2>1, <2>2
  <2>5. /\ configuration \in Configurations /\ main = "creating"
        /\ exit_requested = FALSE /\ signalled = {} /\ io_stopped = {}
        /\ exit_status = NoStatus
      BY DEF Init
  <2> QED
      BY <2>2, <2>3, <2>4, <2>5 DEF TypeOK
<1>2. DOMAIN sessions = {}
    BY DEF Init
<1> QED
    BY <1>1, <1>2 DEF FailureInv, FailureStopsThread, OneFailurePerThread,
                      SessionsOf

\* What holds of the sessions and of the threads together is kept when no session
\* fails and no thread takes up a handler.
LEMMA Kept ==
    ASSUME FailureInv, TypeOK', configuration' = configuration,
           exit_requested => exit_requested',
           DOMAIN sessions \subseteq DOMAIN sessions',
           \A s \in DOMAIN sessions' :
                sessions'[s].failure # "success" =>
                    /\ s \in DOMAIN sessions
                    /\ sessions[s].failure # "success"
                    /\ threads'[io_service(s)] \in {"check", "ended"}
    PROVE  FailureInv'
<1>1. \A s : io_service(s)' = io_service(s)
    BY DEF io_service, get_concurrency, concurrency
<1>2. Thread' = Thread
    BY DEF Thread, get_concurrency, concurrency
<1>3. FailureStopsThread'
    BY <1>1 DEF FailureInv, FailureStopsThread
<1>4. OneFailurePerThread'
    BY <1>1, <1>2 DEF FailureInv, OneFailurePerThread, SessionsOf
<1> QED
    BY <1>3, <1>4 DEF FailureInv

\* Each step of the program keeps the types,
LEMMA TypeStep == TypeOK /\ [Next]_vars => TypeOK'
<1> SUFFICES ASSUME TypeOK, [Next]_vars PROVE TypeOK'
    OBVIOUS
<1>t. /\ configuration.sessions \in Nat
      /\ sessions \in Seq(Session_!Outcome)
      /\ threads \in [Thread -> {"none", "pin", "check", "poll", "ended"}]
    BY ConfigurationsAssumption DEF TypeOK
<1>c. configuration' = configuration => Thread' = Thread
    BY DEF Thread, get_concurrency, concurrency
<1>1. CASE CreatesSession
  <2>1. Session_!Unfinished \in Session_!Outcome
      BY DEF Session_!Unfinished, Session_!Outcome, Session_!ErrorCode,
             Session_!Error
  <2>2. /\ sessions' \in Seq(Session_!Outcome)
        /\ Len(sessions') <= configuration.sessions
      BY <1>1, <1>t, <2>1 DEF CreatesSession
  <2> QED
      BY <1>1, <1>c, <2>2 DEF CreatesSession, TypeOK
<1>2. CASE CreationThrows
    BY <1>2, <1>c DEF CreationThrows, TypeOK
<1>3. CASE Joins
  <2>1. first_failure \in ErrorCode
    <3> DEFINE failed == {s \in DOMAIN sessions : sessions[s].failure # "success"}
               first == CHOOSE s \in failed : \A r \in failed : s <= r
    <3>1. CASE failed = {}
        BY <3>1 DEF first_failure, ErrorCode, Error
    <3>2. CASE failed # {}
      <4>1. failed \subseteq Nat
          BY <1>t
      <4>2. \E s \in failed : \A r \in failed : s <= r
          BY <3>2, <4>1, SmallestNat
      <4> HIDE DEF failed
      <4>3. first \in failed
          BY <4>2
      <4> HIDE DEF first
      <4>4. sessions[first] \in Session_!Outcome
          BY <4>3, <1>t DEF failed
      <4>6. sessions[first].failure \in Session_!ErrorCode
          BY <4>4 DEF Session_!Outcome
      <4>5. first_failure = sessions[first].failure
          BY <3>2 DEF first_failure, failed, first
      <4>7. Session_!ErrorCode = ErrorCode
          BY DEF Session_!ErrorCode, Session_!Error, Session_!SystemError,
                 ErrorCode, Error, SystemError
      <4> QED
          BY <4>5, <4>6, <4>7
    <3> QED
        BY <3>1, <3>2
  <2> QED
      BY <1>3, <1>c, <2>1 DEF Joins, TypeOK
<1>4. ASSUME NEW t \in Thread, StartsThread(t) PROVE TypeOK'
    BY <1>4, <1>c, <1>t DEF StartsThread, TypeOK
<1>5. ASSUME NEW t \in Thread, Checks(t) PROVE TypeOK'
    BY <1>5, <1>c, <1>t DEF Checks, TypeOK
<1>12. ASSUME NEW t \in Thread, ThreadThrows(t) PROVE TypeOK'
    BY <1>12, <1>c, <1>t DEF ThreadThrows, TypeOK
<1>13. ASSUME NEW t \in Thread, Pins(t) PROVE TypeOK'
    BY <1>13, <1>c, <1>t DEF Pins, TypeOK
<1>6. ASSUME NEW t \in Thread, PollsNothing(t) PROVE TypeOK'
    BY <1>6, <1>c, <1>t DEF PollsNothing, TypeOK
<1>7. ASSUME NEW t \in Thread, PollsAdvance(t) PROVE TypeOK'
  <2>0. PICK s \in SessionsOf(t) : \E o \in Session_!advances(sessions[s]) :
            sessions' = [sessions EXCEPT ![s] = o]
      BY <1>7 DEF PollsAdvance
  <2>1. PICK o \in Session_!advances(sessions[s]) :
            sessions' = [sessions EXCEPT ![s] = o]
      BY <2>0
  <2>2. s \in DOMAIN sessions /\ o \in Session_!Outcome
      BY <2>1, <1>t, Outcomes DEF SessionsOf
  <2>3. sessions' \in Seq(Session_!Outcome) /\ Len(sessions') = Len(sessions)
      BY <2>1, <2>2, <1>t
  <2> QED
      BY <1>7, <1>c, <1>t, <2>3 DEF PollsAdvance, TypeOK
<1>8. ASSUME NEW t \in Thread, PollsAbort(t) PROVE TypeOK'
  <2>0. PICK s \in SessionsOf(t) : \E o \in Session_!aborts(sessions[s]) :
            /\ sessions' = [sessions EXCEPT ![s] = o]
            /\ signalled' \subseteq signalled
      BY <1>8 DEF PollsAbort
  <2>1. PICK o \in Session_!aborts(sessions[s]) :
            /\ sessions' = [sessions EXCEPT ![s] = o]
            /\ signalled' \subseteq signalled
      BY <2>0
  <2>2. s \in DOMAIN sessions /\ o \in Session_!Outcome
      BY <2>1, <1>t, Outcomes DEF SessionsOf
  <2>3. sessions' \in Seq(Session_!Outcome) /\ Len(sessions') = Len(sessions)
      BY <2>1, <2>2, <1>t
  <2> QED
      BY <1>8, <1>c, <1>t, <2>1, <2>3 DEF PollsAbort, request_exit, TypeOK
<1>9. CASE SignalsProgram
    BY <1>9, <1>c DEF SignalsProgram, request_exit, TypeOK
<1>10. CASE SignalsSessions
  <2>1. DOMAIN sessions \subseteq 1 .. configuration.sessions
      BY <1>t DEF TypeOK
  <2> QED
      BY <1>10, <1>c, <2>1 DEF SignalsSessions, TypeOK
<1>11. CASE UNCHANGED vars
    BY <1>11, <1>c DEF vars, TypeOK
<1> QED
    BY <1>1, <1>2, <1>3, <1>4, <1>5, <1>6, <1>7, <1>8, <1>9, <1>10, <1>11,
       <1>12, <1>13
    DEF Next, Main, Run

\* and what FailureInv says.
LEMMA FailureStep == FailureInv /\ [Next]_vars => FailureInv'
<1> SUFFICES ASSUME FailureInv, [Next]_vars PROVE FailureInv'
    OBVIOUS
<1>t. /\ TypeOK /\ TypeOK'
      /\ sessions \in Seq(Session_!Outcome)
      /\ threads \in [Thread -> {"none", "pin", "check", "poll", "ended"}]
    BY TypeStep DEF FailureInv, TypeOK
<1>f. \A s \in DOMAIN sessions : sessions[s].failure # "success" =>
            exit_requested /\ threads[io_service(s)] \in {"check", "ended"}
    BY DEF FailureInv, FailureStopsThread
<1>1. CASE CreatesSession
  <2>1. /\ sessions' = Append(sessions, Session_!Unfinished)
        /\ UNCHANGED <<configuration, exit_requested, threads>>
      BY <1>1 DEF CreatesSession
  <2>2. /\ DOMAIN sessions' = DOMAIN sessions \cup {Len(sessions) + 1}
        /\ \A s \in DOMAIN sessions : sessions'[s] = sessions[s]
        /\ sessions'[Len(sessions) + 1].failure = "success"
      BY <2>1, <1>t DEF Session_!Unfinished
  <2> QED
      BY <2>1, <2>2, <1>t, <1>f, Kept
<1>2. CASE CreationThrows \/ Joins \/ SignalsProgram \/ SignalsSessions
            \/ (\E t \in Thread : ThreadThrows(t)) \/ UNCHANGED vars
  <2>1. /\ UNCHANGED <<configuration, sessions, threads>>
        /\ exit_requested => exit_requested'
      BY <1>2 DEF CreationThrows, Joins, ThreadThrows, SignalsProgram,
                  SignalsSessions, vars, request_exit
  <2> QED
      BY <2>1, <1>t, <1>f, Kept
<1>3. ASSUME NEW t \in Thread,
             StartsThread(t) \/ Pins(t) \/ Checks(t) \/ PollsNothing(t)
      PROVE  FailureInv'
  <2>1. /\ UNCHANGED <<configuration, sessions, exit_requested>>
        /\ \/ threads' = threads
           \/ \E u \in {"check", "poll", "ended"} :
                /\ threads' = [threads EXCEPT ![t] = u]
                /\ u = "poll" => ~exit_requested
           \/ /\ threads' = [threads EXCEPT ![t] = "pin"]
              /\ threads[t] = "none"
      BY <1>3 DEF StartsThread, Pins, Checks, PollsNothing, goes_on
  <2>2. ASSUME NEW s \in DOMAIN sessions, sessions[s].failure # "success"
        PROVE  threads'[io_service(s)] \in {"check", "ended"}
    <3> DEFINE u == io_service(s)
    <3>0. u \in Thread
        BY <1>t, RoundRobin DEF u
    <3>1. exit_requested /\ threads[u] \in {"check", "ended"}
        BY <2>2, <1>f DEF u
    <3> SUFFICES threads'[u] \in {"check", "ended"}
        BY DEF u
    <3> HIDE DEF u
    <3>2. CASE threads' = threads
        BY <3>1, <3>2
    <3>3. ASSUME NEW w \in {"check", "poll", "ended"},
                 threads' = [threads EXCEPT ![t] = w],
                 w = "poll" => ~exit_requested
          PROVE  threads'[u] \in {"check", "ended"}
        BY <3>0, <3>1, <3>3, <1>t
    <3>4. CASE threads' = [threads EXCEPT ![t] = "pin"] /\ threads[t] = "none"
        BY <3>0, <3>1, <3>4, <1>t
    <3> QED
        BY <2>1, <3>2, <3>3, <3>4
  <2> QED
      BY <2>1, <2>2, <1>t, Kept
<1>4. ASSUME NEW t \in Thread, PollsAdvance(t) PROVE FailureInv'
  <2>0. PICK s \in SessionsOf(t) : \E o \in Session_!advances(sessions[s]) :
            sessions' = [sessions EXCEPT ![s] = o]
      BY <1>4 DEF PollsAdvance
  <2>1. PICK o \in Session_!advances(sessions[s]) :
            sessions' = [sessions EXCEPT ![s] = o]
      BY <2>0
  <2>2. s \in DOMAIN sessions /\ o.failure = sessions[s].failure
      BY <2>1, <1>t, Outcomes DEF SessionsOf
  <2>3. /\ UNCHANGED <<configuration, exit_requested>>
        /\ threads' = [threads EXCEPT ![t] = "check"]
      BY <1>4 DEF PollsAdvance
  <2>4. /\ DOMAIN sessions' = DOMAIN sessions
        /\ \A r \in DOMAIN sessions : sessions'[r].failure = sessions[r].failure
      BY <2>1, <2>2, <1>t
  <2>5. \A r \in DOMAIN sessions : sessions[r].failure # "success" =>
            threads'[io_service(r)] \in {"check", "ended"}
      BY <2>3, <1>t, <1>f
  <2> QED
      BY <2>3, <2>4, <2>5, <1>t, Kept
<1>5. ASSUME NEW t \in Thread, PollsAbort(t) PROVE FailureInv'
  <2>0. PICK s \in SessionsOf(t) : \E o \in Session_!aborts(sessions[s]) :
            sessions' = [sessions EXCEPT ![s] = o]
      BY <1>5 DEF PollsAbort
  <2>1. PICK o \in Session_!aborts(sessions[s]) :
            sessions' = [sessions EXCEPT ![s] = o]
      BY <2>0
  <2>2. s \in DOMAIN sessions /\ io_service(s) = t
      BY <2>1 DEF SessionsOf
  <2>3. /\ configuration' = configuration /\ exit_requested' = TRUE
        /\ threads[t] = "poll" /\ threads' = [threads EXCEPT ![t] = "check"]
      BY <1>5 DEF PollsAbort, request_exit
  <2>4. \A r \in DOMAIN sessions :
            sessions[r].failure # "success" => io_service(r) # t
      BY <2>3, <1>f
  <2>5. /\ DOMAIN sessions' = DOMAIN sessions
        /\ \A r \in DOMAIN sessions \ {s} : sessions'[r] = sessions[r]
      BY <2>1, <2>2, <1>t
  <2>6. /\ \A r : io_service(r)' = io_service(r)
        /\ Thread' = Thread
      BY <2>3 DEF io_service, Thread, get_concurrency, concurrency
  <2>7. FailureStopsThread'
    <3> SUFFICES ASSUME NEW r \in DOMAIN sessions,
                        sessions'[r].failure # "success"
                 PROVE  threads'[io_service(r)] \in {"check", "ended"}
        BY <2>3, <2>5, <2>6 DEF FailureStopsThread
    <3>1. CASE r = s
        BY <3>1, <2>2, <2>3, <1>t
    <3>2. CASE r # s
        BY <3>2, <2>3, <2>5, <1>f, <1>t
    <3> QED
        BY <3>1, <3>2
  <2>8. OneFailurePerThread'
    <3> SUFFICES ASSUME NEW u \in Thread,
                        NEW q \in DOMAIN sessions, NEW r \in DOMAIN sessions,
                        io_service(q) = u, io_service(r) = u,
                        sessions'[q].failure # "success",
                        sessions'[r].failure # "success"
                 PROVE  q = r
        BY <2>5, <2>6 DEF OneFailurePerThread, SessionsOf
    <3>1. CASE u = t
        BY <3>1, <2>4, <2>5
    <3>2. CASE u # t
        BY <3>2, <2>2, <2>5 DEF FailureInv, OneFailurePerThread, SessionsOf
    <3> QED
        BY <3>1, <3>2
  <2> QED
      BY <2>7, <2>8, <1>t DEF FailureInv
<1> QED
    BY <1>1, <1>2, <1>3, <1>4, <1>5 DEF Next, Main, Run

\* Of the sessions that one thread runs at most one fails: abort() stops the loop
\* of its own thread (Application.cpp:93) before another handler.
THEOREM OneFailure == Spec => []OneFailurePerThread
<1>1. Init => FailureInv
    BY FailureInit
<1>2. FailureInv /\ [Next]_vars => FailureInv'
    BY FailureStep
<1>3. FailureInv => OneFailurePerThread
    BY DEF FailureInv
<1> QED
    BY <1>1, <1>2, <1>3, PTL DEF Spec

-----------------------------------------------------------------------------
(* The exit status.                                                        *)

\* What the threads that have left their loops know: all sessions exist, the exit was
\* requested or their io_service has no work left, and no core was missing.
ThreadsInv ==
    /\ \A t \in Thread : t \in configuration.missing => threads[t] \in {"none", "pin"}
    /\ \A t \in Thread : threads[t] # "none" => Len(sessions) = configuration.sessions
    /\ main \in {"starting", "joining"} => Len(sessions) = configuration.sessions
    /\ \A t \in io_stopped : threads[t] # "none" /\ Idle(t)
    /\ \A t \in Thread : threads[t] = "ended" => exit_requested \/ t \in io_stopped

StatusInv == TypeOK /\ ThreadsInv /\ StatusOfSessions

\* An idle session has no handler left.
LEMMA IdleForEver ==
    ASSUME NEW o \in Session_!Outcome, o.status = "idle"
    PROVE  Session_!advances(o) = {} /\ Session_!aborts(o) = {}
<1>1. Session_!aborts(o) = {}
    BY DEF Session_!aborts
<1>2. Session_!advances(o) = {}
    BY DEF Session_!advances, Session_!Outcome
<1> QED
    BY <1>1, <1>2

\* No thread and no status yet.
LEMMA StatusInit == Init => StatusInv
<1> SUFFICES ASSUME Init PROVE StatusInv
    OBVIOUS
<1>1. TypeOK
    BY FailureInit DEF FailureInv
<1>2. /\ main = "creating" /\ io_stopped = {}
      /\ \A t \in Thread : threads[t] = "none"
    BY DEF Init
<1> QED
    BY <1>1, <1>2 DEF StatusInv, ThreadsInv, StatusOfSessions

\* A step that leaves sessions and loops as they are keeps ThreadsInv.
LEMMA ThreadsKept ==
    ASSUME StatusInv, UNCHANGED <<configuration, sessions, threads, io_stopped>>,
           exit_requested => exit_requested',
           main' \in {"starting", "joining"} => Len(sessions) = configuration.sessions
    PROVE  ThreadsInv'
<1>1. Thread' = Thread
    BY DEF Thread, get_concurrency, concurrency
<1>2. \A t : SessionsOf(t)' = SessionsOf(t)
    BY DEF SessionsOf, io_service, get_concurrency, concurrency
<1>3. \A t : Idle(t)' = Idle(t)
    BY <1>2 DEF Idle
<1> QED
    BY <1>1, <1>3 DEF StatusInv, ThreadsInv

\* So does a handler of a thread that polls.
LEMMA ThreadsPoll ==
    ASSUME StatusInv, TypeOK', NEW t \in Thread, threads[t] = "poll",
           NEW s \in SessionsOf(t), NEW o, sessions[s].status # "idle",
           UNCHANGED <<configuration, main, io_stopped>>,
           sessions' = [sessions EXCEPT ![s] = o],
           threads' = [threads EXCEPT ![t] = "check"],
           exit_requested => exit_requested'
    PROVE  ThreadsInv'
<1>t. /\ sessions \in Seq(Session_!Outcome)
      /\ threads \in [Thread -> {"none", "pin", "check", "poll", "ended"}]
      /\ io_stopped \subseteq Thread
      /\ s \in DOMAIN sessions /\ io_service(s) = t
    BY DEF StatusInv, TypeOK, SessionsOf
<1>1. /\ Thread' = Thread
      /\ \A u : io_service(u)' = io_service(u)
    BY DEF Thread, io_service, get_concurrency, concurrency
<1>2. /\ DOMAIN sessions' = DOMAIN sessions /\ Len(sessions') = Len(sessions)
      /\ \A r \in DOMAIN sessions \ {s} : sessions'[r] = sessions[r]
    BY <1>t
<1>3. /\ threads'[t] = "check"
      /\ \A u \in Thread \ {t} : threads'[u] = threads[u]
    BY <1>t
<1>4. t \notin io_stopped
    BY <1>t DEF StatusInv, ThreadsInv, Idle
<1>5. \A u \in io_stopped : threads'[u] # "none" /\ Idle(u)'
  <2> SUFFICES ASSUME NEW u \in io_stopped PROVE threads'[u] # "none" /\ Idle(u)'
      OBVIOUS
  <2>1. u # t /\ u \in Thread /\ threads[u] # "none" /\ Idle(u)
      BY <1>4, <1>t DEF StatusInv, ThreadsInv
  <2>2. \A r \in DOMAIN sessions' : io_service(r)' = u =>
            r \in SessionsOf(u) /\ sessions'[r] = sessions[r]
      BY <1>1, <1>2, <1>t, <2>1 DEF SessionsOf
  <2>3. \A r \in DOMAIN sessions' : io_service(r)' = u => sessions'[r].status = "idle"
      BY <2>1, <2>2 DEF Idle
  <2> QED
      BY <2>1, <2>3, <1>3 DEF Idle, SessionsOf
<1>6. threads[t] # "none" /\ threads[t] # "pin"
    OBVIOUS
<1>7. \A u \in Thread : u \in configuration.missing => threads'[u] \in {"none", "pin"}
    BY <1>3, <1>6 DEF StatusInv, ThreadsInv
<1>8. \A u \in Thread : threads'[u] # "none" => Len(sessions') = configuration.sessions
    BY <1>2, <1>3, <1>6 DEF StatusInv, ThreadsInv
<1>9. \A u \in Thread : threads'[u] = "ended" => exit_requested' \/ u \in io_stopped
    BY <1>3 DEF StatusInv, ThreadsInv
<1>10. main \in {"starting", "joining"} => Len(sessions') = configuration.sessions
    BY <1>2 DEF StatusInv, ThreadsInv
<1> QED
    BY <1>1, <1>5, <1>7, <1>8, <1>9, <1>10 DEF ThreadsInv

\* The first failure is one of a session, and "success" only without any.
LEMMA FirstFailure ==
    ASSUME TypeOK
    PROVE  /\ first_failure = "success" <=>
                \A s \in DOMAIN sessions : sessions[s].failure = "success"
           /\ first_failure # "success" =>
                \E s \in DOMAIN sessions : sessions[s].failure = first_failure
<1> DEFINE failed == {s \in DOMAIN sessions : sessions[s].failure # "success"}
           first == CHOOSE s \in failed : \A r \in failed : s <= r
<1>1. CASE failed = {}
    BY <1>1 DEF first_failure
<1>2. CASE failed # {}
  <2>1. failed \subseteq Nat
      BY DEF TypeOK
  <2>2. first_failure = sessions[first].failure
      BY <1>2 DEF first_failure
  <2>3. \E s \in failed : \A r \in failed : s <= r
    <3> HIDE DEF failed
    <3> QED
        BY <1>2, <2>1, SmallestNat
  <2>4. first \in failed
    <3> HIDE DEF failed
    <3> QED
        BY <2>3
  <2>5. first \in DOMAIN sessions /\ sessions[first].failure # "success"
      BY <2>4
  <2> QED
      BY <2>2, <2>5
<1> QED
    BY <1>1, <1>2

\* While the program runs there is no status yet to be right or wrong.
LEMMA NoStatusYet ==
    ASSUME TypeOK', ThreadsInv',
           main' # "ended" \/ exit_status' \in {"exception", "killed"}
    PROVE  StatusInv'
BY DEF StatusInv, StatusOfSessions

\* A thread that goes on, with the loops of the others as they are.
LEMMA ThreadsGoOn ==
    ASSUME StatusInv, TypeOK', NEW t \in Thread, NEW u,
           UNCHANGED <<configuration, sessions>>,
           Len(sessions) = configuration.sessions,
           threads' = [threads EXCEPT ![t] = u],
           u # "none",
           t \in configuration.missing => u = "pin",
           u = "ended" => exit_requested \/ t \in io_stopped,
           exit_requested => exit_requested',
           io_stopped' \in {io_stopped, io_stopped \cup {t}},
           io_stopped' # io_stopped => Idle(t)
    PROVE  ThreadsInv'
<1>t. /\ threads \in [Thread -> {"none", "pin", "check", "poll", "ended"}]
      /\ io_stopped \subseteq Thread
    BY DEF StatusInv, TypeOK
<1>1. /\ Thread' = Thread
      /\ \A v : SessionsOf(v)' = SessionsOf(v)
    BY DEF Thread, SessionsOf, io_service, get_concurrency, concurrency
<1>2. \A v : Idle(v)' = Idle(v)
    BY <1>1 DEF Idle
<1>3. /\ threads'[t] = u
      /\ \A v \in Thread \ {t} : threads'[v] = threads[v]
    BY <1>t
<1>4. \A v \in Thread : v \in configuration.missing => threads'[v] \in {"none", "pin"}
    BY <1>3 DEF StatusInv, ThreadsInv
<1>5. \A v \in io_stopped' : threads'[v] # "none" /\ Idle(v)'
    BY <1>t, <1>2, <1>3 DEF StatusInv, ThreadsInv
<1>6. \A v \in Thread :
            threads'[v] = "ended" => exit_requested' \/ v \in io_stopped'
    BY <1>3 DEF StatusInv, ThreadsInv
<1> QED
    BY <1>1, <1>4, <1>5, <1>6 DEF ThreadsInv

\* When all threads have ended they have been pinned, and without a request to exit
\* every io_service has run out of work.
LEMMA ThreadsEnded ==
    ASSUME StatusInv, \A t \in Thread : threads[t] = "ended"
    PROVE  /\ configuration.missing = {}
           /\ exit_requested \/ AllCompleted
<1>1. /\ configuration.cores \in Nat /\ configuration.sessions \in Nat
      /\ configuration.missing \subseteq 1 .. configuration.cores
      /\ sessions \in Seq(Session_!Outcome)
    BY ConfigurationsAssumption DEF StatusInv, TypeOK
<1>2. configuration.missing \subseteq Thread
    BY <1>1 DEF Thread, get_concurrency, concurrency
<1>3. configuration.missing = {}
    BY <1>2 DEF StatusInv, ThreadsInv
<1>4. Len(sessions) = configuration.sessions
  <2>1. get_concurrency \in Nat \ {0}
      BY <1>1 DEF get_concurrency, concurrency
  <2>2. 1 \in Thread
      BY <2>1 DEF Thread
  <2> QED
      BY <2>2 DEF StatusInv, ThreadsInv
<1>5. ASSUME ~exit_requested, NEW s \in 1 .. configuration.sessions
      PROVE  s \in DOMAIN sessions /\ sessions[s].status = "idle"
  <2>1. s \in DOMAIN sessions /\ s \in Nat \ {0}
      BY <1>1, <1>4
  <2>2. io_service(s) \in Thread
      BY <2>1, RoundRobin DEF StatusInv
  <2>3. Idle(io_service(s))
      BY <1>5, <2>2 DEF StatusInv, ThreadsInv
  <2> QED
      BY <2>1, <2>3 DEF Idle, SessionsOf
<1> QED
    BY <1>3, <1>5 DEF AllCompleted

\* Each step keeps the strengthened invariant; only Joins reports the sessions.
LEMMA StatusStep == StatusInv /\ [Next]_vars => StatusInv'
<1> SUFFICES ASSUME StatusInv, [Next]_vars PROVE StatusInv'
    OBVIOUS
<1>t. /\ TypeOK /\ TypeOK'
      /\ sessions \in Seq(Session_!Outcome)
      /\ threads \in [Thread -> {"none", "pin", "check", "poll", "ended"}]
      /\ io_stopped \subseteq Thread
    BY TypeStep DEF StatusInv, TypeOK
<1>i. ThreadsInv
    BY DEF StatusInv
<1>1. CASE CreatesSession
  <2>1. /\ main = "creating" /\ main' = "creating"
        /\ Len(sessions) < configuration.sessions
        /\ UNCHANGED <<configuration, threads, io_stopped, exit_requested>>
      BY <1>1 DEF CreatesSession
  <2>2. configuration.sessions \in Nat
      BY <1>t, ConfigurationsAssumption DEF TypeOK
  <2>3. \A t \in Thread : threads[t] = "none"
      BY <1>t, <1>i, <2>1, <2>2 DEF ThreadsInv
  <2>4. io_stopped = {}
      BY <1>t, <1>i, <2>3 DEF ThreadsInv
  <2>5. Thread' = Thread
      BY <2>1 DEF Thread, get_concurrency, concurrency
  <2>6. ThreadsInv'
      BY <2>1, <2>3, <2>4, <2>5 DEF ThreadsInv
  <2> QED
      BY <1>t, <2>1, <2>6, NoStatusYet
<1>2. CASE CreationThrows \/ (\E t \in Thread : ThreadThrows(t))
  <2>1. /\ UNCHANGED <<configuration, sessions, threads, io_stopped, exit_requested>>
        /\ main' = "ended" /\ exit_status' \in {"exception", "killed"}
      BY <1>2 DEF CreationThrows, ThreadThrows
  <2> QED
      BY <1>t, <2>1, ThreadsKept, NoStatusYet
<1>3. CASE SignalsProgram \/ SignalsSessions
  <2>1. /\ UNCHANGED <<configuration, sessions, threads, io_stopped>>
        /\ exit_requested => exit_requested'
        /\ main # "ended"
        /\ main' = main \/ (main' = "ended" /\ exit_status' = "killed")
      BY <1>3 DEF SignalsProgram, SignalsSessions, request_exit
  <2>2. ThreadsInv'
      BY <1>i, <2>1, ThreadsKept DEF ThreadsInv
  <2> QED
      BY <1>t, <2>1, <2>2, NoStatusYet
<1>4. ASSUME NEW t \in Thread, StartsThread(t) PROVE StatusInv'
  <2> DEFINE u == IF configuration.cores = 0 THEN "check" ELSE "pin"
  <2>1. /\ UNCHANGED <<configuration, sessions, io_stopped, exit_requested>>
        /\ threads' = [threads EXCEPT ![t] = u]
        /\ Len(sessions) = configuration.sessions
        /\ main' # "ended"
      BY <1>4 DEF StartsThread
  <2>2. t \in configuration.missing => u = "pin"
      BY <1>t, ConfigurationsAssumption DEF TypeOK
  <2>3. u \in {"check", "pin"}
      OBVIOUS
  <2> HIDE DEF u
  <2>4. ThreadsInv'
      BY <1>t, <2>1, <2>2, <2>3, ThreadsGoOn
  <2> QED
      BY <1>t, <2>1, <2>4, NoStatusYet
<1>5. ASSUME NEW t \in Thread, Pins(t) PROVE StatusInv'
  <2>1. CASE t \in configuration.missing
    <3>1. /\ UNCHANGED <<configuration, sessions, threads, io_stopped, exit_requested>>
          /\ main' = "ended" /\ exit_status' = "killed"
        BY <1>5, <2>1 DEF Pins, pin_current_thread_to_cpu_core
    <3> QED
        BY <1>t, <3>1, ThreadsKept, NoStatusYet
  <2>2. CASE t \notin configuration.missing
    <3>1. /\ UNCHANGED <<configuration, main, sessions, io_stopped, exit_requested>>
          /\ threads' = [threads EXCEPT ![t] = "check"]
          /\ threads[t] = "pin" /\ main # "ended"
        BY <1>5, <2>2 DEF Pins, pin_current_thread_to_cpu_core
    <3>2. Len(sessions) = configuration.sessions
        BY <1>i, <3>1 DEF ThreadsInv
    <3>3. ThreadsInv'
        BY <1>t, <2>2, <3>1, <3>2, ThreadsGoOn
    <3> QED
        BY <1>t, <3>1, <3>3, NoStatusYet
  <2> QED
      BY <2>1, <2>2
<1>6. ASSUME NEW t \in Thread, Checks(t) PROVE StatusInv'
  <2> DEFINE u == IF goes_on(t) THEN "poll" ELSE "ended"
  <2>1. /\ UNCHANGED <<configuration, main, sessions, io_stopped, exit_requested>>
        /\ threads' = [threads EXCEPT ![t] = u]
        /\ threads[t] = "check" /\ main # "ended"
      BY <1>6 DEF Checks
  <2>2. u # "none" /\ (u = "ended" => exit_requested \/ t \in io_stopped)
      BY DEF goes_on
  <2>3. Len(sessions) = configuration.sessions /\ t \notin configuration.missing
      BY <1>i, <2>1 DEF ThreadsInv
  <2> HIDE DEF u
  <2>4. ThreadsInv'
      BY <1>t, <2>1, <2>2, <2>3, ThreadsGoOn
  <2> QED
      BY <1>t, <2>1, <2>4, NoStatusYet
<1>7. ASSUME NEW t \in Thread, PollsNothing(t) PROVE StatusInv'
  <2>1. /\ UNCHANGED <<configuration, main, sessions, exit_requested>>
        /\ threads' = [threads EXCEPT ![t] = "check"]
        /\ threads[t] = "poll" /\ main # "ended"
        /\ io_stopped' \in {io_stopped, io_stopped \cup {t}}
        /\ io_stopped' # io_stopped => Idle(t)
      BY <1>7 DEF PollsNothing
  <2>2. Len(sessions) = configuration.sessions /\ t \notin configuration.missing
      BY <1>i, <2>1 DEF ThreadsInv
  <2>3. ThreadsInv'
      BY <1>t, <2>1, <2>2, ThreadsGoOn
  <2> QED
      BY <1>t, <2>1, <2>3, NoStatusYet
<1>8. ASSUME NEW t \in Thread, PollsAdvance(t) \/ PollsAbort(t) PROVE StatusInv'
  <2>1. /\ UNCHANGED <<configuration, main, io_stopped>>
        /\ threads[t] = "poll" /\ threads' = [threads EXCEPT ![t] = "check"]
        /\ main # "ended"
        /\ exit_requested => exit_requested'
      BY <1>8 DEF PollsAdvance, PollsAbort, request_exit
  <2>2. \E s \in SessionsOf(t) :
            \E o \in Session_!advances(sessions[s]) \cup Session_!aborts(sessions[s]) :
                sessions' = [sessions EXCEPT ![s] = o]
      BY <1>8 DEF PollsAdvance, PollsAbort
  <2>3. PICK s \in SessionsOf(t) :
            \E o \in Session_!advances(sessions[s]) \cup Session_!aborts(sessions[s]) :
                sessions' = [sessions EXCEPT ![s] = o]
      BY <2>2
  <2>4. PICK o \in Session_!advances(sessions[s]) \cup Session_!aborts(sessions[s]) :
            sessions' = [sessions EXCEPT ![s] = o]
      BY <2>3
  <2>5. sessions[s] \in Session_!Outcome
      BY <1>t DEF SessionsOf
  <2>6. sessions[s].status # "idle"
      BY <2>4, <2>5, IdleForEver
  <2>7. ThreadsInv'
      BY <1>t, <2>1, <2>4, <2>6, ThreadsPoll
  <2> QED
      BY <1>t, <2>1, <2>7, NoStatusYet
<1>9. CASE Joins
  <2>1. /\ UNCHANGED <<configuration, sessions, threads, io_stopped, exit_requested>>
        /\ \A t \in Thread : threads[t] = "ended"
        /\ main' = "ended" /\ exit_status' = first_failure
      BY <1>9 DEF Joins
  <2>2. ThreadsInv'
      BY <2>1, ThreadsKept
  <2>3. configuration.missing = {} /\ (exit_requested \/ AllCompleted)
      BY <2>1, ThreadsEnded
  <2>4. AllCompleted' = AllCompleted
      BY <2>1 DEF AllCompleted
  <2>5. StatusOfSessions'
      BY <1>t, <2>1, <2>3, <2>4, FirstFailure DEF StatusOfSessions
  <2> QED
      BY <1>t, <2>2, <2>5 DEF StatusInv
<1>10. CASE UNCHANGED vars
  <2>1. UNCHANGED <<configuration, main, sessions, threads, io_stopped,
                    exit_requested, exit_status>>
      BY <1>10 DEF vars
  <2>2. ThreadsInv'
      BY <1>i, <2>1, ThreadsKept DEF ThreadsInv
  <2>3. StatusOfSessions'
      BY <2>1 DEF StatusInv, StatusOfSessions, AllCompleted
  <2> QED
      BY <1>t, <2>2, <2>3 DEF StatusInv
<1> QED
    BY <1>1, <1>2, <1>3, <1>4, <1>5, <1>6, <1>7, <1>8, <1>9, <1>10
    DEF Next, Main, Run

\* The exit status is right about the sessions (Application.cpp:169): "success" exactly
\* when none failed, else the failure of one of them; and unless the exit was
\* requested, all sessions have completed, on the cores they were to be pinned to.
THEOREM ExitStatus == Spec => []StatusOfSessions
<1>1. Init => StatusInv
    BY StatusInit
<1>2. StatusInv /\ [Next]_vars => StatusInv'
    BY StatusStep
<1>3. StatusInv => StatusOfSessions
    BY DEF StatusInv
<1> QED
    BY <1>1, <1>2, <1>3, PTL DEF Spec
=============================================================================
