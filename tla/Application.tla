----------------------------- MODULE Application -----------------------------
(***************************************************************************)
(* src/Application.cpp with src/Signal.cpp: the main thread creates the    *)
(* sessions and one thread per io_service, joins the threads and turns the *)
(* failures of the sessions into the exit status.  The threads share only  *)
(* the exit flag.  What the handlers of a session do to its outcome is     *)
(* what SessionOutcome says.                                               *)
(***************************************************************************)
EXTENDS Integers, Sequences, Error

CONSTANTS
    Configurations,     \* the configurations to choose from: how many sessions,
                        \* how many ids --cpu-cores has (0 without that option),
                        \* and which of them are cores that the host lacks
    Failures            \* what a session may report, a signal aside

ASSUME ConfigurationsAssumption ==
    \A c \in Configurations :
        /\ c \in [sessions : Nat, cores : Nat, missing : SUBSET Nat]
        /\ c.missing \subseteq 1 .. c.cores
ASSUME FailuresAssumption == Failures \subseteq ErrorCode \ {"success"}

VARIABLES
    configuration,  \* the one of them that the program runs with
    main,           \* what the main thread is doing
    exit_requested, \* is_exit_requested_ of Signal.cpp
    sessions,       \* the outcome of each session created so far
    signalled,      \* the sessions for which a signal is queued
    threads,        \* where each thread is: before it is pinned, or in its loop
    io_stopped,     \* the threads whose io_service has stopped
    exit_status     \* "success", the failure reported, or what ended the program

vars == <<configuration, main, exit_requested, sessions, signalled, threads,
          io_stopped, exit_status>>

concurrency(c) == IF c.cores = 0 THEN 1 ELSE c.cores
get_concurrency == concurrency(configuration)

\* The threads, and with it the io_services, of this configuration and of any.
Thread == 1 .. get_concurrency
AnyThread == UNION {1 .. concurrency(c) : c \in Configurations}

\* The io_service, and so the thread, of each session.
io_service(s) == ((s - 1) % get_concurrency) + 1

NoStatus == "none"

\* The promise of a session: only its operators on outcomes are used.
Session_ == INSTANCE SessionOutcome WITH outcome <- sessions[1]

TypeOK ==
    /\ configuration \in Configurations
    /\ main \in {"creating", "starting", "joining", "ended"}
    /\ exit_requested \in BOOLEAN
    /\ sessions \in Seq(Session_!Outcome)
    /\ Len(sessions) <= configuration.sessions
    /\ signalled \subseteq 1 .. configuration.sessions
    /\ threads \in [Thread -> {"none", "pin", "check", "poll", "ended"}]
    /\ io_stopped \subseteq Thread
    /\ exit_status \in ErrorCode \cup {NoStatus, "exception", "killed"}

Init ==
    /\ configuration \in Configurations
    /\ main = "creating"
    /\ exit_requested = FALSE
    /\ sessions = <<>>
    /\ signalled = {}
    /\ threads = [t \in Thread |-> "none"]
    /\ io_stopped = {}
    /\ exit_status = NoStatus

SessionsOf(t) == {s \in DOMAIN sessions : io_service(s) = t}

-----------------------------------------------------------------------------
(* The main thread: Application::run, and the exit status of main().       *)

CreatesSession ==
    /\ main = "creating"
    /\ Len(sessions) < configuration.sessions
    /\ sessions' = Append(sessions, Session_!Unfinished)
    /\ UNCHANGED <<configuration, main, exit_requested, signalled, threads,
                   io_stopped, exit_status>>

\* An endpoint that does not resolve or that is in use, or a UDP session with
\* --listen: the constructor or initialize() throws.
CreationThrows ==
    /\ main = "creating"
    /\ Len(sessions) < configuration.sessions
    /\ main' = "ended"
    /\ exit_status' = "exception"
    /\ UNCHANGED <<configuration, exit_requested, sessions, signalled,
                   threads, io_stopped>>

\* A thread runs as soon as it is created, the next ones are created meanwhile.
StartsThread(t) ==
    /\ main = "creating" \/ main = "starting"
    /\ Len(sessions) = configuration.sessions
    /\ threads[t] = "none"
    /\ \A u \in 1 .. t - 1 : threads[u] # "none"
    /\ threads' = [threads EXCEPT ![t] =
                        IF configuration.cores = 0 THEN "check" ELSE "pin"]
    /\ main' = IF t = get_concurrency THEN "joining" ELSE "starting"
    /\ UNCHANGED <<configuration, exit_requested, sessions, signalled,
                   io_stopped, exit_status>>

\* The system has no thread left: std::thread throws, and the list of the threads
\* that run already is destroyed, which terminates the program if it has any.
ThreadThrows(t) ==
    /\ main = "creating" \/ main = "starting"
    /\ Len(sessions) = configuration.sessions
    /\ threads[t] = "none"
    /\ \A u \in 1 .. t - 1 : threads[u] # "none"
    /\ main' = "ended"
    /\ exit_status' = IF t = 1 THEN "exception" ELSE "killed"
    /\ UNCHANGED <<configuration, exit_requested, sessions, signalled,
                   threads, io_stopped>>

\* Faulty variant: the last session decides.
first_failure_of_last ==
    IF sessions = <<>> THEN "success" ELSE sessions[Len(sessions)].failure

\* The failure of the first session that has one, in the order of configuration.
first_failure ==
    LET failed == {s \in DOMAIN sessions : sessions[s].failure # "success"}
    IN  IF failed = {} THEN "success"
        ELSE sessions[CHOOSE s \in failed : \A r \in failed : s <= r].failure

Joins ==
    /\ main = "joining"
    /\ \A t \in Thread : threads[t] = "ended"
    /\ main' = "ended"
    /\ exit_status' = first_failure
    /\ UNCHANGED <<configuration, exit_requested, sessions, signalled,
                   threads, io_stopped>>

-----------------------------------------------------------------------------
(* A thread: it is pinned to its core; then it looks at the flag and       *)
(* dispatches one handler, again and again.                                *)

pin_current_thread_to_cpu_core(t) == t \notin configuration.missing

\* Nothing in the thread catches the exception: it terminates the program.
Pins(t) ==
    /\ main # "ended"
    /\ threads[t] = "pin"
    /\ IF pin_current_thread_to_cpu_core(t)
       THEN threads' = [threads EXCEPT ![t] = "check"] /\ UNCHANGED <<main, exit_status>>
       ELSE main' = "ended" /\ exit_status' = "killed" /\ UNCHANGED threads
    /\ UNCHANGED <<configuration, exit_requested, sessions, signalled, io_stopped>>

\* Faulty variant: a failure does not stop the other sessions of its io_service.
goes_on_until_stopped(t) == t \notin io_stopped

goes_on(t) == ~exit_requested /\ t \notin io_stopped

Checks(t) ==
    /\ main # "ended"
    /\ threads[t] = "check"
    /\ threads' = [threads EXCEPT ![t] = IF goes_on(t) THEN "poll" ELSE "ended"]
    /\ UNCHANGED <<configuration, main, exit_requested, sessions,
                   signalled, io_stopped, exit_status>>

\* Faulty variant: an io_service that never had work does not stop.
Idle_after_work(t) ==
    SessionsOf(t) # {} /\ \A s \in SessionsOf(t) : sessions[s].status = "idle"

Idle(t) == \A s \in SessionsOf(t) : sessions[s].status = "idle"

\* poll_one() when there is nothing to do now, or ever again.
PollsNothing(t) ==
    /\ main # "ended"
    /\ threads[t] = "poll"
    /\ threads' = [threads EXCEPT ![t] = "check"]
    /\ io_stopped' = IF Idle(t) THEN io_stopped \cup {t} ELSE io_stopped
    /\ UNCHANGED <<configuration, main, exit_requested, sessions,
                   signalled, exit_status>>

\* A handler of a session that does not fail.
PollsAdvance(t) ==
    /\ main # "ended"
    /\ threads[t] = "poll"
    /\ \E s \in SessionsOf(t) :
        \E o \in Session_!advances(sessions[s]) :
            /\ s \in signalled => o.status # "idle"
            /\ sessions' = [sessions EXCEPT ![s] = o]
    /\ threads' = [threads EXCEPT ![t] = "check"]
    /\ UNCHANGED <<configuration, main, exit_requested, signalled,
                   io_stopped, exit_status>>

\* request_exit()
request_exit == exit_requested' = TRUE

\* A handler that calls abort(): its timer, an error of its socket or its data,
\* or the signal that was queued.
PollsAbort(t) ==
    /\ main # "ended"
    /\ threads[t] = "poll"
    /\ \E s \in SessionsOf(t) :
        \E o \in Session_!aborts(sessions[s]) :
            /\ \/ o.failure \in Failures /\ UNCHANGED signalled
               \/ /\ o.failure = "user_interrupt" /\ s \in signalled
                  /\ signalled' = signalled \ {s}
            /\ sessions' = [sessions EXCEPT ![s] = o]
    /\ request_exit
    /\ threads' = [threads EXCEPT ![t] = "check"]
    /\ UNCHANGED <<configuration, main, io_stopped, exit_status>>

-----------------------------------------------------------------------------
(* Signals (SIGINT here).                                                  *)

\* Until a session is created the handler is on_signal() of Signal.cpp, which ends
\* the program the second time.
SignalsProgram ==
    /\ main # "ended"
    /\ sessions = <<>>
    /\ request_exit
    /\ IF exit_requested
       THEN main' = "ended" /\ exit_status' = "killed"
       ELSE UNCHANGED <<configuration, main, exit_status>>
    /\ UNCHANGED <<configuration, sessions, signalled, threads, io_stopped>>

\* From then on asio has replaced it: the signal is queued for every session that
\* exists and still waits for one.
SignalsSessions ==
    /\ main # "ended"
    /\ sessions # <<>>
    /\ LET waiting == {s \in DOMAIN sessions : /\ sessions[s].status = "active"
                                             /\ sessions[s].failure # "user_interrupt"}
       IN  signalled' = signalled \cup waiting
    /\ UNCHANGED <<configuration, main, exit_requested, sessions, threads,
                   io_stopped, exit_status>>

-----------------------------------------------------------------------------

Run(t) == Pins(t) \/ Checks(t) \/ PollsNothing(t) \/ PollsAdvance(t) \/ PollsAbort(t)

Main ==
    \/ CreatesSession \/ CreationThrows \/ Joins
    \/ \E t \in Thread : StartsThread(t) \/ ThreadThrows(t)

Next ==
    \/ Main
    \/ \E t \in Thread : Run(t)
    \/ SignalsProgram \/ SignalsSessions

Spec == Init /\ [][Next]_vars

\* The main thread and the others run.  Nothing is assumed of the sessions.
Fairness ==
    /\ WF_vars(Main)
    /\ \A t \in AnyThread :
        /\ WF_vars(t \in Thread /\ (Pins(t) \/ Checks(t)))
        /\ WF_vars(t \in Thread /\ PollsNothing(t))

FairSpec == Spec /\ Fairness

-----------------------------------------------------------------------------
(* Properties                                                              *)

\* abort() ends the loop of the thread that it runs in, and the other threads
\* dispatch at most the handler they had already decided to: of the sessions that
\* share an io_service no more than one ever fails.
OneFailurePerThread ==
    \A t \in Thread : \A r, s \in SessionsOf(t) :
        (sessions[r].failure # "success" /\ sessions[s].failure # "success") =>
            r = s

\* Why: a thread that ran a handler that failed looks at the flag before the next.
FailureStopsThread ==
    \A s \in DOMAIN sessions :
        sessions[s].failure # "success" =>
            exit_requested /\ threads[io_service(s)] \in {"check", "ended"}

\* The man page says "Upon successful completion, this executable shall return 0.
\* Otherwise, it shall return the POSIX errno number associated with the error."
AllCompleted ==
    \A s \in 1 .. configuration.sessions :
        s \in DOMAIN sessions /\ sessions[s].status = "idle"
ZeroMeansCompleted == exit_status = "success" => AllCompleted

\* The exit status does not hide a failure, and does not report one of a session
\* that had none; without one the sessions have completed, unless the exit was
\* requested when none of them was there to report it.  Nor does a program get that
\* far that would run a session on another core than the one it was told to.
StatusOfSessions ==
    (main = "ended" /\ exit_status \notin {"exception", "killed"}) =>
        /\ configuration.missing = {}
        /\ exit_status = "success" <=>
                \A s \in DOMAIN sessions : sessions[s].failure = "success"
        /\ exit_status # "success" =>
                \E s \in DOMAIN sessions : sessions[s].failure = exit_status
        /\ exit_status = "success" /\ ~exit_requested => AllCompleted

\* The failure of any session, or a signal that reaches the program, ends it: all
\* threads leave their loops even if their own sessions have work for ever.  And it
\* ends when no session has work any more, although it may have more threads than
\* sessions.
ProgramEnds == (exit_requested \/ AllCompleted) ~> main = "ended"
=============================================================================
