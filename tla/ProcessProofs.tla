---------------------------- MODULE ProcessProofs ----------------------------
(***************************************************************************)
(* Proofs about a process, from its file to its status.                    *)
(*                                                                         *)
(* With two sessions (Process) the handlers of the sessions do together    *)
(* what Application.tla says of outcomes (ImplementsApplication), and a    *)
(* process that returns 0 has transferred what its file asks for           *)
(* (ZeroMeansTransferred).                                                 *)
(*                                                                         *)
(* With a file of any lines (Configuration) a session is what its own line *)
(* says although all lines are read into one object (LinesIndependent), is *)
(* one that the sessions are written for (SessionsAccepted), and finds the *)
(* socket that its endpoint means (EndpointsMeet).                         *)
(*                                                                         *)
(* Each session keeps the invariant that its own proofs establish for any  *)
(* peer and any network.  What is added here, ProcessInv, relates the      *)
(* sessions to the threads: a session whose handlers are not called any    *)
(* more has a thread that has left its loop, or is about to.               *)
(***************************************************************************)
EXTENDS Process, Configuration, SequenceTheorems, TLAPS

TP == INSTANCE TcpSessionProofs WITH
            session <- tcp, Configurations <- {t.tcp : t \in Tests}
UP == INSTANCE UdpSessionProofs WITH
            session <- udp, Configurations <- {t.udp : t \in Tests}

-----------------------------------------------------------------------------
(* One definition under two names: both Process and the proofs about a     *)
(* session take it from the module of the session.                         *)

\* What the TCP session does, in this model and in the proofs about a session,
LEMMA SameTcp ==
  /\ \A conf : Tcp!initialize(conf) = TP!initialize(conf)
  /\ \A st : Tcp!OutcomeOf(st) = TP!OutcomeOf(st)
  /\ (Tcp!ConnectSucceeds <=> TP!ConnectSucceeds)
  /\ (Tcp!ConnectFails <=> TP!ConnectFails)
  /\ \A op : (Tcp!ReceivesData(op) <=> TP!ReceivesData(op))
  /\ \A op : (Tcp!ReceiveFails(op) <=> TP!ReceiveFails(op))
  /\ (Tcp!SendsData <=> TP!SendsData)
  /\ (Tcp!SendFails <=> TP!SendFails)
  /\ \A op : (Tcp!TimerExpires(op) <=> TP!TimerExpires(op))
  /\ (Tcp!Handle <=> TP!Handle)
  /\ \A byte : (Tcp!PeerSends(byte) <=> TP!PeerSends(byte))
  /\ (Tcp!PeerShutsDown <=> TP!PeerShutsDown)
  /\ (Tcp!PeerResets <=> TP!PeerResets)
<1>1. \A st, op : Tcp!begin(st, op) = TP!begin(st, op)
  BY DEF Tcp!begin, TP!begin, Tcp!allocate, TP!allocate, Tcp!HandlerMemory,
     TP!HandlerMemory, Tcp!ThrottleOps, TP!ThrottleOps, Tcp!uses, TP!uses, Tcp!MemoryOf,
     TP!MemoryOf
<1>2. \A st, comp : Tcp!complete(st, comp) = TP!complete(st, comp)
  BY DEF Tcp!complete, TP!complete
<1>3. \A st, op : Tcp!cancel(st, op) = TP!cancel(st, op)
  BY <1>2 DEF Tcp!cancel, TP!cancel, Tcp!done, TP!done
<1>4. \A st : Tcp!dispatch(st) = TP!dispatch(st)
  BY DEF Tcp!dispatch, TP!dispatch, Tcp!deallocate, TP!deallocate, Tcp!HandlerMemory,
     TP!HandlerMemory, Tcp!ThrottleOps, TP!ThrottleOps, Tcp!uses, TP!uses, Tcp!MemoryOf,
     TP!MemoryOf
<1>5. \A st : Tcp!stopped(st) <=> TP!stopped(st)
  BY DEF Tcp!stopped, TP!stopped
<1>6. \A st, failure : Tcp!abort(st, failure) = TP!abort(st, failure)
  BY DEF Tcp!abort, TP!abort
<1>7. \A st, comp : Tcp!on_signal(st, comp) = TP!on_signal(st, comp)
  BY <1>6 DEF Tcp!on_signal, TP!on_signal, Tcp!SIGINT, TP!SIGINT, Tcp!SIGTERM,
     TP!SIGTERM
<1>8. \A st, comp : Tcp!on_timeout(st, comp) = TP!on_timeout(st, comp)
  BY <1>6 DEF Tcp!on_timeout, TP!on_timeout
<1>9. \A st, data : Tcp!verify(st, data) = TP!verify(st, data)
  BY <1>6 DEF Tcp!verify, TP!verify, Tcp!Checked, TP!Checked, Tcp!Pattern, TP!Pattern
<1>10. \A st : Tcp!close(st) = TP!close(st)
  BY <1>3 DEF Tcp!close, TP!close
<1>11. \A st : Tcp!on_receive_complete(st) = TP!on_receive_complete(st)
  BY <1>3, <1>10 DEF Tcp!on_receive_complete, TP!on_receive_complete, Tcp!on_finish,
     TP!on_finish
<1>12. \A st : Tcp!on_send_complete(st) = TP!on_send_complete(st)
  BY <1>3, <1>10 DEF Tcp!on_send_complete, TP!on_send_complete, Tcp!on_finish,
     TP!on_finish
<1>13. \A st, slice_remaining_size : Tcp!async_receive(st, slice_remaining_size)
        = TP!async_receive(st, slice_remaining_size)
  BY <1>1 DEF Tcp!async_receive, TP!async_receive
<1>14. \A st : Tcp!finish_receive(st) = TP!finish_receive(st)
  BY <1>1 DEF Tcp!finish_receive, TP!finish_receive, Tcp!shutdown_send, TP!shutdown_send
<1>15. \A st, comp : Tcp!on_receive(st, comp) = TP!on_receive(st, comp)
  BY <1>6, <1>9, <1>13, <1>14 DEF Tcp!on_receive, TP!on_receive, Tcp!received,
     TP!received
<1>16. \A st, comp : Tcp!on_eof(st, comp) = TP!on_eof(st, comp)
  BY <1>6, <1>11 DEF Tcp!on_eof, TP!on_eof, Tcp!shutdown_send, TP!shutdown_send
<1>17. \A st, slice_remaining_size : Tcp!async_send(st, slice_remaining_size)
        = TP!async_send(st, slice_remaining_size)
  BY <1>1 DEF Tcp!async_send, TP!async_send, Tcp!Least, TP!Least
<1>18. \A st, comp : Tcp!on_send(st, comp) = TP!on_send(st, comp)
  BY <1>6, <1>12, <1>17 DEF Tcp!on_send, TP!on_send, Tcp!sent, TP!sent, Tcp!finish_send,
     TP!finish_send, Tcp!shutdown_send, TP!shutdown_send
<1>19. \A st, comp : Tcp!on_receive_slice(st, comp) = TP!on_receive_slice(st, comp)
  BY <1>13 DEF Tcp!on_receive_slice, TP!on_receive_slice
<1>20. \A st, comp : Tcp!on_send_slice(st, comp) = TP!on_send_slice(st, comp)
  BY <1>17 DEF Tcp!on_send_slice, TP!on_send_slice
<1>21. \A st : Tcp!start_receiving(st) = TP!start_receiving(st)
  BY <1>13, <1>14 DEF Tcp!start_receiving, TP!start_receiving
<1>22. \A st : Tcp!start_sending(st) = TP!start_sending(st)
  BY <1>12, <1>17 DEF Tcp!start_sending, TP!start_sending, Tcp!finish_send,
     TP!finish_send, Tcp!shutdown_send, TP!shutdown_send
<1>23. \A st : Tcp!start_transfer(st) = TP!start_transfer(st)
  BY <1>21, <1>22 DEF Tcp!start_transfer, TP!start_transfer
<1>24. \A conf : Tcp!initialize(conf) = TP!initialize(conf)
  BY <1>2 DEF Tcp!initialize, TP!initialize, Tcp!post, TP!post, Tcp!done, TP!done,
     Tcp!new, TP!new, Tcp!HandlerMemory, TP!HandlerMemory, Tcp!ThrottleOps,
     TP!ThrottleOps, Tcp!connected, TP!connected, Tcp!refused, TP!refused
<1>25. Tcp!ConnectSucceeds <=> TP!ConnectSucceeds
  BY <1>2 DEF Tcp!ConnectSucceeds, TP!ConnectSucceeds, Tcp!Waits, TP!Waits, Tcp!Running,
     TP!Running, Tcp!connected, TP!connected, Tcp!done, TP!done
<1>26. Tcp!ConnectFails <=> TP!ConnectFails
  BY <1>2 DEF Tcp!ConnectFails, TP!ConnectFails, Tcp!Waits, TP!Waits, Tcp!Running,
     TP!Running, Tcp!refused, TP!refused, Tcp!done, TP!done
<1>27. \A op : Tcp!ReceivesData(op) <=> TP!ReceivesData(op)
  BY <1>2 DEF Tcp!ReceivesData, TP!ReceivesData, Tcp!Waits, TP!Waits, Tcp!Running,
     TP!Running, Tcp!Least, TP!Least, Tcp!receive_size, TP!receive_size, Tcp!done,
     TP!done
<1>28. \A op : Tcp!ReceiveFails(op) <=> TP!ReceiveFails(op)
  BY <1>2 DEF Tcp!ReceiveFails, TP!ReceiveFails, Tcp!Waits, TP!Waits, Tcp!Running,
     TP!Running, Tcp!done, TP!done
<1>29. Tcp!SendsData <=> TP!SendsData
  BY <1>2 DEF Tcp!SendsData, TP!SendsData, Tcp!Waits, TP!Waits, Tcp!Running, TP!Running,
     Tcp!Least, TP!Least, Tcp!send_size, TP!send_size, Tcp!send_offset, TP!send_offset,
     Tcp!BytesToSend, TP!BytesToSend, Tcp!SendBuffer, TP!SendBuffer, Tcp!done, TP!done
<1>30. Tcp!SendFails <=> TP!SendFails
  BY <1>2 DEF Tcp!SendFails, TP!SendFails, Tcp!Waits, TP!Waits, Tcp!Running, TP!Running,
     Tcp!done, TP!done
<1>31. \A op : Tcp!TimerExpires(op) <=> TP!TimerExpires(op)
  BY <1>2 DEF Tcp!TimerExpires, TP!TimerExpires, Tcp!Waits, TP!Waits, Tcp!Running,
     TP!Running, Tcp!done, TP!done
<1>32. Tcp!Handle <=> TP!Handle
  BY <1>1, <1>4, <1>7, <1>8, <1>15, <1>16, <1>18, <1>19, <1>20, <1>23 DEF Tcp!Handle,
     TP!Handle, Tcp!HandleStart, TP!HandleStart, Tcp!Dispatches, TP!Dispatches,
     Tcp!Running, TP!Running, Tcp!start_timer, TP!start_timer, Tcp!HandleConnect,
     TP!HandleConnect, Tcp!HandleReceiveThrottle, TP!HandleReceiveThrottle,
     Tcp!HandleReceive, TP!HandleReceive, Tcp!HandleEof, TP!HandleEof,
     Tcp!HandleSendThrottle, TP!HandleSendThrottle, Tcp!HandleSend, TP!HandleSend,
     Tcp!HandleTimeout, TP!HandleTimeout, Tcp!HandleSignal, TP!HandleSignal
<1>33. \A byte : Tcp!PeerSends(byte) <=> TP!PeerSends(byte)
  BY DEF Tcp!PeerSends, TP!PeerSends, Tcp!Running, TP!Running, Tcp!expected_of_peer,
     TP!expected_of_peer, Tcp!Pattern, TP!Pattern
<1>34. Tcp!PeerShutsDown <=> TP!PeerShutsDown
  BY DEF Tcp!PeerShutsDown, TP!PeerShutsDown, Tcp!Running, TP!Running
<1>35. Tcp!PeerResets <=> TP!PeerResets
  BY DEF Tcp!PeerResets, TP!PeerResets, Tcp!Running, TP!Running
<1>36. \A st : Tcp!OutcomeOf(st) = TP!OutcomeOf(st)
  BY <1>5 DEF Tcp!OutcomeOf, TP!OutcomeOf
<1> QED BY <1>24, <1>25, <1>26, <1>27, <1>28, <1>29, <1>30, <1>31, <1>32, <1>33, <1>34,
           <1>35, <1>36

\* what the UDP session does,
LEMMA SameUdp ==
  /\ \A conf : Udp!initialize(conf) = UP!initialize(conf)
  /\ \A st : Udp!OutcomeOf(st) = UP!OutcomeOf(st)
  /\ (Udp!ReceivesDatagram <=> UP!ReceivesDatagram)
  /\ (Udp!SendsDatagram <=> UP!SendsDatagram)
  /\ (Udp!SendFails <=> UP!SendFails)
  /\ \A op : (Udp!TimerExpires(op) <=> UP!TimerExpires(op))
  /\ (Udp!Handle <=> UP!Handle)
  /\ \A datagram : (Udp!Arrives(datagram) <=> UP!Arrives(datagram))
<1>1. \A st, op : Udp!begin(st, op) = UP!begin(st, op)
  BY DEF Udp!begin, UP!begin, Udp!allocate, UP!allocate, Udp!HandlerMemory,
     UP!HandlerMemory, Udp!ThrottleOps, UP!ThrottleOps, Udp!uses, UP!uses, Udp!MemoryOf,
     UP!MemoryOf
<1>2. \A st, comp : Udp!complete(st, comp) = UP!complete(st, comp)
  BY DEF Udp!complete, UP!complete
<1>3. \A st, op : Udp!cancel(st, op) = UP!cancel(st, op)
  BY <1>2 DEF Udp!cancel, UP!cancel, Udp!done, UP!done
<1>4. \A st : Udp!dispatch(st) = UP!dispatch(st)
  BY DEF Udp!dispatch, UP!dispatch, Udp!deallocate, UP!deallocate, Udp!HandlerMemory,
     UP!HandlerMemory, Udp!ThrottleOps, UP!ThrottleOps, Udp!uses, UP!uses, Udp!MemoryOf,
     UP!MemoryOf
<1>5. \A st : Udp!stopped(st) <=> UP!stopped(st)
  BY DEF Udp!stopped, UP!stopped
<1>6. \A st, failure : Udp!abort(st, failure) = UP!abort(st, failure)
  BY DEF Udp!abort, UP!abort
<1>7. \A st, comp : Udp!on_signal(st, comp) = UP!on_signal(st, comp)
  BY <1>6 DEF Udp!on_signal, UP!on_signal, Udp!SIGINT, UP!SIGINT, Udp!SIGTERM,
     UP!SIGTERM
<1>8. \A st, comp : Udp!on_timeout(st, comp) = UP!on_timeout(st, comp)
  BY <1>6 DEF Udp!on_timeout, UP!on_timeout
<1>9. \A st, data : Udp!verify(st, data) = UP!verify(st, data)
  BY <1>6 DEF Udp!verify, UP!verify, Udp!Checked, UP!Checked, Udp!Pattern, UP!Pattern
<1>10. \A st : Udp!close(st) = UP!close(st)
  BY <1>3 DEF Udp!close, UP!close
<1>11. \A st : Udp!on_receive_complete(st) = UP!on_receive_complete(st)
  BY <1>3, <1>10 DEF Udp!on_receive_complete, UP!on_receive_complete, Udp!on_finish,
     UP!on_finish
<1>12. \A st : Udp!on_send_complete(st) = UP!on_send_complete(st)
  BY <1>3, <1>10 DEF Udp!on_send_complete, UP!on_send_complete, Udp!on_finish,
     UP!on_finish
<1>13. \A st, slice_remaining_size : Udp!async_receive(st, slice_remaining_size)
        = UP!async_receive(st, slice_remaining_size)
  BY <1>1 DEF Udp!async_receive, UP!async_receive
<1>14. \A st : Udp!finish_receive(st) = UP!finish_receive(st)
  BY <1>11 DEF Udp!finish_receive, UP!finish_receive
<1>15. \A st, data : Udp!verify_datagram(st, data) = UP!verify_datagram(st, data)
  BY <1>9 DEF Udp!verify_datagram, UP!verify_datagram
<1>16. \A st, comp : Udp!on_receive(st, comp) = UP!on_receive(st, comp)
  BY <1>6, <1>13, <1>14, <1>15 DEF Udp!on_receive, UP!on_receive, Udp!received,
     UP!received
<1>17. \A st, slice_remaining_size : Udp!async_send(st, slice_remaining_size)
        = UP!async_send(st, slice_remaining_size)
  BY <1>1 DEF Udp!async_send, UP!async_send, Udp!Least, UP!Least
<1>18. \A st, comp : Udp!on_send(st, comp) = UP!on_send(st, comp)
  BY <1>6, <1>12, <1>17 DEF Udp!on_send, UP!on_send, Udp!sent, UP!sent, Udp!finish_send,
     UP!finish_send
<1>19. \A st, comp : Udp!on_receive_slice(st, comp) = UP!on_receive_slice(st, comp)
  BY <1>13 DEF Udp!on_receive_slice, UP!on_receive_slice
<1>20. \A st, comp : Udp!on_send_slice(st, comp) = UP!on_send_slice(st, comp)
  BY <1>17 DEF Udp!on_send_slice, UP!on_send_slice
<1>21. \A st : Udp!start_receiving(st) = UP!start_receiving(st)
  BY <1>13, <1>14 DEF Udp!start_receiving, UP!start_receiving
<1>22. \A st : Udp!start_sending(st) = UP!start_sending(st)
  BY <1>12, <1>17 DEF Udp!start_sending, UP!start_sending, Udp!finish_send,
     UP!finish_send
<1>23. \A st : Udp!start_transfer(st) = UP!start_transfer(st)
  BY <1>21, <1>22 DEF Udp!start_transfer, UP!start_transfer
<1>24. \A conf : Udp!initialize(conf) = UP!initialize(conf)
  BY DEF Udp!initialize, UP!initialize, Udp!post, UP!post, Udp!new, UP!new,
     Udp!HandlerMemory, UP!HandlerMemory, Udp!ThrottleOps, UP!ThrottleOps, Udp!done,
     UP!done
<1>25. \A st, data : Udp!oddities(st, data) = UP!oddities(st, data)
  BY DEF Udp!oddities, UP!oddities, Udp!Pattern, UP!Pattern
<1>26. Udp!ReceivesDatagram <=> UP!ReceivesDatagram
  BY <1>2, <1>25 DEF Udp!ReceivesDatagram, UP!ReceivesDatagram, Udp!Waits, UP!Waits,
     Udp!Running, UP!Running, Udp!Least, UP!Least, Udp!receive_size, UP!receive_size,
     Udp!done, UP!done
<1>27. Udp!SendsDatagram <=> UP!SendsDatagram
  BY <1>2 DEF Udp!SendsDatagram, UP!SendsDatagram, Udp!Waits, UP!Waits, Udp!Running,
     UP!Running, Udp!datagrams_to_send, UP!datagrams_to_send, Udp!BytesToSend,
     UP!BytesToSend, Udp!SendBuffer, UP!SendBuffer, Udp!send_offset, UP!send_offset,
     Udp!Least, UP!Least, Udp!get_max_datagram_size, UP!get_max_datagram_size, Udp!done,
     UP!done
<1>28. Udp!SendFails <=> UP!SendFails
  BY <1>2 DEF Udp!SendFails, UP!SendFails, Udp!Waits, UP!Waits, Udp!Running, UP!Running,
     Udp!done, UP!done
<1>29. \A op : Udp!TimerExpires(op) <=> UP!TimerExpires(op)
  BY <1>2 DEF Udp!TimerExpires, UP!TimerExpires, Udp!Waits, UP!Waits, Udp!Running,
     UP!Running, Udp!done, UP!done
<1>30. Udp!Handle <=> UP!Handle
  BY <1>1, <1>4, <1>7, <1>8, <1>16, <1>18, <1>19, <1>20, <1>23 DEF Udp!Handle,
     UP!Handle, Udp!HandleStart, UP!HandleStart, Udp!Dispatches, UP!Dispatches,
     Udp!Running, UP!Running, Udp!start_timer, UP!start_timer,
     Udp!HandleReceiveThrottle, UP!HandleReceiveThrottle, Udp!HandleReceive,
     UP!HandleReceive, Udp!HandleSendThrottle, UP!HandleSendThrottle, Udp!HandleSend,
     UP!HandleSend, Udp!HandleTimeout, UP!HandleTimeout, Udp!HandleSignal,
     UP!HandleSignal
<1>31. \A datagram : Udp!Arrives(datagram) <=> UP!Arrives(datagram)
  BY DEF Udp!Arrives, UP!Arrives, Udp!Running, UP!Running
<1>32. \A st : Udp!OutcomeOf(st) = UP!OutcomeOf(st)
  BY <1>5 DEF Udp!OutcomeOf, UP!OutcomeOf
<1> QED BY <1>24, <1>26, <1>27, <1>28, <1>29, <1>30, <1>31, <1>32

\* The outcomes that the sessions promise are those that the application expects.
LEMMA SamePromise ==
  /\ TP!Promise!Unfinished = App!Session_!Unfinished
  /\ UP!Promise!Unfinished = App!Session_!Unfinished
  /\ \A o : /\ TP!Promise!advances(o) = App!Session_!advances(o)
            /\ UP!Promise!advances(o) = App!Session_!advances(o)
            /\ TP!Promise!aborts(o) = App!Session_!aborts(o)
            /\ UP!Promise!aborts(o) = App!Session_!aborts(o)
<1>1. /\ TP!Promise!Unfinished = App!Session_!Unfinished
      /\ UP!Promise!Unfinished = App!Session_!Unfinished
  BY DEF TP!Promise!Unfinished, UP!Promise!Unfinished, App!Session_!Unfinished
<1>2. \A o : /\ TP!Promise!advances(o) = App!Session_!advances(o)
             /\ UP!Promise!advances(o) = App!Session_!advances(o)
  BY DEF TP!Promise!advances, UP!Promise!advances, App!Session_!advances
<1>3. /\ TP!Promise!ErrorCode = App!Session_!ErrorCode
      /\ UP!Promise!ErrorCode = App!Session_!ErrorCode
      /\ TP!Promise!Interruption = App!Session_!Interruption
      /\ UP!Promise!Interruption = App!Session_!Interruption
  BY DEF TP!Promise!ErrorCode, UP!Promise!ErrorCode, App!Session_!ErrorCode,
     TP!Promise!SystemError, UP!Promise!SystemError, App!Session_!SystemError,
     TP!Promise!Error, UP!Promise!Error, App!Session_!Error,
     TP!Promise!Interruption, UP!Promise!Interruption, App!Session_!Interruption
<1>4. \A o : TP!Promise!aborts(o) = App!Session_!aborts(o)
  BY <1>3 DEF TP!Promise!aborts, App!Session_!aborts
<1>5. \A o : UP!Promise!aborts(o) = App!Session_!aborts(o)
  BY <1>3 DEF UP!Promise!aborts, App!Session_!aborts
<1> QED BY <1>1, <1>2, <1>4, <1>5

\* What both sessions share with the process.
LEMMA SameSession ==
  /\ \A st : TP!HasSignal(st) <=> Signalled(st)
  /\ \A st : UP!HasSignal(st) <=> Signalled(st)
  /\ \A st : TP!stopped(st) <=> stopped(st)
  /\ \A st : UP!stopped(st) <=> stopped(st)
  /\ \A st, comp : TP!complete(st, comp) = complete(st, comp)
  /\ \A st, comp : UP!complete(st, comp) = complete(st, comp)
  /\ TP!SessionConfiguration = SessionConfiguration
  /\ UP!SessionConfiguration = SessionConfiguration
  /\ TP!ErrorCode = ErrorCode /\ UP!ErrorCode = ErrorCode
<1>1. /\ \A st : TP!Queued(st) = Queued(st)
      /\ \A st : UP!Queued(st) = Queued(st)
  BY DEF TP!Queued, UP!Queued, Queued
<1>2. /\ \A st : TP!HasSignal(st) <=> Signalled(st)
      /\ \A st : UP!HasSignal(st) <=> Signalled(st)
  BY <1>1 DEF TP!HasSignal, UP!HasSignal, Signalled
<1>3. /\ \A st : TP!stopped(st) <=> stopped(st)
      /\ \A st : UP!stopped(st) <=> stopped(st)
  BY DEF TP!stopped, UP!stopped, stopped
<1>4. /\ \A st, comp : TP!complete(st, comp) = complete(st, comp)
      /\ \A st, comp : UP!complete(st, comp) = complete(st, comp)
  BY DEF TP!complete, UP!complete, complete
<1>5. /\ TP!SessionConfiguration = SessionConfiguration
      /\ UP!SessionConfiguration = SessionConfiguration
  BY DEF TP!SessionConfiguration, UP!SessionConfiguration, SessionConfiguration,
     TP!Verify, UP!Verify, Verify, TP!Direction, UP!Direction, Direction,
     TP!ShutdownPolicy, UP!ShutdownPolicy, ShutdownPolicy
<1>6. TP!ErrorCode = ErrorCode /\ UP!ErrorCode = ErrorCode
  BY DEF TP!ErrorCode, UP!ErrorCode, ErrorCode, TP!SystemError, UP!SystemError,
     SystemError, TP!Error, UP!Error, Error
<1> QED BY <1>2, <1>3, <1>4, <1>5, <1>6

\* What the modules of the sessions assume of their constants.
LEMMA SessionsAssumed ==
  /\ \A conf \in {t.tcp : t \in Tests} :
        conf \in TP!SessionConfiguration /\ TP!Accepted(conf)
  /\ \A conf \in {t.udp : t \in Tests} :
        conf \in UP!SessionConfiguration /\ UP!Accepted(conf)
  /\ Datagrams \subseteq Seq(UP!Byte)
BY TestsAssumption, DatagramsAssumption, SameSession
   DEF TP!Accepted, UP!Accepted, Accepted, UP!Byte, Byte

-----------------------------------------------------------------------------
(* A session as the process sees it: its invariant, its outcome and        *)
(* whether it has a signal are all that the rest of the proof speaks of.   *)

TcpInv == TP!ControlInv /\ TP!DataInv /\ TP!SignalsKnown(tcp)
UdpInv == UP!ControlInv /\ UP!SignalsKnown(udp)

tcp_outcome == Tcp!OutcomeOf(tcp)
udp_outcome == Udp!OutcomeOf(udp)

\* A handler turns the outcome `o' into `p': `before' and `after' say whether the session
\* has a signal, `exits' whether the handler has requested the exit.
Turns(o, before, p, after, exits) ==
    /\ o.status # "idle"
    /\ \/ /\ ~exits
          /\ after <=> before
          /\ p = o \/ p \in App!Session_!advances(o)
          /\ before => p.status # "idle"
       \/ /\ exits
          /\ p \in App!Session_!aborts(o)
          /\ \/ /\ p.failure \in ErrorCode \ {"success", "user_interrupt",
                                     "program_termination", "unknown_signal"}
                /\ after <=> before
             \/ p.failure = "user_interrupt" /\ before /\ ~after

\* Nothing that the program knows of the session has changed.
TcpUnseen == tcp_outcome' = tcp_outcome /\ (Signalled(tcp)' <=> Signalled(tcp))
UdpUnseen == udp_outcome' = udp_outcome /\ (Signalled(udp)' <=> Signalled(udp))

\* How the TCP session starts.
LEMMA TcpStarts ==
  ASSUME Init
  PROVE  TcpInv /\ tcp_outcome = App!Session_!Unfinished /\ ~Signalled(tcp)
         /\ ~tcp.exit_requested
<1>1. test.tcp \in {t.tcp : t \in Tests} /\ tcp \in TP!initialize(test.tcp)
  BY SameTcp DEF Init
<1>2. TP!Init
  BY <1>1 DEF Init, TP!Init
<1>3. TP!ControlInv /\ TP!DataInv
  BY <1>2, TP!InitControl, TP!InitData, SessionsAssumed, EnvironmentAssumption,
     BufferAssumption
<1>4. test.tcp \in TP!SessionConfiguration
  BY <1>1, SessionsAssumed
<1>5. /\ TP!SignalsKnown(tcp) /\ ~TP!HasSignal(tcp)
      /\ TP!OutcomeOf(tcp) = TP!Promise!Unfinished /\ ~tcp.exit_requested
  BY <1>1, <1>4, TP!SignalsInit, SessionsAssumed, EnvironmentAssumption,
     BufferAssumption
<1> QED BY <1>3, <1>5, SameTcp, SamePromise, SameSession DEF TcpInv, tcp_outcome

\* It takes no notice of what does not change it.
LEMMA TcpRests ==
  ASSUME TcpInv, UNCHANGED ofTcp
  PROVE  TcpInv' /\ TcpUnseen /\ tcp' = tcp
<1>1. UNCHANGED TP!vars /\ tcp' = tcp
  BY DEF ofTcp, TP!vars
<1>2. TP!ControlInv' /\ TP!DataInv'
  BY <1>1, TP!DataStep, SessionsAssumed, EnvironmentAssumption,
     BufferAssumption DEF TcpInv
<1> QED BY <1>1, <1>2 DEF TcpInv, TcpUnseen, tcp_outcome, Signalled, Queued, Tcp!OutcomeOf,
           Tcp!stopped, TP!SignalsKnown, TP!OnlyInterrupts, TP!Queued, TP!Outstanding

\* What a handler of it does.
LEMMA TcpHandles ==
  ASSUME TcpInv, Tcp!Handle
  PROVE  /\ TcpInv'
         /\ Turns(tcp_outcome, Signalled(tcp), tcp_outcome', Signalled(tcp)',
                  tcp'.exit_requested)
<1>1. TP!Handle
  BY SameTcp
<1>2. TP!ControlInv' /\ TP!DataInv'
  BY <1>1, TP!DataStep, SessionsAssumed, EnvironmentAssumption,
     BufferAssumption DEF TcpInv, TP!Next
<1>3. /\ TP!SignalsKnown(tcp')
      /\ TP!OutcomeOf(tcp).status # "idle"
      /\ tcp'.failure \in TP!ErrorCode
      /\ \/ /\ TP!GoesOn(tcp', tcp)
            /\ \/ TP!OutcomeOf(tcp)' = TP!OutcomeOf(tcp)
               \/ TP!OutcomeOf(tcp)' \in TP!Promise!advances(TP!OutcomeOf(tcp))
            /\ TP!HasSignal(tcp) => TP!OutcomeOf(tcp)'.status # "idle"
         \/ /\ TP!Fails(tcp', tcp)
            /\ TP!OutcomeOf(tcp)' \in TP!Promise!aborts(TP!OutcomeOf(tcp))
  BY <1>1, <1>2, TP!HandlerSeen, SessionsAssumed, EnvironmentAssumption,
     BufferAssumption DEF TcpInv, TP!DataInv
<1>4. /\ tcp_outcome = TP!OutcomeOf(tcp) /\ tcp_outcome' = TP!OutcomeOf(tcp)'
      /\ tcp_outcome'.failure = tcp'.failure
  BY SameTcp DEF tcp_outcome, Tcp!OutcomeOf
<1>5. /\ Signalled(tcp) <=> TP!HasSignal(tcp)
      /\ Signalled(tcp)' <=> TP!HasSignal(tcp')
  BY SameSession
<1>6. /\ \A o : TP!Promise!advances(o) = App!Session_!advances(o)
      /\ \A o : TP!Promise!aborts(o) = App!Session_!aborts(o)
      /\ TP!ErrorCode = ErrorCode
  BY SamePromise, SameSession
<1>7. CASE TP!GoesOn(tcp', tcp)
  <2>1. ~tcp'.exit_requested /\ (Signalled(tcp)' <=> Signalled(tcp))
    BY <1>5, <1>7 DEF TP!GoesOn
  <2>2. ~TP!Fails(tcp', tcp)
    BY <2>1 DEF TP!Fails
  <2> QED BY <1>2, <1>3, <1>4, <1>5, <1>6, <2>1, <2>2 DEF Turns, TcpInv
<1>8. CASE ~TP!GoesOn(tcp', tcp)
  <2>1. /\ tcp'.exit_requested /\ tcp'.failure # "success"
        /\ \/ /\ tcp'.failure = "user_interrupt"
              /\ Signalled(tcp) /\ ~Signalled(tcp)'
           \/ /\ tcp'.failure \notin {"user_interrupt", "program_termination",
                                        "unknown_signal"}
              /\ Signalled(tcp)' <=> Signalled(tcp)
    BY <1>3, <1>5, <1>8 DEF TP!Fails, TP!SignalFailures
  <2> QED BY <1>2, <1>3, <1>4, <1>6, <1>8, <2>1 DEF Turns, TcpInv
<1> QED BY <1>7, <1>8

\* What its peer, the network and its timers do is not seen.
LEMMA TcpWaits ==
  ASSUME TcpInv,
         \/ Tcp!ConnectSucceeds \/ Tcp!ConnectFails
         \/ Tcp!ReceivesData("receive") \/ Tcp!ReceiveFails("receive")
         \/ Tcp!ReceivesData("eof") \/ Tcp!ReceiveFails("eof")
         \/ Tcp!SendsData \/ Tcp!SendFails
         \/ \E op \in {"receive_throttle", "send_throttle", "timeout"} :
                Tcp!TimerExpires(op)
         \/ \E byte \in Byte : Tcp!PeerSends(byte)
         \/ Tcp!PeerShutsDown \/ Tcp!PeerResets
  PROVE  TcpInv' /\ TcpUnseen /\ tcp'.exit_requested = tcp.exit_requested
<1>0. TP!Byte = Byte
  BY DEF TP!Byte, Byte
<1>1. \/ TP!ConnectSucceeds \/ TP!ConnectFails
      \/ TP!ReceivesData("receive") \/ TP!ReceiveFails("receive")
      \/ TP!ReceivesData("eof") \/ TP!ReceiveFails("eof")
      \/ TP!SendsData \/ TP!SendFails
      \/ \E op \in {"receive_throttle", "send_throttle", "timeout"} :
            TP!TimerExpires(op)
      \/ \E byte \in TP!Byte : TP!PeerSends(byte)
      \/ TP!PeerShutsDown \/ TP!PeerResets
  BY <1>0, SameTcp
<1>2. TP!Next
  BY <1>1 DEF TP!Next, TP!Complete, TP!Environment
<1>3. TP!ControlInv' /\ TP!DataInv'
  BY <1>2, TP!DataStep, SessionsAssumed, EnvironmentAssumption,
     BufferAssumption DEF TcpInv
<1>4. /\ TP!SignalsKnown(tcp') /\ (TP!HasSignal(tcp') <=> TP!HasSignal(tcp))
      /\ TP!OutcomeOf(tcp)' = TP!OutcomeOf(tcp)
      /\ tcp'.exit_requested = tcp.exit_requested
  BY <1>1, TP!SignalsOfNetwork, SessionsAssumed, EnvironmentAssumption,
     BufferAssumption DEF TcpInv
<1> QED BY <1>3, <1>4, SameTcp, SameSession DEF TcpInv, TcpUnseen, tcp_outcome

\* When its thread sees the flag, its handlers are not called any more.
LEMMA TcpTold ==
  ASSUME TcpInv, NEW leaving \in BOOLEAN,
         tcp' = [tcp EXCEPT !.exit_requested = @ \/ leaving],
         UNCHANGED <<inbound, outbound, peer>>
  PROVE  TcpInv' /\ TcpUnseen /\ (tcp'.exit_requested => tcp.exit_requested \/ leaving)
<1>1. tcp \in TP!SessionState
  BY DEF TcpInv, TP!ControlInv, TP!TypeOK
<1>2. /\ tcp'.waiting = tcp.waiting /\ tcp'.ready = tcp.ready
      /\ tcp'.failure = tcp.failure /\ tcp'.socket = tcp.socket
      /\ tcp'.exit_requested => tcp.exit_requested \/ leaving
  BY <1>1 DEF TP!SessionState
<1>3. (TP!SignalsKnown(tcp') <=> TP!SignalsKnown(tcp))
      /\ (TP!HasSignal(tcp') <=> TP!HasSignal(tcp))
  BY <1>2, TP!SignalsSame, SessionsAssumed, EnvironmentAssumption,
     BufferAssumption
<1>4. [TP!Next]_(TP!vars)
  <2>1. CASE leaving /\ ~tcp.exit_requested
    <3>1. tcp' = [tcp EXCEPT !.exit_requested = TRUE]
      BY <2>1
    <3> QED BY <2>1, <3>1
            DEF TP!Next, TP!Environment, TP!ExitRequestedElsewhere, TP!Running
  <2>2. CASE ~(leaving /\ ~tcp.exit_requested)
    <3>1. tcp' = [tcp EXCEPT !.exit_requested = tcp.exit_requested]
      BY <1>1, <2>2 DEF TP!SessionState
    <3>2. tcp' = tcp
      BY <1>1, <3>1 DEF TP!SessionState
    <3> QED BY <3>2 DEF TP!vars
  <2> QED BY <2>1, <2>2
<1>5. TP!ControlInv' /\ TP!DataInv'
  BY <1>4, TP!DataStep, SessionsAssumed, EnvironmentAssumption,
     BufferAssumption DEF TcpInv
<1>6. tcp_outcome' = tcp_outcome
  BY <1>2 DEF tcp_outcome, Tcp!OutcomeOf, Tcp!stopped
<1> QED BY <1>2, <1>3, <1>5, <1>6, SameSession DEF TcpInv, TcpUnseen

\* A signal: it is queued for the session if that is active and has not reported one, or
\* there is one already.
LEMMA TcpInterrupted ==
  ASSUME TcpInv, tcp' = queues_signal(tcp), UNCHANGED <<inbound, outbound, peer>>
  PROVE  /\ TcpInv' /\ tcp_outcome' = tcp_outcome
         /\ tcp'.exit_requested = tcp.exit_requested
         /\ Signalled(tcp)' <=>
                \/ Signalled(tcp)
                \/ tcp_outcome.status = "active" /\ tcp_outcome.failure # "user_interrupt"
<1> DEFINE waits == tcp_outcome.status = "active" /\ tcp_outcome.failure # "user_interrupt"
<1>1. /\ "signal" \in tcp.waiting => waits
      /\ waits => "signal" \in tcp.waiting \/ Signalled(tcp)
  BY TP!SignalSeen, SameTcp, SameSession, SessionsAssumed, EnvironmentAssumption,
     BufferAssumption DEF TcpInv, tcp_outcome
<1>2. CASE "signal" \in tcp.waiting
  <2>1. tcp' = TP!complete(tcp, TP!done("signal", "success", <<TP!SIGINT>>))
    BY <1>2, SameSession DEF queues_signal, TP!done, done, TP!SIGINT, SIGINT
  <2>2. /\ TP!ControlInv' /\ TP!DataInv'
        /\ TP!SignalsKnown(tcp') /\ TP!HasSignal(tcp')
        /\ TP!OutcomeOf(tcp)' = TP!OutcomeOf(tcp)
        /\ tcp'.exit_requested = tcp.exit_requested
    BY <1>2, <2>1, TP!SignalsOfSignal, SessionsAssumed, EnvironmentAssumption,
     BufferAssumption DEF TcpInv
  <2> QED BY <1>1, <1>2, <2>2, SameTcp, SameSession DEF TcpInv, tcp_outcome
<1>3. CASE "signal" \notin tcp.waiting
  <2>1. UNCHANGED ofTcp
    BY <1>3 DEF queues_signal, ofTcp
  <2>2. TcpInv' /\ TcpUnseen /\ tcp' = tcp
    BY <2>1, TcpRests
  <2> QED BY <1>1, <1>3, <2>2 DEF TcpUnseen
<1> QED BY <1>2, <1>3

\* It runs out of work when it is idle, as long as its handlers are called.
LEMMA TcpStops ==
  ASSUME TcpInv, ~tcp.exit_requested
  PROVE  stopped(tcp) <=> tcp_outcome.status = "idle"
BY TP!StoppedSeen, SameTcp, SameSession, SessionsAssumed, EnvironmentAssumption,
     BufferAssumption DEF TcpInv, tcp_outcome

\* And it is idle when it has transferred its size.
LEMMA TcpIdle ==
  ASSUME TcpInv, tcp_outcome.status = "idle"
  PROVE  Transferred(tcp)
BY TP!IdleSeen, SameTcp, SessionsAssumed, EnvironmentAssumption,
     BufferAssumption DEF TcpInv, tcp_outcome, Transferred

\* How the UDP session starts.
LEMMA UdpStarts ==
  ASSUME Init
  PROVE  UdpInv /\ udp_outcome = App!Session_!Unfinished /\ ~Signalled(udp)
         /\ ~udp.exit_requested
<1>1. test.udp \in {t.udp : t \in Tests} /\ udp = UP!initialize(test.udp)
  BY SameUdp DEF Init
<1>2. UP!Init
  BY <1>1 DEF Init, UP!Init
<1>3. UP!ControlInv
  BY <1>2, UP!InitControl, SessionsAssumed, DatagramsAssumption,
     BufferAssumption
<1>4. test.udp \in UP!SessionConfiguration
  BY <1>1, SessionsAssumed
<1>5. /\ UP!SignalsKnown(udp) /\ ~UP!HasSignal(udp)
      /\ UP!OutcomeOf(udp) = UP!Promise!Unfinished /\ ~udp.exit_requested
  BY <1>1, <1>4, UP!SignalsInit, SessionsAssumed, DatagramsAssumption,
     BufferAssumption
<1> QED BY <1>3, <1>5, SameUdp, SamePromise, SameSession DEF UdpInv, udp_outcome

\* It takes no notice of what does not change it.
LEMMA UdpRests ==
  ASSUME UdpInv, UNCHANGED ofUdp
  PROVE  UdpInv' /\ UdpUnseen /\ udp' = udp
<1>1. UNCHANGED UP!vars /\ udp' = udp
  BY DEF ofUdp, UP!vars
<1>2. UP!ControlInv'
  BY <1>1, UP!ControlStep, SessionsAssumed, DatagramsAssumption,
     BufferAssumption DEF UdpInv
<1> QED BY <1>1, <1>2 DEF UdpInv, UdpUnseen, udp_outcome, Signalled, Queued, Udp!OutcomeOf,
           Udp!stopped, UP!SignalsKnown, UP!OnlyInterrupts, UP!Queued, UP!Outstanding

\* What a handler of it does.
LEMMA UdpHandles ==
  ASSUME UdpInv, Udp!Handle
  PROVE  /\ UdpInv'
         /\ Turns(udp_outcome, Signalled(udp), udp_outcome', Signalled(udp)',
                  udp'.exit_requested)
<1>1. UP!Handle
  BY SameUdp
<1>2. UP!ControlInv'
  BY <1>1, UP!ControlStep, SessionsAssumed, DatagramsAssumption,
     BufferAssumption DEF UdpInv, UP!Next
<1>3. /\ UP!SignalsKnown(udp')
      /\ UP!OutcomeOf(udp).status # "idle"
      /\ udp'.failure \in UP!ErrorCode
      /\ \/ /\ UP!GoesOn(udp', udp)
            /\ \/ UP!OutcomeOf(udp)' = UP!OutcomeOf(udp)
               \/ UP!OutcomeOf(udp)' \in UP!Promise!advances(UP!OutcomeOf(udp))
            /\ UP!HasSignal(udp) => UP!OutcomeOf(udp)'.status # "idle"
         \/ /\ UP!Fails(udp', udp)
            /\ UP!OutcomeOf(udp)' \in UP!Promise!aborts(UP!OutcomeOf(udp))
  BY <1>1, <1>2, UP!HandlerSeen, SessionsAssumed, DatagramsAssumption,
     BufferAssumption DEF UdpInv
<1>4. /\ udp_outcome = UP!OutcomeOf(udp) /\ udp_outcome' = UP!OutcomeOf(udp)'
      /\ udp_outcome'.failure = udp'.failure
  BY SameUdp DEF udp_outcome, Udp!OutcomeOf
<1>5. /\ Signalled(udp) <=> UP!HasSignal(udp)
      /\ Signalled(udp)' <=> UP!HasSignal(udp')
  BY SameSession
<1>6. /\ \A o : UP!Promise!advances(o) = App!Session_!advances(o)
      /\ \A o : UP!Promise!aborts(o) = App!Session_!aborts(o)
      /\ UP!ErrorCode = ErrorCode
  BY SamePromise, SameSession
<1>7. CASE UP!GoesOn(udp', udp)
  <2>1. ~udp'.exit_requested /\ (Signalled(udp)' <=> Signalled(udp))
    BY <1>5, <1>7 DEF UP!GoesOn
  <2>2. ~UP!Fails(udp', udp)
    BY <2>1 DEF UP!Fails
  <2> QED BY <1>2, <1>3, <1>4, <1>5, <1>6, <2>1, <2>2 DEF Turns, UdpInv
<1>8. CASE ~UP!GoesOn(udp', udp)
  <2>1. /\ udp'.exit_requested /\ udp'.failure # "success"
        /\ \/ /\ udp'.failure = "user_interrupt"
              /\ Signalled(udp) /\ ~Signalled(udp)'
           \/ /\ udp'.failure \notin {"user_interrupt", "program_termination",
                                        "unknown_signal"}
              /\ Signalled(udp)' <=> Signalled(udp)
    BY <1>3, <1>5, <1>8 DEF UP!Fails, UP!SignalFailures
  <2> QED BY <1>2, <1>3, <1>4, <1>6, <1>8, <2>1 DEF Turns, UdpInv
<1> QED BY <1>7, <1>8

\* What its peer, the network and its timers do is not seen.
LEMMA UdpWaits ==
  ASSUME UdpInv,
         \/ Udp!ReceivesDatagram \/ Udp!SendsDatagram \/ Udp!SendFails
         \/ \E op \in {"receive_throttle", "send_throttle", "timeout"} :
                Udp!TimerExpires(op)
         \/ \E datagram \in Datagrams : Udp!Arrives(datagram)
  PROVE  UdpInv' /\ UdpUnseen /\ udp'.exit_requested = udp.exit_requested
<1>1. \/ UP!ReceivesDatagram \/ UP!SendsDatagram \/ UP!SendFails
      \/ \E op \in {"receive_throttle", "send_throttle", "timeout"} :
            UP!TimerExpires(op)
      \/ \E datagram \in Datagrams : UP!Arrives(datagram)
  BY SameUdp
<1>2. UP!Next
  BY <1>1 DEF UP!Next, UP!Complete, UP!Environment
<1>3. UP!ControlInv'
  BY <1>2, UP!ControlStep, SessionsAssumed, DatagramsAssumption,
     BufferAssumption DEF UdpInv
<1>4. /\ UP!SignalsKnown(udp') /\ (UP!HasSignal(udp') <=> UP!HasSignal(udp))
      /\ UP!OutcomeOf(udp)' = UP!OutcomeOf(udp)
      /\ udp'.exit_requested = udp.exit_requested
  BY <1>1, UP!SignalsOfNetwork, SessionsAssumed, DatagramsAssumption,
     BufferAssumption DEF UdpInv
<1> QED BY <1>3, <1>4, SameUdp, SameSession DEF UdpInv, UdpUnseen, udp_outcome

\* When its thread sees the flag, its handlers are not called any more.
LEMMA UdpTold ==
  ASSUME UdpInv, NEW leaving \in BOOLEAN,
         udp' = [udp EXCEPT !.exit_requested = @ \/ leaving],
         UNCHANGED <<arrived, outgoing, head, strange>>
  PROVE  UdpInv' /\ UdpUnseen /\ (udp'.exit_requested => udp.exit_requested \/ leaving)
<1>1. udp \in UP!SessionState
  BY DEF UdpInv, UP!ControlInv, UP!TypeOK
<1>2. /\ udp'.waiting = udp.waiting /\ udp'.ready = udp.ready
      /\ udp'.failure = udp.failure /\ udp'.socket = udp.socket
      /\ udp'.exit_requested => udp.exit_requested \/ leaving
  BY <1>1 DEF UP!SessionState
<1>3. (UP!SignalsKnown(udp') <=> UP!SignalsKnown(udp))
      /\ (UP!HasSignal(udp') <=> UP!HasSignal(udp))
  BY <1>2, UP!SignalsSame, SessionsAssumed, DatagramsAssumption,
     BufferAssumption
<1>4. [UP!Next]_(UP!vars)
  <2>1. CASE leaving /\ ~udp.exit_requested
    <3>1. udp' = [udp EXCEPT !.exit_requested = TRUE]
      BY <2>1
    <3> QED BY <2>1, <3>1
            DEF UP!Next, UP!Environment, UP!ExitRequestedElsewhere, UP!Running
  <2>2. CASE ~(leaving /\ ~udp.exit_requested)
    <3>1. udp' = [udp EXCEPT !.exit_requested = udp.exit_requested]
      BY <1>1, <2>2 DEF UP!SessionState
    <3>2. udp' = udp
      BY <1>1, <3>1 DEF UP!SessionState
    <3> QED BY <3>2 DEF UP!vars
  <2> QED BY <2>1, <2>2
<1>5. UP!ControlInv'
  BY <1>4, UP!ControlStep, SessionsAssumed, DatagramsAssumption,
     BufferAssumption DEF UdpInv
<1>6. udp_outcome' = udp_outcome
  BY <1>2 DEF udp_outcome, Udp!OutcomeOf, Udp!stopped
<1> QED BY <1>2, <1>3, <1>5, <1>6, SameSession DEF UdpInv, UdpUnseen

\* A signal: it is queued for the session if that is active and has not reported one, or
\* there is one already.
LEMMA UdpInterrupted ==
  ASSUME UdpInv, udp' = queues_signal(udp), UNCHANGED <<arrived, outgoing, head, strange>>
  PROVE  /\ UdpInv' /\ udp_outcome' = udp_outcome
         /\ udp'.exit_requested = udp.exit_requested
         /\ Signalled(udp)' <=>
                \/ Signalled(udp)
                \/ udp_outcome.status = "active" /\ udp_outcome.failure # "user_interrupt"
<1> DEFINE waits == udp_outcome.status = "active" /\ udp_outcome.failure # "user_interrupt"
<1>1. /\ "signal" \in udp.waiting => waits
      /\ waits => "signal" \in udp.waiting \/ Signalled(udp)
  BY UP!SignalSeen, SameUdp, SameSession, SessionsAssumed, DatagramsAssumption,
     BufferAssumption DEF UdpInv, udp_outcome
<1>2. CASE "signal" \in udp.waiting
  <2>1. udp' = UP!complete(udp, UP!done("signal", "success", <<UP!SIGINT>>))
    BY <1>2, SameSession DEF queues_signal, UP!done, done, UP!SIGINT, SIGINT
  <2>2. /\ UP!ControlInv'
        /\ UP!SignalsKnown(udp') /\ UP!HasSignal(udp')
        /\ UP!OutcomeOf(udp)' = UP!OutcomeOf(udp)
        /\ udp'.exit_requested = udp.exit_requested
    BY <1>2, <2>1, UP!SignalsOfSignal, SessionsAssumed, DatagramsAssumption,
     BufferAssumption DEF UdpInv
  <2> QED BY <1>1, <1>2, <2>2, SameUdp, SameSession DEF UdpInv, udp_outcome
<1>3. CASE "signal" \notin udp.waiting
  <2>1. UNCHANGED ofUdp
    BY <1>3 DEF queues_signal, ofUdp
  <2>2. UdpInv' /\ UdpUnseen /\ udp' = udp
    BY <2>1, UdpRests
  <2> QED BY <1>1, <1>3, <2>2 DEF UdpUnseen
<1> QED BY <1>2, <1>3

\* It runs out of work when it is idle, as long as its handlers are called.
LEMMA UdpStops ==
  ASSUME UdpInv, ~udp.exit_requested
  PROVE  stopped(udp) <=> udp_outcome.status = "idle"
BY UP!StoppedSeen, SameUdp, SameSession, SessionsAssumed, DatagramsAssumption,
     BufferAssumption DEF UdpInv, udp_outcome

\* And it is idle when it has transferred its size.
LEMMA UdpIdle ==
  ASSUME UdpInv, udp_outcome.status = "idle"
  PROVE  Transferred(udp)
BY UP!IdleSeen, SameUdp, SessionsAssumed, DatagramsAssumption,
     BufferAssumption DEF UdpInv, udp_outcome, Transferred

-----------------------------------------------------------------------------
(* What the application sees of both.                                      *)

outcomes == SubSeq(<<Tcp!OutcomeOf(tcp), Udp!OutcomeOf(udp)>>, 1, created)
signals == {s \in 1 .. created : Signalled(<<tcp, udp>>[s])}

\* The outcomes of the sessions that exist.
LEMMA Beginnings ==
  ASSUME NEW a, NEW b
  PROVE  /\ SubSeq(<<a, b>>, 1, 0) = <<>>
         /\ SubSeq(<<a, b>>, 1, 1) = <<a>>
         /\ SubSeq(<<a, b>>, 1, 2) = <<a, b>>
<1> DEFINE s == <<a, b>>
           S == {a, b}
<1>1. s[1] = a /\ s[2] = b
  OBVIOUS
<1> HIDE DEF s
<1>2. /\ SubSeq(s, 1, 1) \in Seq(S) /\ Len(SubSeq(s, 1, 1)) = 1
      /\ SubSeq(s, 1, 1)[1] = a
  <2>1. \A i \in 1 .. 1 : s[i] \in S
    BY <1>1
  <2> QED BY <1>1, <2>1, SubSeqProperties
<1>3. /\ SubSeq(s, 1, 2) \in Seq(S) /\ Len(SubSeq(s, 1, 2)) = 2
      /\ SubSeq(s, 1, 2)[1] = a /\ SubSeq(s, 1, 2)[2] = b
  <2>1. \A i \in 1 .. 2 : s[i] \in S
    BY <1>1
  <2> QED BY <1>1, <2>1, SubSeqProperties
<1>4. SubSeq(s, 1, 1) = <<a>>
  <2>1. <<a>> \in Seq(S) /\ Len(<<a>>) = 1 /\ <<a>>[1] = a
    OBVIOUS
  <2>2. \A i \in 1 .. 1 : SubSeq(s, 1, 1)[i] = <<a>>[i]
    BY <1>2, <2>1
  <2> HIDE DEF S
  <2> QED BY <1>2, <2>1, <2>2, SeqEqual
<1>5. SubSeq(s, 1, 2) = <<a, b>>
  <2>1. <<a, b>> \in Seq(S) /\ Len(<<a, b>>) = 2 /\ <<a, b>>[1] = a /\ <<a, b>>[2] = b
    OBVIOUS
  <2>2. \A i \in 1 .. 2 : SubSeq(s, 1, 2)[i] = <<a, b>>[i]
    BY <1>3, <2>1
  <2> HIDE DEF S
  <2> QED BY <1>3, <2>1, <2>2, SeqEqual
<1>6. SubSeq(s, 1, 0) = <<>>
  BY SubSeqEmpty
<1> QED BY <1>4, <1>5, <1>6 DEF s

\* Those of them that have a signal.
LEMMA Members ==
  ASSUME NEW a, NEW b, NEW n \in 0 .. 2, NEW s
  PROVE  s \in {r \in 1 .. n : Signalled(<<a, b>>[r])} <=>
            \/ s = 1 /\ n >= 1 /\ Signalled(a)
            \/ s = 2 /\ n = 2 /\ Signalled(b)
<1>1. <<a, b>>[1] = a /\ <<a, b>>[2] = b
  OBVIOUS
<1>2. s \in 1 .. n <=> (s = 1 /\ n >= 1) \/ (s = 2 /\ n = 2)
  OBVIOUS
<1> QED BY <1>1, <1>2

\* Both, now and after a step.
LEMMA Mapped ==
  ASSUME created \in 0 .. 2, created' \in 0 .. 2
  PROVE  /\ created = 0 => outcomes = <<>>
         /\ created = 1 => outcomes = <<tcp_outcome>>
         /\ created = 2 => outcomes = <<tcp_outcome, udp_outcome>>
         /\ created' = 0 => outcomes' = <<>>
         /\ created' = 1 => outcomes' = <<tcp_outcome'>>
         /\ created' = 2 => outcomes' = <<tcp_outcome', udp_outcome'>>
         /\ \A s : s \in signals <=>
                \/ s = 1 /\ created >= 1 /\ Signalled(tcp)
                \/ s = 2 /\ created = 2 /\ Signalled(udp)
         /\ \A s : s \in signals' <=>
                \/ s = 1 /\ created' >= 1 /\ Signalled(tcp)'
                \/ s = 2 /\ created' = 2 /\ Signalled(udp)'
<1>1. /\ created = 0 => outcomes = <<>>
      /\ created = 1 => outcomes = <<tcp_outcome>>
      /\ created = 2 => outcomes = <<tcp_outcome, udp_outcome>>
  BY Beginnings DEF outcomes, tcp_outcome, udp_outcome
<1>2. /\ created' = 0 => outcomes' = <<>>
      /\ created' = 1 => outcomes' = <<tcp_outcome'>>
      /\ created' = 2 => outcomes' = <<tcp_outcome', udp_outcome'>>
  BY Beginnings DEF outcomes, tcp_outcome, udp_outcome
<1>3. \A s : s \in signals <=>
                \/ s = 1 /\ created >= 1 /\ Signalled(tcp)
                \/ s = 2 /\ created = 2 /\ Signalled(udp)
  BY Members DEF signals
<1>4. \A s : s \in signals' <=>
                \/ s = 1 /\ created' >= 1 /\ Signalled(tcp)'
                \/ s = 2 /\ created' = 2 /\ Signalled(udp)'
  BY Members DEF signals
<1> QED BY <1>1, <1>2, <1>3, <1>4

\* Nothing is seen of a step of neither.
LEMMA MappedSame ==
  ASSUME created \in 0 .. 2, created' = created,
         created = 0 \/ TcpUnseen, created < 2 \/ UdpUnseen
  PROVE  outcomes' = outcomes /\ signals' = signals
<1>1. outcomes' = outcomes
  BY Mapped DEF TcpUnseen, UdpUnseen
<1>2. \A s : s \in signals' <=> s \in signals
  BY Mapped DEF TcpUnseen, UdpUnseen
<1> QED BY <1>1, <1>2 DEF signals

\* The thread of each session is one of those of the process.
LEMMA Threads ==
  ASSUME test \in Tests
  PROVE  App!io_service(1) \in App!Thread /\ App!io_service(2) \in App!Thread
<1>1. test.cores \in Nat
  BY TestsAssumption
<1>2. App!get_concurrency \in Nat \ {0}
  BY <1>1 DEF App!get_concurrency, App!concurrency, application
<1> DEFINE count == App!get_concurrency
<1>3. (1 - 1) % count \in 0 .. count - 1 /\ (2 - 1) % count \in 0 .. count - 1
  BY <1>2
<1> QED BY <1>2, <1>3 DEF App!io_service, App!Thread

-----------------------------------------------------------------------------
(* The invariant of the process.                                           *)

\* The handlers of a session are not called any more when its thread has left its loop,
\* or will see the flag before it calls the next.
Follows(st, s) ==
    st.exit_requested =>
        exit_requested /\ threads[App!io_service(s)] \in {"check", "ended"}

ProcessInv ==
    /\ TcpInv /\ UdpInv
    /\ test \in Tests
    /\ created \in 0 .. 2
    /\ exit_requested \in BOOLEAN
    /\ threads \in [App!Thread -> {"none", "pin", "check", "poll", "ended"}]
    /\ created < 1 => tcp_outcome = App!Session_!Unfinished /\ ~Signalled(tcp)
    /\ created < 2 => udp_outcome = App!Session_!Unfinished /\ ~Signalled(udp)
    /\ \A t \in App!Thread : threads[t] # "none" => created = 2
    /\ Follows(tcp, 1) /\ Follows(udp, 2)
    /\ exit_status # App!NoStatus => main = "ended"

\* What a step has to do with the sessions and the threads to keep it: `t' is the thread
\* that moves to `u', if any does.
LEMMA InvariantKept ==
  ASSUME ProcessInv, TcpInv', UdpInv',
         test' = test, created' = created,
         exit_requested' \in BOOLEAN, exit_requested => exit_requested',
         created = 0 => TcpUnseen, created < 2 => UdpUnseen,
         exit_status' = exit_status \/ main' = "ended",
         main = "ended" => main' = "ended",
         NEW t \in App!Thread, NEW u \in {"none", "pin", "check", "poll", "ended"},
         threads' = [threads EXCEPT ![t] = u],
         u # "none" => created = 2,
         exit_requested /\ threads[t] \in {"check", "ended"} => u \in {"check", "ended"},
         tcp'.exit_requested =>
            \/ tcp.exit_requested
            \/ exit_requested' /\ RunsTcp(t) /\ u \in {"check", "ended"},
         udp'.exit_requested =>
            \/ udp.exit_requested
            \/ exit_requested' /\ RunsUdp(t) /\ u \in {"check", "ended"}
  PROVE  ProcessInv'
<1>1. App!Thread' = App!Thread /\ App!io_service(1)' = App!io_service(1)
      /\ App!io_service(2)' = App!io_service(2)
  BY DEF App!Thread, App!io_service, App!get_concurrency
<1>2. App!io_service(1) \in App!Thread /\ App!io_service(2) \in App!Thread
  BY Threads DEF ProcessInv
<1>3. threads \in [App!Thread -> {"none", "pin", "check", "poll", "ended"}]
  BY DEF ProcessInv
<1>4. \A v \in App!Thread : threads'[v] = IF v = t THEN u ELSE threads[v]
  BY <1>3
<1>5. threads' \in [App!Thread -> {"none", "pin", "check", "poll", "ended"}]
  BY <1>3
<1>6. Follows(tcp, 1)'
  BY <1>1, <1>2, <1>4 DEF ProcessInv, Follows, RunsTcp
<1>7. Follows(udp, 2)'
  BY <1>1, <1>2, <1>4 DEF ProcessInv, Follows, RunsUdp
<1>8. \A v \in App!Thread : threads'[v] # "none" => created' = 2
  BY <1>4 DEF ProcessInv
<1>9. /\ created' < 1 => tcp_outcome' = App!Session_!Unfinished /\ ~Signalled(tcp)'
      /\ created' < 2 => udp_outcome' = App!Session_!Unfinished /\ ~Signalled(udp)'
  BY DEF ProcessInv, TcpUnseen, UdpUnseen
<1> QED BY <1>1, <1>5, <1>6, <1>7, <1>8, <1>9 DEF ProcessInv, App!NoStatus

\* The same, when no thread moves.
LEMMA InvariantKeptStill ==
  ASSUME ProcessInv, TcpInv', UdpInv',
         test' = test, created' = created, threads' = threads,
         exit_requested' \in BOOLEAN, exit_requested => exit_requested',
         created = 0 => TcpUnseen, created < 2 => UdpUnseen,
         exit_status' = exit_status \/ main' = "ended",
         main = "ended" => main' = "ended",
         tcp'.exit_requested => tcp.exit_requested,
         udp'.exit_requested => udp.exit_requested
  PROVE  ProcessInv'
<1> DEFINE t == App!io_service(1)
           u == threads[t]
<1>1. t \in App!Thread
  BY Threads DEF ProcessInv
<1>2. u \in {"none", "pin", "check", "poll", "ended"} /\ (u # "none" => created = 2)
  BY <1>1 DEF ProcessInv
<1>3. threads' = [threads EXCEPT ![t] = u]
  BY <1>1 DEF ProcessInv
<1> HIDE DEF t, u
<1>4. exit_requested /\ threads[t] \in {"check", "ended"} => u \in {"check", "ended"}
  BY DEF u
<1> QED BY <1>1, <1>2, <1>3, <1>4, InvariantKept

-----------------------------------------------------------------------------
(* Every step keeps the invariant, and is one that Application.tla allows. *)

\* Both begin alike.
LEMMA ProcessStarts ==
  ASSUME Init
  PROVE  ProcessInv /\ App!Init
<1>1. /\ TcpInv /\ tcp_outcome = App!Session_!Unfinished /\ ~Signalled(tcp)
      /\ ~tcp.exit_requested
  BY TcpStarts
<1>2. /\ UdpInv /\ udp_outcome = App!Session_!Unfinished /\ ~Signalled(udp)
      /\ ~udp.exit_requested
  BY UdpStarts
<1>3. ProcessInv
  <2>1. Follows(tcp, 1) /\ Follows(udp, 2)
    BY <1>1, <1>2 DEF Follows
  <2>2. /\ threads \in [App!Thread -> {"none", "pin", "check", "poll", "ended"}]
        /\ \A t \in App!Thread : threads[t] = "none"
    BY DEF Init
  <2>3. test \in Tests /\ created = 0
    BY DEF Init
  <2>4. exit_requested \in BOOLEAN
    <3>1. exit_requested = FALSE
      BY DEF Init
    <3> QED BY <3>1
  <2>5. exit_status = App!NoStatus
    BY DEF Init
  <2> QED BY <1>1, <1>2, <2>1, <2>2, <2>3, <2>4, <2>5 DEF ProcessInv
<1>4. outcomes = <<>> /\ signals = {}
  <2>1. created = 0
    BY DEF Init
  <2>2. outcomes = <<>>
    BY <2>1, Beginnings DEF outcomes
  <2>3. \A s : s \notin signals
    BY <2>1, Members DEF signals
  <2> QED BY <2>2, <2>3
<1>5. application(test) \in {application(t) : t \in Tests}
  BY DEF Init
<1> QED BY <1>3, <1>4, <1>5 DEF Init, App!Init, outcomes, signals

\* What leaves both sessions alone is not seen.
LEMMA BothRest ==
  ASSUME ProcessInv, UNCHANGED <<test, created, ofTcp, ofUdp>>
  PROVE  /\ TcpInv' /\ TcpUnseen /\ tcp' = tcp
         /\ UdpInv' /\ UdpUnseen /\ udp' = udp
         /\ test' = test /\ created' = created
         /\ outcomes' = outcomes /\ signals' = signals
<1>1. /\ TcpInv' /\ TcpUnseen /\ tcp' = tcp
      /\ UdpInv' /\ UdpUnseen /\ udp' = udp
  BY TcpRests, UdpRests DEF ProcessInv
<1>2. created \in 0 .. 2 /\ created' = created
  BY DEF ProcessInv
<1> QED BY <1>1, <1>2, MappedSame

\* One outcome more.
LEMMA Appends ==
  ASSUME NEW a, NEW x
  PROVE  /\ Append(<<>>, x) = <<x>> /\ Append(<<a>>, x) = <<a, x>>
         /\ Len(<<>>) = 0 /\ Len(<<a>>) = 1
<1> DEFINE S == {a, x}
<1>1. /\ <<>> \in Seq(S) /\ <<a>> \in Seq(S) /\ <<x>> \in Seq(S) /\ <<a, x>> \in Seq(S)
      /\ x \in S /\ Len(<<>>) = 0 /\ Len(<<a>>) = 1 /\ Len(<<x>>) = 1
      /\ Len(<<a, x>>) = 2 /\ <<a>>[1] = a /\ <<x>>[1] = x
      /\ <<a, x>>[1] = a /\ <<a, x>>[2] = x
  OBVIOUS
<1> HIDE DEF S
<1>2. Append(<<>>, x) = <<x>>
  <2>1. /\ Append(<<>>, x) \in Seq(S) /\ Len(Append(<<>>, x)) = 1
        /\ Append(<<>>, x)[1] = x
    BY <1>1, AppendProperties
  <2> QED BY <1>1, <2>1, SeqEqual
<1>3. Append(<<a>>, x) = <<a, x>>
  <2>1. /\ Append(<<a>>, x) \in Seq(S) /\ Len(Append(<<a>>, x)) = 2
        /\ Append(<<a>>, x)[1] = a /\ Append(<<a>>, x)[2] = x
    BY <1>1, AppendProperties
  <2>2. \A i \in 1 .. 2 : Append(<<a>>, x)[i] = <<a, x>>[i]
    BY <1>1, <2>1
  <2> QED BY <1>1, <2>1, <2>2, SeqEqual
<1> QED BY <1>1, <1>2, <1>3

\* The main thread: a session that it creates has not been seen before.
LEMMA CreatesStep ==
  ASSUME ProcessInv, CreatesSession
  PROVE  ProcessInv' /\ App!CreatesSession
<1>1. /\ TcpInv' /\ TcpUnseen /\ tcp' = tcp
      /\ UdpInv' /\ UdpUnseen /\ udp' = udp
  BY TcpRests, UdpRests DEF ProcessInv, CreatesSession
<1>2. /\ created \in 0 .. 1 /\ created' = created + 1
  BY DEF CreatesSession, ProcessInv
<1>3. ProcessInv'
  BY <1>1, <1>2 DEF CreatesSession, ProcessInv, TcpUnseen, UdpUnseen, Follows,
     App!Thread, App!get_concurrency, App!io_service, App!NoStatus
<1>4. outcomes' = Append(outcomes, App!Session_!Unfinished) /\ Len(outcomes) = created
  <2>1. /\ created = 0 => outcomes = <<>>
        /\ created = 1 => outcomes = <<tcp_outcome>>
        /\ created' = 1 => outcomes' = <<tcp_outcome'>>
        /\ created' = 2 => outcomes' = <<tcp_outcome', udp_outcome'>>
    BY <1>2, Mapped
  <2>2. tcp_outcome' = tcp_outcome /\ udp_outcome' = App!Session_!Unfinished
        /\ (created = 0 => tcp_outcome = App!Session_!Unfinished)
    BY <1>1, <1>2 DEF ProcessInv, TcpUnseen, UdpUnseen
  <2>3. CASE created = 0
    BY <1>2, <2>1, <2>2, <2>3, Appends
  <2>4. CASE created = 1
    <3>1. outcomes = <<tcp_outcome>>
      BY <2>1, <2>4
    <3>2. outcomes' = <<tcp_outcome, App!Session_!Unfinished>>
      BY <1>2, <2>1, <2>2, <2>4
    <3> QED BY <2>4, <3>1, <3>2, Appends
  <2> QED BY <1>2, <2>3, <2>4
<1>5. signals' = signals
  <2>1. \A s : s \in signals' <=> s \in signals
    BY <1>1, <1>2, Mapped DEF ProcessInv, TcpUnseen, UdpUnseen
  <2> QED BY <2>1 DEF signals
<1>6. application(test)' = application(test) /\ application(test).sessions = 2
  BY DEF CreatesSession, application
<1> QED BY <1>2, <1>3, <1>4, <1>5, <1>6
        DEF CreatesSession, App!CreatesSession, outcomes, signals

\* The other steps of the main thread are those of Application.tla.
LEMMA MainStep ==
  ASSUME ProcessInv, Main
  PROVE  ProcessInv' /\ App!Next
<1>1. CASE CreatesSession
  BY <1>1, CreatesStep DEF App!Next, App!Main
<1>2. CASE ~CreatesSession
  <2>1. /\ UNCHANGED <<test, created, ofTcp, ofUdp>>
        /\ \/ App!CreationThrows \/ App!Joins
           \/ \E t \in App!Thread : App!StartsThread(t) \/ App!ThreadThrows(t)
    BY <1>2 DEF Main
  <2>2. App!Next
    BY <2>1 DEF App!Next, App!Main
  <2>3. ASSUME NEW t \in App!Thread, App!StartsThread(t)
        PROVE  ProcessInv'
    <3> DEFINE u == IF application(test).cores = 0 THEN "check" ELSE "pin"
    <3>1. threads' = [threads EXCEPT ![t] = u] /\ u \in {"check", "pin"}
      BY <2>3 DEF App!StartsThread
    <3>2. Len(outcomes) = 2 /\ threads[t] = "none"
      BY <2>3 DEF App!StartsThread, outcomes, application
    <3>3. created = 2
      BY <2>1, <3>2, Mapped, BothRest DEF ProcessInv
    <3>4. /\ exit_requested' = exit_requested /\ exit_status' = exit_status
          /\ main # "ended" /\ exit_requested \in BOOLEAN
      BY <2>3 DEF App!StartsThread, ProcessInv
    <3> HIDE DEF u
    <3> QED BY <2>1, <3>1, <3>2, <3>3, <3>4, BothRest, InvariantKept
  <2>4. ASSUME \/ App!CreationThrows \/ App!Joins
               \/ \E t \in App!Thread : App!ThreadThrows(t)
        PROVE  ProcessInv'
    <3>1. /\ threads' = threads /\ exit_requested' = exit_requested
          /\ main' = "ended" /\ exit_requested \in BOOLEAN
      BY <2>4 DEF App!CreationThrows, App!Joins, App!ThreadThrows, ProcessInv
    <3> QED BY <2>1, <3>1, BothRest, InvariantKeptStill
  <2> QED BY <2>1, <2>2, <2>3, <2>4
<1> QED BY <1>1, <1>2

\* A thread that is pinned,
LEMMA PinsStep ==
  ASSUME ProcessInv, NEW t \in App!Thread, Pins(t)
  PROVE  ProcessInv' /\ App!Pins(t)
<1>1. App!Pins(t) /\ UNCHANGED <<test, created, ofTcp, ofUdp>>
  BY DEF Pins
<1>2. /\ threads[t] = "pin" /\ created = 2 /\ main # "ended"
      /\ exit_requested' = exit_requested /\ exit_requested \in BOOLEAN
  BY <1>1 DEF App!Pins, ProcessInv
<1>3. CASE App!pin_current_thread_to_cpu_core(t)
  <2>1. threads' = [threads EXCEPT ![t] = "check"] /\ exit_status' = exit_status
    BY <1>1, <1>3 DEF App!Pins
  <2>2. ProcessInv'
    BY <1>1, <1>2, <2>1, BothRest, InvariantKept
  <2> QED BY <1>1, <2>2
<1>4. CASE ~App!pin_current_thread_to_cpu_core(t)
  <2>1. threads' = threads /\ main' = "ended"
    BY <1>1, <1>4 DEF App!Pins
  <2>2. ProcessInv'
    BY <1>1, <1>2, <2>1, BothRest, InvariantKeptStill
  <2> QED BY <1>1, <2>2
<1> QED BY <1>3, <1>4

\* one that looks at the flag,
LEMMA ChecksStep ==
  ASSUME ProcessInv, NEW t \in App!Thread, Checks(t)
  PROVE  ProcessInv' /\ App!Checks(t)
<1> DEFINE u == IF leaves(t) THEN "ended" ELSE "poll"
           tells(s) == exit_requested /\ leaves(t) /\ App!io_service(s) = t
<1>1. /\ threads[t] = "check" /\ threads' = [threads EXCEPT ![t] = u]
      /\ main # "ended" /\ main' = main /\ test' = test /\ created' = created
      /\ exit_requested' = exit_requested /\ exit_status' = exit_status
      /\ io_stopped' = io_stopped
  BY DEF Checks, Alive
<1>2. exit_requested => leaves(t)
  BY DEF leaves, App!goes_on
<1>3. tcp' = [tcp EXCEPT !.exit_requested = @ \/ tells(1)]
  BY DEF Checks, RunsTcp
<1>4. udp' = [udp EXCEPT !.exit_requested = @ \/ tells(2)]
  BY DEF Checks, RunsUdp
<1>5. tells(1) \in BOOLEAN /\ tells(2) \in BOOLEAN
  OBVIOUS
<1>6. /\ tells(1) => exit_requested /\ RunsTcp(t) /\ u = "ended"
      /\ tells(2) => exit_requested /\ RunsUdp(t) /\ u = "ended"
      /\ u \in {"poll", "ended"} /\ (exit_requested => u = "ended")
  BY <1>2 DEF RunsTcp, RunsUdp
<1> HIDE DEF tells, u
<1>7. UNCHANGED <<inbound, outbound, peer, arrived, outgoing, head, strange>>
  BY DEF Checks
<1>8. TcpInv' /\ TcpUnseen /\ (tcp'.exit_requested => tcp.exit_requested \/ tells(1))
  BY <1>3, <1>5, <1>7, TcpTold DEF ProcessInv
<1>9. UdpInv' /\ UdpUnseen /\ (udp'.exit_requested => udp.exit_requested \/ tells(2))
  BY <1>4, <1>5, <1>7, UdpTold DEF ProcessInv
<1>10. created = 2 /\ exit_requested \in BOOLEAN
  BY <1>1 DEF ProcessInv
<1>11. ProcessInv'
  BY <1>1, <1>6, <1>8, <1>9, <1>10, InvariantKept
<1>12. outcomes' = outcomes /\ signals' = signals
  BY <1>1, <1>8, <1>9, <1>10, MappedSame
<1>13. threads' = [threads EXCEPT ![t] = IF App!goes_on(t) THEN "poll" ELSE "ended"]
  BY <1>1 DEF u, leaves
<1> QED BY <1>1, <1>11, <1>12, <1>13 DEF App!Checks, outcomes, signals

\* one that finds no handler: the sessions that it runs are idle, or it goes on,
LEMMA PollsNothingStep ==
  ASSUME ProcessInv, NEW t \in App!Thread, PollsNothing(t)
  PROVE  ProcessInv' /\ App!PollsNothing(t)
<1>1. /\ threads[t] = "poll" /\ threads' = [threads EXCEPT ![t] = "check"]
      /\ main # "ended" /\ UNCHANGED <<test, main, exit_requested, exit_status, created>>
      /\ UNCHANGED <<test, created, ofTcp, ofUdp>>
      /\ io_stopped' = IF out_of_work(t) THEN io_stopped \cup {t} ELSE io_stopped
  BY DEF PollsNothing, Alive
<1>2. created = 2 /\ exit_requested \in BOOLEAN
  BY <1>1 DEF ProcessInv
<1>3. ProcessInv'
  BY <1>1, <1>2, BothRest, InvariantKept
<1>4. outcomes' = outcomes /\ signals' = signals
  BY <1>1, BothRest
<1>5. /\ RunsTcp(t) => ~tcp.exit_requested
      /\ RunsUdp(t) => ~udp.exit_requested
  BY <1>1 DEF ProcessInv, Follows, RunsTcp, RunsUdp
<1>6. /\ RunsTcp(t) => (stopped(tcp) <=> tcp_outcome.status = "idle")
      /\ RunsUdp(t) => (stopped(udp) <=> udp_outcome.status = "idle")
  BY <1>5, TcpStops, UdpStops DEF ProcessInv
<1>7. outcomes = <<tcp_outcome, udp_outcome>>
  BY <1>1, <1>2, Mapped
<1>8. App!SessionsOf(t) = {s \in 1 .. 2 : App!io_service(s) = t}
  BY <1>7 DEF App!SessionsOf, outcomes
<1>9. App!Idle(t) <=> /\ RunsTcp(t) => tcp_outcome.status = "idle"
                      /\ RunsUdp(t) => udp_outcome.status = "idle"
  <2>1. App!Idle(t) <=> \A s \in App!SessionsOf(t) : outcomes[s].status = "idle"
    BY DEF App!Idle, outcomes
  <2> QED BY <1>7, <1>8, <2>1 DEF RunsTcp, RunsUdp
<1>10. out_of_work(t) <=> App!Idle(t)
  BY <1>6, <1>9 DEF out_of_work
<1>11. io_stopped' = IF App!Idle(t) THEN io_stopped \cup {t} ELSE io_stopped
  BY <1>1, <1>10
<1>12. application(test)' = application(test)
  BY <1>1
<1> QED BY <1>1, <1>3, <1>4, <1>11, <1>12 DEF App!PollsNothing, outcomes, signals

\* one that runs a handler: what it makes of the outcome of its session is what
\* Application.tla allows a handler, and it leaves the other session alone,
LEMMA TurnsStep ==
  ASSUME created = 2, created' = 2, NEW t \in App!Thread,
         threads[t] = "poll", main # "ended", threads' = [threads EXCEPT ![t] = "check"],
         UNCHANGED <<test, main, io_stopped, exit_status>>,
         NEW s \in 1 .. 2, App!io_service(s) = t,
         NEW exits \in BOOLEAN, exit_requested \in BOOLEAN,
         exit_requested' = (exit_requested \/ exits),
         NEW p, outcomes' = [outcomes EXCEPT ![s] = p],
         \A r : r # s => (r \in signals' <=> r \in signals),
         Turns(outcomes[s], s \in signals, p, s \in signals', exits)
  PROVE  App!PollsNothing(t) \/ App!PollsAdvance(t) \/ App!PollsAbort(t)
<1>1. outcomes = <<tcp_outcome, udp_outcome>>
  BY Mapped
<1>2. DOMAIN outcomes = 1 .. 2
  BY <1>1
<1>3. s \in App!SessionsOf(t) /\ outcomes[s].status # "idle"
  BY <1>2 DEF App!SessionsOf, outcomes, Turns
<1>4. application(test)' = application(test)
  OBVIOUS
<1>5. CASE ~exits /\ p = outcomes[s]
  <2>1. outcomes' = outcomes
    BY <1>1, <1>5
  <2>2. signals' = signals
    <3>1. \A r : r \in signals' <=> r \in signals
      BY <1>5 DEF Turns
    <3> QED BY <3>1 DEF signals
  <2>3. ~App!Idle(t)
    BY <1>3 DEF App!Idle, outcomes
  <2>4. exit_requested' = exit_requested
    BY <1>5
  <2> QED BY <1>4, <2>1, <2>2, <2>3, <2>4 DEF App!PollsNothing, outcomes, signals
<1>6. CASE ~exits /\ p # outcomes[s]
  <2>1. /\ p \in App!Session_!advances(outcomes[s])
        /\ s \in signals => p.status # "idle"
    BY <1>6 DEF Turns
  <2>2. signals' = signals
    <3>1. \A r : r \in signals' <=> r \in signals
      BY <1>6 DEF Turns
    <3> QED BY <3>1 DEF signals
  <2>3. exit_requested' = exit_requested
    BY <1>6
  <2> QED BY <1>3, <1>4, <2>1, <2>2, <2>3 DEF App!PollsAdvance, outcomes, signals
<1>7. CASE exits
  <2>1. /\ p \in App!Session_!aborts(outcomes[s])
        /\ \/ /\ p.failure \in ErrorCode \ {"success", "user_interrupt",
                                     "program_termination", "unknown_signal"}
              /\ s \in signals' <=> s \in signals
           \/ p.failure = "user_interrupt" /\ s \in signals /\ s \notin signals'
    BY <1>7 DEF Turns
  <2>2. exit_requested' = TRUE
    BY <1>7
  <2>3. \/ /\ p.failure \in ErrorCode \ {"success", "user_interrupt",
                                     "program_termination", "unknown_signal"}
           /\ signals' = signals
        \/ /\ p.failure = "user_interrupt" /\ s \in signals
           /\ signals' = signals \ {s}
    <3>1. CASE s \in signals' <=> s \in signals
      <4>1. \A r : r \in signals' <=> r \in signals
        BY <3>1
      <4>2. signals' = signals
        BY <4>1 DEF signals
      <4> QED BY <2>1, <3>1, <4>2
    <3>2. CASE ~(s \in signals' <=> s \in signals)
      <4>1. \A r : r \in signals' <=> r \in signals \ {s}
        BY <2>1, <3>2
      <4>2. signals' = signals \ {s}
        BY <4>1 DEF signals
      <4> QED BY <2>1, <3>2, <4>2
    <3> QED BY <3>1, <3>2
  <2> QED BY <1>3, <1>4, <2>1, <2>2, <2>3
          DEF App!PollsAbort, App!request_exit, outcomes, signals
<1> QED BY <1>5, <1>6, <1>7

\* and so do the handlers of both: the flag is raised by the one that aborts.
LEMMA HandlesStep ==
  ASSUME ProcessInv, NEW t \in App!Thread, Handles(t)
  PROVE  ProcessInv' /\ App!Run(t)
<1>1. /\ threads[t] = "poll" /\ threads' = [threads EXCEPT ![t] = "check"]
      /\ main # "ended" /\ UNCHANGED <<test, main, io_stopped, exit_status, created>>
  BY DEF Handles, Alive
<1>2. created = 2 /\ created' = 2 /\ exit_requested \in BOOLEAN
  BY <1>1 DEF ProcessInv
<1>3. /\ outcomes = <<tcp_outcome, udp_outcome>>
      /\ outcomes' = <<tcp_outcome', udp_outcome'>>
      /\ \A s : s \in signals <=> (s = 1 /\ Signalled(tcp)) \/ (s = 2 /\ Signalled(udp))
      /\ \A s : s \in signals' <=>
                (s = 1 /\ Signalled(tcp)') \/ (s = 2 /\ Signalled(udp)')
  BY <1>2, Mapped
<1>4. CASE /\ RunsTcp(t) /\ Tcp!Handle /\ request_exit_if(tcp'.exit_requested)
           /\ UNCHANGED ofUdp
  <2> DEFINE exits == tcp'.exit_requested
  <2>1. /\ TcpInv'
        /\ Turns(tcp_outcome, Signalled(tcp), tcp_outcome', Signalled(tcp)', exits)
    BY <1>4, TcpHandles DEF ProcessInv
  <2>2. UdpInv' /\ UdpUnseen /\ udp' = udp
    BY <1>4, UdpRests DEF ProcessInv
  <2>3. exits \in BOOLEAN
    BY <2>1 DEF TcpInv, TP!ControlInv, TP!TypeOK, TP!SessionState
  <2>4. exit_requested' = (exit_requested \/ exits)
    BY <1>4 DEF request_exit_if
  <2>5. ProcessInv'
    <3> DEFINE u == "check"
    <3>1. /\ u \in {"none", "pin", "check", "poll", "ended"}
          /\ u \in {"check", "ended"}
          /\ threads' = [threads EXCEPT ![t] = u]
      BY <1>1
    <3> HIDE DEF u
    <3>2. tcp'.exit_requested => exit_requested' /\ RunsTcp(t)
      BY <1>4, <2>4
    <3>3. udp'.exit_requested => udp.exit_requested
      BY <2>2
    <3>4. exit_requested' \in BOOLEAN /\ (exit_requested => exit_requested')
      BY <1>2, <2>3, <2>4
    <3>5. /\ test' = test /\ created' = created /\ exit_status' = exit_status
          /\ main = "ended" => main' = "ended"
      BY <1>1
    <3>6. /\ created = 0 => TcpUnseen
          /\ created < 2 => UdpUnseen
          /\ u # "none" => created = 2
      BY <1>2
    <3>7. /\ TcpInv' /\ UdpInv'
          /\ exit_requested /\ threads[t] \in {"check", "ended"} => u \in {"check", "ended"}
      BY <2>1, <2>2, <3>1
    <3>8. /\ tcp'.exit_requested =>
                \/ tcp.exit_requested
                \/ exit_requested' /\ RunsTcp(t) /\ u \in {"check", "ended"}
          /\ udp'.exit_requested =>
                \/ udp.exit_requested
                \/ exit_requested' /\ RunsUdp(t) /\ u \in {"check", "ended"}
      BY <3>1, <3>2, <3>3
    <3> QED BY <3>1, <3>4, <3>5, <3>6, <3>7, <3>8, InvariantKept
  <2> HIDE DEF exits
  <2>6. outcomes' = [outcomes EXCEPT ![1] = tcp_outcome']
    BY <1>3, <2>2 DEF UdpUnseen
  <2>7. outcomes[1] = tcp_outcome
    BY <1>3
  <2>8. Turns(outcomes[1], 1 \in signals, tcp_outcome', 1 \in signals', exits)
    <3>1. /\ 1 \in signals <=> Signalled(tcp)
          /\ 1 \in signals' <=> Signalled(tcp)'
      BY <1>3
    <3> QED BY <2>1, <2>7, <3>1 DEF Turns
  <2>9. \A r : r # 1 => (r \in signals' <=> r \in signals)
    BY <1>3, <2>2 DEF UdpUnseen
  <2>10. App!PollsNothing(t) \/ App!PollsAdvance(t) \/ App!PollsAbort(t)
    <3>1. App!io_service(1) = t /\ 1 \in 1 .. 2
      BY <1>4 DEF RunsTcp
    <3>2. UNCHANGED <<test, main, io_stopped, exit_status>>
      BY <1>1
    <3> QED BY <1>1, <1>2, <2>3, <2>4, <2>6, <2>8, <2>9, <3>1, <3>2, TurnsStep
  <2> QED BY <2>5, <2>10 DEF App!Run
<1>5. CASE /\ RunsUdp(t) /\ Udp!Handle /\ request_exit_if(udp'.exit_requested)
           /\ UNCHANGED ofTcp
  <2> DEFINE exits == udp'.exit_requested
  <2>1. /\ UdpInv'
        /\ Turns(udp_outcome, Signalled(udp), udp_outcome', Signalled(udp)', exits)
    BY <1>5, UdpHandles DEF ProcessInv
  <2>2. TcpInv' /\ TcpUnseen /\ tcp' = tcp
    BY <1>5, TcpRests DEF ProcessInv
  <2>3. exits \in BOOLEAN
    BY <2>1 DEF UdpInv, UP!ControlInv, UP!TypeOK, UP!SessionState
  <2>4. exit_requested' = (exit_requested \/ exits)
    BY <1>5 DEF request_exit_if
  <2>5. ProcessInv'
    <3> DEFINE u == "check"
    <3>1. /\ u \in {"none", "pin", "check", "poll", "ended"}
          /\ u \in {"check", "ended"}
          /\ threads' = [threads EXCEPT ![t] = u]
      BY <1>1
    <3> HIDE DEF u
    <3>2. udp'.exit_requested => exit_requested' /\ RunsUdp(t)
      BY <1>5, <2>4
    <3>3. tcp'.exit_requested => tcp.exit_requested
      BY <2>2
    <3>4. exit_requested' \in BOOLEAN /\ (exit_requested => exit_requested')
      BY <1>2, <2>3, <2>4
    <3>5. /\ test' = test /\ created' = created /\ exit_status' = exit_status
          /\ main = "ended" => main' = "ended"
      BY <1>1
    <3>6. /\ created = 0 => TcpUnseen
          /\ created < 2 => UdpUnseen
          /\ u # "none" => created = 2
      BY <1>2
    <3>7. /\ TcpInv' /\ UdpInv'
          /\ exit_requested /\ threads[t] \in {"check", "ended"} => u \in {"check", "ended"}
      BY <2>1, <2>2, <3>1
    <3>8. /\ tcp'.exit_requested =>
                \/ tcp.exit_requested
                \/ exit_requested' /\ RunsTcp(t) /\ u \in {"check", "ended"}
          /\ udp'.exit_requested =>
                \/ udp.exit_requested
                \/ exit_requested' /\ RunsUdp(t) /\ u \in {"check", "ended"}
      BY <3>1, <3>2, <3>3
    <3> QED BY <3>1, <3>4, <3>5, <3>6, <3>7, <3>8, InvariantKept
  <2> HIDE DEF exits
  <2>6. outcomes' = [outcomes EXCEPT ![2] = udp_outcome']
    BY <1>3, <2>2 DEF TcpUnseen
  <2>7. outcomes[2] = udp_outcome
    BY <1>3
  <2>8. Turns(outcomes[2], 2 \in signals, udp_outcome', 2 \in signals', exits)
    <3>1. /\ 2 \in signals <=> Signalled(udp)
          /\ 2 \in signals' <=> Signalled(udp)'
      BY <1>3
    <3> QED BY <2>1, <2>7, <3>1 DEF Turns
  <2>9. \A r : r # 2 => (r \in signals' <=> r \in signals)
    BY <1>3, <2>2 DEF TcpUnseen
  <2>10. App!PollsNothing(t) \/ App!PollsAdvance(t) \/ App!PollsAbort(t)
    <3>1. App!io_service(2) = t /\ 2 \in 1 .. 2
      BY <1>5 DEF RunsUdp
    <3>2. UNCHANGED <<test, main, io_stopped, exit_status>>
      BY <1>1
    <3> QED BY <1>1, <1>2, <2>3, <2>4, <2>6, <2>8, <2>9, <3>1, <3>2, TurnsStep
  <2> QED BY <2>5, <2>10 DEF App!Run
<1> QED BY <1>4, <1>5 DEF Handles

\* A signal that the sessions wait for, and one that finds none.
LEMMA SignalsStep ==
  ASSUME ProcessInv, SignalsSessions
  PROVE  ProcessInv' /\ App!SignalsSessions
<1> DEFINE awaits(o) == o.status = "active" /\ o.failure # "user_interrupt"
<1>1. /\ main # "ended" /\ created \in 1 .. 2 /\ created' = created /\ test' = test
      /\ UNCHANGED <<main, exit_requested, threads, io_stopped, exit_status>>
      /\ exit_requested \in BOOLEAN
  BY DEF SignalsSessions, Alive, program, ProcessInv
<1>2. /\ TcpInv' /\ tcp_outcome' = tcp_outcome
      /\ tcp'.exit_requested = tcp.exit_requested
      /\ Signalled(tcp)' <=> Signalled(tcp) \/ awaits(tcp_outcome)
  BY TcpInterrupted DEF ProcessInv, SignalsSessions
<1>3. CASE created = 2
  <2>1. /\ UdpInv' /\ udp_outcome' = udp_outcome
        /\ udp'.exit_requested = udp.exit_requested
        /\ Signalled(udp)' <=> Signalled(udp) \/ awaits(udp_outcome)
    BY <1>3, UdpInterrupted DEF ProcessInv, SignalsSessions
  <2>2. ProcessInv'
    BY <1>1, <1>2, <1>3, <2>1, InvariantKeptStill
  <2>3. outcomes = <<tcp_outcome, udp_outcome>> /\ outcomes' = outcomes
    BY <1>1, <1>2, <1>3, <2>1, Mapped
  <2>4. DOMAIN outcomes = 1 .. 2 /\ outcomes[1] = tcp_outcome /\ outcomes[2] = udp_outcome
        /\ outcomes # <<>>
    BY <2>3
  <2>5. signals' = signals \cup {s \in DOMAIN outcomes : awaits(outcomes[s])}
    <3>1. \A s : s \in signals' <=>
                    s \in signals \/ (s \in DOMAIN outcomes /\ awaits(outcomes[s]))
      BY <1>1, <1>2, <1>3, <2>1, <2>4, Mapped
    <3> QED BY <3>1
  <2> QED BY <1>1, <2>2, <2>3, <2>4, <2>5
          DEF App!SignalsSessions, outcomes, signals, application
<1>4. CASE created = 1
  <2>1. UNCHANGED ofUdp
    BY <1>4 DEF SignalsSessions, ofUdp
  <2>2. UdpInv' /\ UdpUnseen /\ udp' = udp
    BY <2>1, UdpRests DEF ProcessInv
  <2>3. ProcessInv'
    BY <1>1, <1>2, <1>4, <2>2, InvariantKeptStill
  <2>4. outcomes = <<tcp_outcome>> /\ outcomes' = outcomes
    BY <1>1, <1>2, <1>4, Mapped
  <2>5. DOMAIN outcomes = 1 .. 1 /\ outcomes[1] = tcp_outcome /\ outcomes # <<>>
    BY <2>4
  <2>6. signals' = signals \cup {s \in DOMAIN outcomes : awaits(outcomes[s])}
    <3>1. \A s : s \in signals' <=>
                    s \in signals \/ (s \in DOMAIN outcomes /\ awaits(outcomes[s]))
      BY <1>1, <1>2, <1>4, <2>5, Mapped
    <3> QED BY <3>1
  <2> QED BY <1>1, <2>3, <2>4, <2>5, <2>6
          DEF App!SignalsSessions, outcomes, signals, application
<1> QED BY <1>1, <1>3, <1>4

\* A signal that finds no session raises the flag, and the next one ends the program.
LEMMA ProgramSignalStep ==
  ASSUME ProcessInv, SignalsProgram
  PROVE  ProcessInv' /\ App!SignalsProgram
<1>1. App!SignalsProgram /\ UNCHANGED <<test, created, ofTcp, ofUdp>>
  BY DEF SignalsProgram
<1>2. /\ threads' = threads /\ exit_requested' = TRUE
      /\ exit_status' = exit_status \/ main' = "ended"
      /\ main # "ended"
  BY <1>1 DEF App!SignalsProgram, App!request_exit
<1>3. ProcessInv'
  BY <1>1, <1>2, BothRest, InvariantKeptStill
<1> QED BY <1>1, <1>3

\* What happens outside the process, and its timers, are not seen.
LEMMA OutsideStep ==
  ASSUME ProcessInv, OutsideTcp \/ OutsideUdp \/ Timeouts
  PROVE  ProcessInv' /\ UNCHANGED App!vars
<1>1. UNCHANGED <<test, main, exit_requested, threads, io_stopped, exit_status, created>>
  BY DEF OutsideTcp, OutsideUdp, Timeouts, program
<1>2. \/ TcpInv' /\ TcpUnseen /\ tcp'.exit_requested = tcp.exit_requested
      \/ UNCHANGED ofTcp
  <2>1. CASE OutsideTcp
    BY <2>1, TcpWaits DEF OutsideTcp, ProcessInv
  <2>2. CASE Timeouts
    BY <2>2, TcpWaits DEF Timeouts, ProcessInv
  <2>3. CASE OutsideUdp
    BY <2>3 DEF OutsideUdp
  <2> QED BY <2>1, <2>2, <2>3
<1>3. \/ UdpInv' /\ UdpUnseen /\ udp'.exit_requested = udp.exit_requested
      \/ UNCHANGED ofUdp
  <2>1. CASE OutsideUdp
    BY <2>1, UdpWaits DEF OutsideUdp, ProcessInv
  <2>2. CASE Timeouts
    BY <2>2, UdpWaits DEF Timeouts, ProcessInv
  <2>3. CASE OutsideTcp
    BY <2>3 DEF OutsideTcp
  <2> QED BY <2>1, <2>2, <2>3
<1>4. TcpInv' /\ TcpUnseen /\ tcp'.exit_requested = tcp.exit_requested
  BY <1>2, TcpRests DEF ProcessInv
<1>5. UdpInv' /\ UdpUnseen /\ udp'.exit_requested = udp.exit_requested
  BY <1>3, UdpRests DEF ProcessInv
<1>6. created \in 0 .. 2 /\ exit_requested \in BOOLEAN
  BY DEF ProcessInv
<1>7. ProcessInv'
  BY <1>1, <1>4, <1>5, <1>6, InvariantKeptStill
<1>8. outcomes' = outcomes /\ signals' = signals
  BY <1>1, <1>4, <1>5, <1>6, MappedSame
<1> QED BY <1>1, <1>7, <1>8 DEF App!vars, outcomes, signals

\* All of them.
LEMMA ProcessStep ==
  ASSUME ProcessInv, [Next]_vars
  PROVE  ProcessInv' /\ [App!Next]_(App!vars)
<1>1. CASE Main
  BY <1>1, MainStep
<1>2. CASE \E t \in App!Thread : Run(t)
  BY <1>2, PinsStep, ChecksStep, HandlesStep, PollsNothingStep
     DEF Run, App!Next, App!Run
<1>3. CASE SignalsProgram \/ SignalsSessions
  BY <1>3, ProgramSignalStep, SignalsStep DEF App!Next
<1>4. CASE OutsideTcp \/ OutsideUdp \/ Timeouts
  BY <1>4, OutsideStep
<1>5. CASE UNCHANGED vars
  <2>1. /\ UNCHANGED <<test, created, ofTcp, ofUdp>>
        /\ UNCHANGED <<main, exit_requested, threads, io_stopped, exit_status>>
    BY <1>5 DEF vars, program
  <2>2. exit_requested \in BOOLEAN
    BY DEF ProcessInv
  <2>3. ProcessInv'
    BY <2>1, <2>2, BothRest, InvariantKeptStill
  <2> QED BY <2>1, <2>3, BothRest DEF App!vars, outcomes, signals
<1> QED BY <1>1, <1>2, <1>3, <1>4, <1>5 DEF Next

\* The handlers of both sessions, whatever happens to them and in whatever order their
\* threads call them, do together no more than Application.tla lets outcomes do: its
\* theorems hold of the process (Application.cpp, Session.cpp).
THEOREM ApplicationImplemented == Spec => ImplementsApplication
<1>1. Init => ProcessInv /\ App!Init
  BY ProcessStarts
<1>2. ProcessInv /\ [Next]_vars => ProcessInv' /\ [App!Next]_(App!vars)
  BY ProcessStep
<1> QED BY <1>1, <1>2, PTL DEF Spec, ImplementsApplication, App!Spec

-----------------------------------------------------------------------------
(* What the proofs about Application.tla show of the process.              *)

AP == INSTANCE ApplicationProofs WITH
            Configurations <- {application(t) : t \in Tests},
            configuration <- application(test),
            Failures <- ErrorCode \ {"success", "user_interrupt",
                                     "program_termination", "unknown_signal"},
            sessions <- SubSeq(<<Tcp!OutcomeOf(tcp), Udp!OutcomeOf(udp)>>, 1, created),
            signalled <- {s \in 1 .. created : Signalled(<<tcp, udp>>[s])}

\* Application.tla, in Process and in those proofs.
LEMMA SameApplication ==
  /\ App!Init <=> AP!Init
  /\ App!Next <=> AP!Next
  /\ UNCHANGED App!vars => UNCHANGED AP!vars
<1>1. /\ App!get_concurrency = AP!get_concurrency /\ App!Thread = AP!Thread
      /\ App!NoStatus = AP!NoStatus
  BY DEF App!get_concurrency, AP!get_concurrency, App!concurrency, AP!concurrency,
     App!Thread, AP!Thread, App!NoStatus, AP!NoStatus
<1>2. \A s : App!io_service(s) = AP!io_service(s)
  BY <1>1 DEF App!io_service, AP!io_service
<1>3. \A t : App!SessionsOf(t) = AP!SessionsOf(t)
  BY <1>2 DEF App!SessionsOf, AP!SessionsOf
<1>4. /\ App!Session_!Unfinished = AP!Session_!Unfinished
      /\ \A o : App!Session_!advances(o) = AP!Session_!advances(o)
  BY DEF App!Session_!Unfinished, AP!Session_!Unfinished, App!Session_!advances,
     AP!Session_!advances
<1>5. \A o : App!Session_!aborts(o) = AP!Session_!aborts(o)
  BY DEF App!Session_!aborts, AP!Session_!aborts, App!Session_!ErrorCode,
     AP!Session_!ErrorCode, App!Session_!SystemError, AP!Session_!SystemError,
     App!Session_!Error, AP!Session_!Error, App!Session_!Interruption,
     AP!Session_!Interruption
<1>6. App!CreatesSession <=> AP!CreatesSession
  BY <1>4 DEF App!CreatesSession, AP!CreatesSession
<1>7. App!CreationThrows <=> AP!CreationThrows
  BY DEF App!CreationThrows, AP!CreationThrows
<1>8. \A t : App!StartsThread(t) <=> AP!StartsThread(t)
  BY <1>1 DEF App!StartsThread, AP!StartsThread
<1>9. \A t : App!ThreadThrows(t) <=> AP!ThreadThrows(t)
  BY <1>1 DEF App!ThreadThrows, AP!ThreadThrows
<1>10. App!Joins <=> AP!Joins
  BY <1>1 DEF App!Joins, AP!Joins, App!first_failure, AP!first_failure
<1>11. \A t : App!Pins(t) <=> AP!Pins(t)
  BY DEF App!Pins, AP!Pins, App!pin_current_thread_to_cpu_core,
     AP!pin_current_thread_to_cpu_core
<1>12. \A t : App!Checks(t) <=> AP!Checks(t)
  BY DEF App!Checks, AP!Checks, App!goes_on, AP!goes_on
<1>13. \A t : App!PollsNothing(t) <=> AP!PollsNothing(t)
  BY <1>3 DEF App!PollsNothing, AP!PollsNothing, App!Idle, AP!Idle
<1>14. \A t : App!PollsAdvance(t) <=> AP!PollsAdvance(t)
  BY <1>3, <1>4 DEF App!PollsAdvance, AP!PollsAdvance
<1>15. \A t : App!PollsAbort(t) <=> AP!PollsAbort(t)
  BY <1>3, <1>5 DEF App!PollsAbort, AP!PollsAbort, App!request_exit, AP!request_exit
<1>16. App!SignalsProgram <=> AP!SignalsProgram
  BY DEF App!SignalsProgram, AP!SignalsProgram, App!request_exit, AP!request_exit
<1>17. App!SignalsSessions <=> AP!SignalsSessions
  BY DEF App!SignalsSessions, AP!SignalsSessions
<1>18. App!Init <=> AP!Init
  BY <1>1 DEF App!Init, AP!Init
<1>19. App!Next <=> AP!Next
  BY <1>1, <1>6, <1>7, <1>8, <1>9, <1>10, <1>11, <1>12, <1>13, <1>14, <1>15, <1>16,
     <1>17 DEF App!Next, AP!Next, App!Main, AP!Main, App!Run, AP!Run
<1>20. UNCHANGED App!vars => UNCHANGED AP!vars
  BY DEF App!vars, AP!vars
<1> QED BY <1>18, <1>19, <1>20

\* What Application.tla assumes of its constants.
LEMMA ApplicationAssumed ==
  /\ \A conf \in {application(t) : t \in Tests} :
        /\ conf \in [sessions : Nat, cores : Nat, missing : SUBSET Nat]
        /\ conf.missing \subseteq 1 .. conf.cores
  /\ ErrorCode \ {"success", "user_interrupt", "program_termination", "unknown_signal"}
        \subseteq AP!ErrorCode \ {"success"}
<1>1. \A t \in Tests : application(t) \in [sessions : Nat, cores : Nat, missing : SUBSET Nat]
  BY TestsAssumption DEF application
<1>2. \A t \in Tests : application(t).missing = {}
  BY DEF application
<1>3. AP!ErrorCode = ErrorCode
  BY DEF AP!ErrorCode, ErrorCode, AP!SystemError, SystemError, AP!Error, Error
<1> QED BY <1>1, <1>2, <1>3

\* A session is idle only when it has transferred what its line of the file asks for.
LEMMA CompletedTransferred ==
  ASSUME ProcessInv, AP!StatusInv
  PROVE  ZeroMeansTransferred
<1> SUFFICES ASSUME exit_status = "success", ~exit_requested
             PROVE  Transferred(tcp) /\ Transferred(udp)
  BY DEF ZeroMeansTransferred
<1>1. main = "ended"
  BY DEF ProcessInv, App!NoStatus
<1>2. AP!AllCompleted
  BY <1>1 DEF AP!StatusInv, AP!StatusOfSessions
<1>3. \A s \in 1 .. 2 : s \in DOMAIN outcomes /\ outcomes[s].status = "idle"
  BY <1>2 DEF AP!AllCompleted, application, outcomes
<1>4. created = 2
  <2>1. CASE created = 0
    <3>1. outcomes = <<>>
      BY <2>1, Beginnings DEF outcomes
    <3> QED BY <1>3, <3>1
  <2>2. CASE created = 1
    <3>1. outcomes = <<tcp_outcome>>
      BY <2>2, Beginnings DEF outcomes, tcp_outcome, udp_outcome
    <3> QED BY <1>3, <3>1
  <2> QED BY <2>1, <2>2 DEF ProcessInv
<1>5. outcomes = <<tcp_outcome, udp_outcome>>
  BY <1>4, Beginnings DEF outcomes, tcp_outcome, udp_outcome
<1>6. tcp_outcome.status = "idle" /\ udp_outcome.status = "idle"
  BY <1>3, <1>5
<1> QED BY <1>6, TcpIdle, UdpIdle DEF ProcessInv

\* A program that returns 0, and that no signal interrupted before it had sessions, has
\* sent and received the size of each line of its file (Application.cpp, main.cpp).
THEOREM ZeroTransfers == Spec => []ZeroMeansTransferred
<1>1. Init => ProcessInv /\ AP!StatusInv
  BY ProcessStarts, SameApplication, AP!StatusInit, ApplicationAssumed
<1>2. ProcessInv /\ AP!StatusInv /\ [Next]_vars => ProcessInv' /\ AP!StatusInv'
  <2> SUFFICES ASSUME ProcessInv, AP!StatusInv, [Next]_vars
               PROVE  ProcessInv' /\ AP!StatusInv'
    OBVIOUS
  <2>1. ProcessInv' /\ [App!Next]_(App!vars)
    BY ProcessStep
  <2>2. [AP!Next]_(AP!vars)
    BY <2>1, SameApplication
  <2> QED BY <2>1, <2>2, AP!StatusStep, ApplicationAssumed
<1>3. ProcessInv /\ AP!StatusInv => ZeroMeansTransferred
  BY CompletedTransferred
<1> QED BY <1>1, <1>2, <1>3, PTL DEF Spec

-----------------------------------------------------------------------------
(* The file that the sessions come from, and one line of it.               *)

\* A record with the fields of a SessionConfiguration, whatever they hold.
Shape(conf) == conf \in
    [mode : {conf.mode}, verify : {conf.verify}, direction : {conf.direction},
     endpoint : {conf.endpoint}, send_bandwidth : {conf.send_bandwidth},
     receive_bandwidth : {conf.receive_bandwidth},
     bandwidth_sampling_frequency : {conf.bandwidth_sampling_frequency},
     windows : {conf.windows}, size : {conf.size}, packet_size : {conf.packet_size},
     duration_margin : {conf.duration_margin},
     shutdown_policy : {conf.shutdown_policy}, protocol : {conf.protocol}]

\* Such records are equal when their fields are.
LEMMA SameFields ==
  ASSUME NEW a, NEW b, Shape(a), Shape(b),
         a.mode = b.mode, a.verify = b.verify, a.direction = b.direction,
         a.endpoint = b.endpoint, a.send_bandwidth = b.send_bandwidth,
         a.receive_bandwidth = b.receive_bandwidth,
         a.bandwidth_sampling_frequency = b.bandwidth_sampling_frequency,
         a.windows = b.windows, a.size = b.size, a.packet_size = b.packet_size,
         a.duration_margin = b.duration_margin,
         a.shutdown_policy = b.shutdown_policy, a.protocol = b.protocol
  PROVE  a = b
BY DEF Shape

\* What a line says of a field, or leaves to its default.  There is no default of the
\* endpoint and of the size.
Says(line, conf, r) ==
    /\ r.verify = VerifyOf[value(line, "verify", "none")]
    /\ r.direction = DirectionOf[value(line, "mode", "both")]
    /\ r.endpoint = value(line, "connect", value(line, "listen", conf.endpoint))
    /\ r.send_bandwidth = size_of(line, "tx_bandwidth", DEFAULT_BANDWIDTH)
    /\ r.receive_bandwidth = size_of(line, "rx_bandwidth", DEFAULT_BANDWIDTH)
    /\ r.bandwidth_sampling_frequency =
            value(line, "bandwidth_sampling_frequency", 1000)
    /\ r.windows = size_of(line, "windows", 0)
    /\ r.size = size_of(line, "size", conf.size)
    /\ r.packet_size = value(line, "max_datagram_size",
                             [low |-> DEFAULT_DATAGRAM, high |-> DEFAULT_DATAGRAM])
    /\ r.duration_margin = value(line, "duration_margin", "not_a_date_time")
    /\ r.shutdown_policy =
            ShutdownPolicyOf[value(line, "shutdown_policy", "send_complete")]
    /\ r.protocol = ProtocolOf[value(line, "protocol", "tcp")]

\* po::notify and fill_configuration store every field.
LEMMA Filled ==
  ASSUME NEW line, NEW conf, Shape(conf)
  PROVE  /\ Shape(notify(conf, line)) /\ Says(line, conf, notify(conf, line))
         /\ Shape(fill_configuration(conf, line))
         /\ Says(line, conf, fill_configuration(conf, line))
         /\ fill_configuration(conf, line).mode =
                IF given(line, "connect") THEN "CLIENT" ELSE "SERVER"
<1>1. Shape(notify(conf, line))
  BY DEF notify, Shape
<1>2. Says(line, conf, notify(conf, line))
  BY DEF notify, Shape, Says
<1> DEFINE r == notify(conf, line)
<1> HIDE DEF r
<1>3. /\ Shape([r EXCEPT !.mode = IF given(line, "connect") THEN "CLIENT" ELSE "SERVER"])
      /\ Says(line, conf,
              [r EXCEPT !.mode = IF given(line, "connect") THEN "CLIENT" ELSE "SERVER"])
  BY <1>1, <1>2 DEF Shape, Says, r
<1> QED BY <1>1, <1>2, <1>3 DEF fill_configuration, r, Shape

\* So nothing of a line before remains in one that is accepted.
LEMMA Forgets ==
  ASSUME NEW line, NEW conf, Shape(conf), accepts(notify(conf, line), line)
  PROVE  /\ accepts(notify(ZERO, line), line)
         /\ fill_configuration(conf, line) = fill_configuration(ZERO, line)
         /\ Shape(moved_from(fill_configuration(conf, line)))
<1> DEFINE a == fill_configuration(conf, line)
           z == fill_configuration(ZERO, line)
<1>1. Shape(ZERO)
  BY DEF ZERO, Shape
<1>2. given(line, "size") /\ (given(line, "connect") \/ given(line, "listen"))
  BY DEF accepts
<1>3. \A r : Says(line, conf, r) => Says(line, ZERO, r)
  BY <1>2 DEF Says, value, size_of
<1>4. /\ Shape(a) /\ Says(line, ZERO, a) /\ Shape(z) /\ Says(line, ZERO, z)
      /\ a.mode = z.mode
  BY <1>1, <1>3, Filled
<1>5. a = z
  <2> HIDE DEF a, z
  <2> QED BY <1>4, SameFields DEF Says
<1>6. accepts(notify(ZERO, line), line)
  <2>1. Says(line, ZERO, notify(ZERO, line)) /\ Says(line, ZERO, notify(conf, line))
    BY <1>1, <1>3, Filled
  <2> QED BY <2>1 DEF accepts, Says
<1>7. Shape(moved_from(a))
  <2> HIDE DEF a
  <2> QED BY <1>4 DEF moved_from, Shape
<1> QED BY <1>5, <1>6, <1>7

-----------------------------------------------------------------------------
(* The lines that were read and what was made of them.                     *)

\* Every line but the one that ended the program has become its own configuration.
LineInv ==
    /\ lines \in Seq(Lines)
    /\ Shape(c)
    /\ configurations \in Seq({fill_configuration(ZERO, line) : line \in Lines})
    /\ Len(configurations) <= Len(lines)
    /\ state # "exception" => Len(configurations) = Len(lines)
    /\ \A n \in DOMAIN configurations :
            /\ configurations[n] = fill_configuration(ZERO, lines[n])
            /\ parses(lines[n]) /\ accepts(notify(ZERO, lines[n]), lines[n])

\* The program starts without lines.
LEMMA LineInit == ConfigInit => LineInv
<1> SUFFICES ASSUME ConfigInit PROVE LineInv
  OBVIOUS
<1>1. Shape(c)
  BY DEF ConfigInit, ZERO, Shape
<1> QED BY <1>1 DEF ConfigInit, LineInv

\* A line changes nothing of what was made of those before it.
LEMMA LineStep ==
  ASSUME LineInv, [ConfigNext]_configVars
  PROVE  LineInv'
<1> DEFINE Made == {fill_configuration(ZERO, line) : line \in Lines}
<1>1. /\ lines \in Seq(Lines) /\ configurations \in Seq(Made)
      /\ Len(lines) \in Nat /\ Len(configurations) \in Nat
      /\ DOMAIN configurations = 1 .. Len(configurations)
  BY LenProperties DEF LineInv
<1>2. CASE ReadsLine
  <2>1. PICK line \in Lines :
            /\ lines' = Append(lines, line)
            /\ IF parses(line) /\ accepts(notify(c, line), line)
               THEN /\ configurations' =
                            Append(configurations, fill_configuration(c, line))
                    /\ c' = moved_from(fill_configuration(c, line))
                    /\ UNCHANGED state
               ELSE /\ state' = "exception"
                    /\ UNCHANGED <<c, configurations>>
    BY <1>2 DEF ReadsLine
  <2>2. /\ lines' \in Seq(Lines) /\ Len(lines') = Len(lines) + 1
        /\ \A n \in 1 .. Len(lines) : lines'[n] = lines[n]
        /\ lines'[Len(lines) + 1] = line
    BY <1>1, <2>1, AppendProperties
  <2>3. Len(configurations) = Len(lines)
    BY <1>2 DEF ReadsLine, LineInv
  <2>4. CASE accepts(notify(c, line), line) /\ parses(line)
    <3> DEFINE made == fill_configuration(ZERO, line)
    <3>1. /\ configurations' = Append(configurations, made) /\ state' = state
          /\ Shape(c') /\ accepts(notify(ZERO, line), line)
      BY <2>1, <2>4, Forgets DEF LineInv
    <3>2. made \in Made
      OBVIOUS
    <3> HIDE DEF made, Made
    <3>3. /\ configurations' \in Seq(Made)
          /\ Len(configurations') = Len(configurations) + 1
          /\ \A n \in 1 .. Len(configurations) : configurations'[n] = configurations[n]
          /\ configurations'[Len(configurations) + 1] = made
          /\ DOMAIN configurations' = 1 .. Len(configurations')
      BY <1>1, <3>1, <3>2, AppendProperties, LenProperties
    <3>4. ASSUME NEW n \in DOMAIN configurations'
          PROVE  /\ configurations'[n] = fill_configuration(ZERO, lines'[n])
                 /\ parses(lines'[n]) /\ accepts(notify(ZERO, lines'[n]), lines'[n])
      <4>1. CASE n \in 1 .. Len(configurations)
        <5>1. lines'[n] = lines[n] /\ configurations'[n] = configurations[n]
          BY <1>1, <2>2, <2>3, <3>3, <4>1
        <5> QED BY <1>1, <4>1, <5>1 DEF LineInv
      <4>2. CASE n = Len(configurations) + 1
        BY <2>2, <2>3, <2>4, <3>1, <3>3, <4>2 DEF made
      <4> QED BY <1>1, <3>3, <3>4, <4>1, <4>2
    <3> QED BY <1>1, <2>2, <2>3, <3>1, <3>3, <3>4 DEF LineInv, Made
  <2>5. CASE ~(accepts(notify(c, line), line) /\ parses(line))
    <3>1. c' = c /\ configurations' = configurations /\ state' = "exception"
      BY <2>1, <2>5
    <3>2. \A n \in DOMAIN configurations' :
            /\ configurations'[n] = fill_configuration(ZERO, lines'[n])
            /\ parses(lines'[n]) /\ accepts(notify(ZERO, lines'[n]), lines'[n])
      BY <1>1, <2>2, <2>3, <3>1 DEF LineInv
    <3> QED BY <1>1, <2>2, <2>3, <3>1, <3>2 DEF LineInv, Shape
  <2> QED BY <2>4, <2>5
<1>3. CASE \/ ParsesOptions \/ RefusesOptions \/ EndsOfFile \/ OpensSocket
           \/ UNCHANGED configVars
  <2>1. /\ lines' = lines /\ c' = c /\ configurations' = configurations
        /\ state' # "exception" => state # "exception"
    BY <1>3 DEF ParsesOptions, RefusesOptions, EndsOfFile, OpensSocket, configVars
  <2> QED BY <2>1 DEF LineInv, Shape
<1> QED BY <1>2, <1>3 DEF ConfigNext

\* What the lines say becomes the sessions, line by line (Executable.cpp:110).
LEMMA LinesKept == ConfigSpec => []LineInv
<1>1. LineInv /\ [ConfigNext]_configVars => LineInv'
  BY LineStep
<1> QED BY <1>1, LineInit, PTL DEF ConfigSpec

\* A session is what its own line says: nothing of a line before it remains, although
\* all are parsed into one object (Executable.cpp:113).
THEOREM LinesStayIndependent == ConfigSpec => []LinesIndependent
<1>1. ASSUME LineInv PROVE LinesIndependent
  <2>1. /\ DOMAIN lines = 1 .. Len(lines)
        /\ DOMAIN configurations = 1 .. Len(configurations)
    BY <1>1, LenProperties DEF LineInv
  <2> QED BY <1>1, <2>1 DEF LineInv, LinesIndependent
<1> QED BY <1>1, LinesKept, PTL

\* What the command line accepts is what the sessions are written for.
LEMMA AcceptedLine ==
  ASSUME NEW line \in Lines, accepts(notify(ZERO, line), line)
  PROVE  LET conf == fill_configuration(ZERO, line)
         IN  /\ Sessions!Accepted(conf)
             /\ conf.bandwidth_sampling_frequency # 0
             /\ conf.endpoint \in Seq(STRING) \ {<<>>}
<1> DEFINE r == notify(ZERO, line)
           conf == fill_configuration(ZERO, line)
<1>1. Shape(ZERO)
  BY DEF ZERO, Shape
<1>2. Says(line, ZERO, r) /\ Says(line, ZERO, conf)
  BY <1>1, Filled
<1> HIDE DEF r, conf
<1>3. /\ conf.size = r.size /\ conf.direction = r.direction
      /\ conf.shutdown_policy = r.shutdown_policy
      /\ conf.bandwidth_sampling_frequency = r.bandwidth_sampling_frequency
  BY <1>2 DEF Says
<1>4. /\ r.size # 0 /\ r.bandwidth_sampling_frequency # 0
      /\ ~(r.direction = "TX" /\ r.shutdown_policy = "RECEIVE_COMPLETE")
      /\ ~(r.direction = "RX" /\ r.shutdown_policy = "SEND_COMPLETE")
      /\ given(line, "connect") \/ given(line, "listen")
  BY DEF accepts, r
<1>5. conf.endpoint \in Seq(STRING) \ {<<>>}
  <2>1. conf.endpoint = value(line, "connect", value(line, "listen", ZERO.endpoint))
    BY <1>2 DEF Says
  <2>2. \E option \in {"connect", "listen"} :
            given(line, option) /\ conf.endpoint = line[option]
    BY <1>4, <2>1 DEF value
  <2> QED BY <2>2, LinesAssumption
<1>6. Sessions!Accepted(conf)
  BY <1>3, <1>4 DEF Sessions!Accepted
<1> QED BY <1>3, <1>4, <1>5, <1>6 DEF conf

\* Every session that is created is one that the sessions are written for, whatever was
\* left to its defaults (Executable.cpp:62-86).
THEOREM AllSessionsAccepted == ConfigSpec => []SessionsAccepted
<1>1. ASSUME LineInv PROVE SessionsAccepted
  <2>1. ASSUME NEW n \in DOMAIN configurations
        PROVE  /\ lines[n] \in Lines
               /\ configurations[n] = fill_configuration(ZERO, lines[n])
               /\ accepts(notify(ZERO, lines[n]), lines[n])
    <3>1. n \in 1 .. Len(lines)
      BY <1>1, <2>1, LenProperties DEF LineInv
    <3>2. lines[n] \in Lines
      BY <1>1, <3>1, ElementOfSeq DEF LineInv
    <3> QED BY <1>1, <2>1, <3>2 DEF LineInv
  <2> QED BY <2>1, AcceptedLine DEF SessionsAccepted
<1> QED BY <1>1, LinesKept, PTL

-----------------------------------------------------------------------------
(* The sockets.                                                            *)

\* What a socket may be bound to: a port that its line names, or one of the system's.
Ports == EPHEMERAL \cup {bound(fill_configuration(ZERO, line)).port : line \in Lines}
Opened == {open(fill_configuration(ZERO, line), port) : line \in Lines, port \in Ports}

\* No socket of TCP is bound to an address that overlaps one on which a listener
\* listened before it, or another program.
Apart(s, t) == (s.listens /\ t.protocol = "TCP") => ~overlap(s.bound, t.bound)
FromTaken(s) == s.protocol = "TCP" => \A a \in Taken : ~overlap(a, s.bound)

\* A socket is that of its line, and where the system has let it be.
IsOpen(s, conf) ==
    /\ opens(conf)
    /\ \E port \in ports(bound(conf)) : s = open(conf, port)

SocketInv ==
    /\ sockets \in Seq(Opened)
    /\ Len(sockets) <= Len(configurations)
    /\ \A n \in DOMAIN sockets :
            IsOpen(sockets[n], configurations[n]) /\ FromTaken(sockets[n])
    /\ \A m, n \in DOMAIN sockets : m < n => Apart(sockets[m], sockets[n])

\* A session has a mode and a protocol.
LEMMA ModeAndProtocol ==
  ASSUME LineInv, NEW n \in DOMAIN configurations
  PROVE  /\ configurations[n].mode \in {"CLIENT", "SERVER"}
         /\ configurations[n].protocol \in {"TCP", "UDP"}
<1> DEFINE line == lines[n]
           conf == fill_configuration(ZERO, line)
<1>1. Shape(ZERO)
  BY DEF ZERO, Shape
<1>2. Says(line, ZERO, conf) /\ conf.mode \in {"CLIENT", "SERVER"}
  BY <1>1, Filled
<1>3. configurations[n] = conf /\ parses(line)
  BY DEF LineInv
<1> HIDE DEF conf, line
<1>4. value(line, "protocol", "tcp") \in {"tcp", "udp"}
  BY <1>3 DEF parses, WordOptions, ProtocolOf, value
<1>5. conf.protocol \in {"TCP", "UDP"}
  BY <1>2, <1>4 DEF Says, ProtocolOf
<1> QED BY <1>2, <1>3, <1>5

\* The fields of a socket that say who it is.
LEMMA OpenFields ==
  ASSUME NEW conf, NEW port
  PROVE  /\ open(conf, port).protocol = conf.protocol
         /\ open(conf, port).listens <=> conf.mode = "SERVER"
         /\ open(conf, port).bound = Address(bound(conf).host, port)
         /\ conf.mode # "SERVER" => open(conf, port).peer = <<ends(conf).remote>>
<1>1. /\ open(conf, port).protocol = conf.protocol
      /\ open(conf, port).listens = (conf.mode = "SERVER")
      /\ open(conf, port).bound = Address(bound(conf).host, port)
  BY DEF open
<1>2. ASSUME conf.mode # "SERVER" PROVE open(conf, port).peer = <<ends(conf).remote>>
  BY <1>2 DEF open
<1>3. open(conf, port).listens <=> conf.mode = "SERVER"
  BY <1>1, Zenon
<1> QED BY <1>1, <1>2, <1>3

\* The last socket overlaps no listener before it, and those before it stay as they are.
LEMMA SocketStep ==
  ASSUME LineInv, SocketInv, [ConfigNext]_configVars
  PROVE  SocketInv'
<1>1. /\ sockets \in Seq(Opened) /\ Len(sockets) \in Nat
      /\ DOMAIN sockets = 1 .. Len(sockets)
      /\ Len(configurations) \in Nat /\ Len(sockets) <= Len(configurations)
      /\ DOMAIN configurations = 1 .. Len(configurations)
      /\ Len(lines) \in Nat /\ Len(configurations) <= Len(lines)
  BY LenProperties DEF LineInv, SocketInv
<1>2. CASE OpensSocket /\ sockets' # sockets
  <2> DEFINE k == Len(sockets) + 1
             conf == configurations[k]
  <2>1. PICK port \in free(conf) :
            /\ sockets' = Append(sockets, open(conf, port)) /\ opens(conf)
            /\ configurations' = configurations /\ k \in DOMAIN configurations
    BY <1>1, <1>2 DEF OpensSocket
  <2>2. /\ port \in ports(bound(conf))
        /\ ~listened(conf.protocol, Address(bound(conf).host, port))
    BY <2>1 DEF free
  <2> DEFINE last == open(conf, port)
  <2>3. last \in Opened
    <3>1. k \in 1 .. Len(configurations) /\ k \in 1 .. Len(lines)
      BY <1>1, <2>1
    <3>2. conf = fill_configuration(ZERO, lines[k])
      BY <2>1 DEF LineInv
    <3>3. lines[k] \in Lines
      BY <3>1, ElementOfSeq DEF LineInv
    <3>4. port \in Ports
      BY <2>2, <3>2, <3>3 DEF Ports, ports
    <3> QED BY <3>2, <3>3, <3>4 DEF Opened
  <2> HIDE DEF last
  <2>4. /\ sockets' \in Seq(Opened) /\ Len(sockets') = k
        /\ \A n \in 1 .. Len(sockets) : sockets'[n] = sockets[n]
        /\ sockets'[k] = last
        /\ DOMAIN sockets' = 1 .. k
    <3>1. sockets' = Append(sockets, last)
      BY <2>1 DEF last
    <3> QED BY <1>1, <2>3, <3>1, AppendProperties, LenProperties
  <2>5. k \in Nat /\ k \notin DOMAIN sockets
        /\ \A n \in 1 .. k : n = k \/ n \in DOMAIN sockets
    BY <1>1
  <2>6. last.protocol = conf.protocol /\ last.bound = Address(bound(conf).host, port)
    BY OpenFields DEF last
  <2>7. IsOpen(last, conf)
    BY <2>1, <2>2 DEF IsOpen, last
  <2>8. FromTaken(last) /\ \A m \in DOMAIN sockets : Apart(sockets[m], last)
    BY <2>2, <2>6 DEF listened, FromTaken, Apart
  <2> HIDE DEF k, conf
  <2>9. \A n \in DOMAIN sockets' : IsOpen(sockets'[n], configurations'[n])
    <3> SUFFICES ASSUME NEW n \in DOMAIN sockets'
                 PROVE  IsOpen(sockets'[n], configurations[n])
      BY <2>1
    <3>1. CASE n \in DOMAIN sockets
      BY <1>1, <2>4, <3>1 DEF SocketInv
    <3>2. CASE n = k
      BY <2>4, <2>7, <3>2 DEF conf
    <3> QED BY <2>4, <2>5, <3>1, <3>2
  <2>10. \A n \in DOMAIN sockets' : FromTaken(sockets'[n])
    BY <1>1, <2>4, <2>5, <2>8 DEF SocketInv
  <2>11. ASSUME NEW m \in DOMAIN sockets', NEW n \in DOMAIN sockets', m < n
         PROVE  Apart(sockets'[m], sockets'[n])
    <3>1. m \in DOMAIN sockets
      BY <1>1, <2>4, <2>5, <2>11 DEF k
    <3>2. CASE n \in DOMAIN sockets
      BY <1>1, <2>4, <2>11, <3>1, <3>2 DEF SocketInv
    <3>3. CASE n = k
      BY <1>1, <2>4, <2>8, <3>1, <3>3
    <3> QED BY <2>4, <2>5, <3>2, <3>3
  <2>12. Len(sockets') <= Len(configurations')
    BY <1>1, <2>1, <2>4
  <2>13. \A n \in DOMAIN sockets' :
            IsOpen(sockets[n], configurations[n])' /\ FromTaken(sockets[n])'
    BY <2>9, <2>10 DEF IsOpen, FromTaken, opens
  <2>14. \A m, n \in DOMAIN sockets' : m < n => Apart(sockets[m], sockets[n])'
    BY <2>11 DEF Apart
  <2> QED BY <2>4, <2>12, <2>13, <2>14 DEF SocketInv
<1>3. CASE ReadsLine
  <2>1. sockets' = sockets
    BY <1>3 DEF ReadsLine
  <2>2. PICK line \in Lines :
            \/ configurations' = Append(configurations, fill_configuration(c, line))
            \/ configurations' = configurations
    BY <1>3 DEF ReadsLine
  <2>3. configurations \in Seq({fill_configuration(ZERO, l) : l \in Lines})
    BY DEF LineInv
  <2> DEFINE made == fill_configuration(c, line)
             All == {fill_configuration(ZERO, l) : l \in Lines} \cup {made}
  <2>4. /\ Len(configurations') >= Len(configurations)
        /\ \A n \in 1 .. Len(configurations) : configurations'[n] = configurations[n]
    <3>1. CASE configurations' = configurations
      BY <1>1, <3>1
    <3>2. CASE configurations' = Append(configurations, made)
      <4>1. configurations \in Seq(All)
        BY <2>3
      <4>2. made \in All
        OBVIOUS
      <4> HIDE DEF made, All
      <4> QED BY <1>1, <3>2, <4>1, <4>2, AppendProperties
    <3> QED BY <2>2, <3>1, <3>2
  <2> HIDE DEF made, All
  <2>5. Len(sockets') <= Len(configurations')
    <3>1. Len(configurations') \in Nat
      BY LineStep, LenProperties DEF LineInv
    <3> QED BY <1>1, <2>1, <2>4, <3>1
  <2>6. ASSUME NEW n \in DOMAIN sockets
        PROVE  (IsOpen(sockets[n], configurations[n]) /\ FromTaken(sockets[n]))'
    <3>1. configurations'[n] = configurations[n]
      BY <1>1, <2>4, <2>6
    <3>2. IsOpen(sockets[n], configurations[n]) /\ FromTaken(sockets[n])
      BY <2>6 DEF SocketInv
    <3> QED BY <2>1, <3>1, <3>2 DEF IsOpen, FromTaken, opens
  <2> QED BY <2>1, <2>5, <2>6 DEF SocketInv, Apart
<1>4. CASE /\ sockets' = sockets /\ configurations' = configurations
  BY <1>4 DEF SocketInv, IsOpen, FromTaken, Apart, opens
<1>5. \/ OpensSocket /\ sockets' # sockets
      \/ ReadsLine
      \/ sockets' = sockets /\ configurations' = configurations
  BY DEF ConfigNext, ParsesOptions, RefusesOptions, EndsOfFile, OpensSocket, configVars
<1> QED BY <1>2, <1>3, <1>4, <1>5

\* The sockets are those of the configurations, in their order (Application.cpp:49).
LEMMA SocketsKept == ConfigSpec => [](LineInv /\ SocketInv)
<1>1. ConfigInit => SocketInv
  <2> SUFFICES ASSUME ConfigInit PROVE SocketInv
    OBVIOUS
  <2> QED BY DEF ConfigInit, SocketInv
<1>2. LineInv /\ SocketInv /\ [ConfigNext]_configVars => SocketInv'
  BY SocketStep
<1> QED BY <1>1, <1>2, LinesKept, PTL DEF ConfigSpec

-----------------------------------------------------------------------------
(* Who finds whom.                                                         *)

\* The last two parts of an endpoint say an address.
LEMMA LastTwo ==
  ASSUME NEW a \in Seq(STRING), NEW b \in Seq(STRING), NEW protocol,
         Len(a) \in 2 .. 4, Len(b) \in 2 .. 4, SameEnd(a, b)
  PROVE  resolve(protocol, a).remote = resolve(protocol, b).remote
<1> DEFINE last(s) == SubSeq(s, Len(s) - 1, Len(s))
<1>1. ASSUME NEW s \in Seq(STRING), Len(s) \in 2 .. 4
      PROVE  /\ Len(last(s)) = 2 /\ last(s) \in Seq(STRING)
             /\ last(s)[1] = s[Len(s) - 1] /\ last(s)[2] = s[Len(s)]
  <2> DEFINE k == Len(s)
  <2>1. k \in 2 .. 4
    BY <1>1
  <2> HIDE DEF k
  <2>2. k - 1 \in 1 .. (k + 1) /\ k \in ((k - 1) - 1) .. k /\ (k - (k - 1)) + 1 = 2
        /\ k - 1 <= k
    BY <2>1
  <2>3. k = Len(s)
    BY DEF k
  <2> QED BY <1>1, <2>1, <2>2, <2>3, SubSeqProperties DEF last
<1>2. last(a) = last(b)
  BY DEF SameEnd
<1>3. last(a)[1] = last(b)[1] /\ last(a)[2] = last(b)[2]
  BY <1>2
<1> HIDE DEF last
<1>4. a[Len(a) - 1] = b[Len(b) - 1] /\ a[Len(a)] = b[Len(b)]
  BY <1>1, <1>3
<1> QED BY <1>4 DEF resolve, Address

\* What mirrors an endpoint of four parts binds what that one sends to.
LEMMA Mirrored ==
  ASSUME NEW a \in Seq(STRING), NEW b \in Seq(STRING), NEW protocol, Mirrors(a, b)
  PROVE  /\ resolve(protocol, a).remote = resolve(protocol, b).local
         /\ resolve(protocol, b).remote = resolve(protocol, a).local
<1> DEFINE last == SubSeq(a, 3, 4)
           first == SubSeq(a, 1, 2)
<1>1. Len(a) = 4 /\ b = last \o first
  BY DEF Mirrors
<1>2. /\ last \in Seq(STRING) /\ Len(last) = 2 /\ last[1] = a[3] /\ last[2] = a[4]
      /\ first \in Seq(STRING) /\ Len(first) = 2 /\ first[1] = a[1] /\ first[2] = a[2]
  BY <1>1, SubSeqProperties
<1> HIDE DEF last, first
<1>3. /\ Len(last \o first) = Len(last) + Len(first)
      /\ \A i \in 1 .. Len(last) + Len(first) : (last \o first)[i] =
            IF i <= Len(last) THEN last[i] ELSE first[i - Len(last)]
  BY <1>2, ConcatProperties, Zenon
<1>4. /\ Len(b) = 4 /\ b[1] = a[3] /\ b[2] = a[4] /\ b[3] = a[1] /\ b[4] = a[2]
  BY <1>1, <1>2, <1>3
<1> QED BY <1>1, <1>4 DEF resolve, Address

\* Where a client sends to: the address of its peer, unless that is any address.
LEMMA DestinationIsPeer ==
  ASSUME NEW s, NEW address, s.peer = <<address>>,
         address = Address(address.host, address.port)
  PROVE  /\ Destination(s).port = address.port
         /\ Destination(s).host = address.host \/ address.host = ANY
<1>1. s.peer[1] = address
  OBVIOUS
<1> QED BY <1>1 DEF Destination, Address

\* What a socket is bound to and where it sends to, as its endpoint says it.
Placed(s, conf) ==
    /\ conf.endpoint \in Seq(STRING) /\ Len(conf.endpoint) \in 2 .. 4
    /\ s.protocol = conf.protocol /\ conf.protocol \in {"TCP", "UDP"}
    /\ s.listens => s.protocol = "TCP"
    /\ (s.listens /\ ends(conf).remote.port # 0) => s.bound = ends(conf).remote
    /\ (~s.listens /\ ends(conf).local.port # 0) => s.bound = ends(conf).local
    /\ ~s.listens => /\ Destination(s).port = ends(conf).remote.port
                     /\ \/ Destination(s).host = ends(conf).remote.host
                        \/ ends(conf).remote.host = ANY

\* Both parts of an endpoint are addresses.
LEMMA EndsAreAddresses ==
  ASSUME NEW conf, Len(conf.endpoint) \in 2 .. 4
  PROVE  /\ ends(conf).local = Address(ends(conf).local.host, ends(conf).local.port)
         /\ ends(conf).remote = Address(ends(conf).remote.host, ends(conf).remote.port)
<1> DEFINE n == Len(conf.endpoint)
<1>1. n = 2 \/ n = 3 \/ n = 4
  OBVIOUS
<1> QED BY <1>1 DEF ends, resolve, Address

\* Every socket is placed so.
LEMMA SocketPlaced ==
  ASSUME LineInv, SocketInv, NEW n \in DOMAIN sockets
  PROVE  Placed(sockets[n], configurations[n])
<1> DEFINE conf == configurations[n]
<1>1. n \in DOMAIN configurations /\ n \in 1 .. Len(lines)
  BY LenProperties DEF LineInv, SocketInv
<1>2. conf.endpoint \in Seq(STRING)
  <2>1. lines[n] \in Lines
    BY <1>1, ElementOfSeq DEF LineInv
  <2> QED BY <1>1, <2>1, AcceptedLine DEF LineInv
<1>3. conf.mode \in {"CLIENT", "SERVER"} /\ conf.protocol \in {"TCP", "UDP"}
  BY <1>1, ModeAndProtocol
<1>4. IsOpen(sockets[n], conf)
  BY DEF SocketInv
<1> HIDE DEF conf
<1>5. PICK port \in ports(bound(conf)) : sockets[n] = open(conf, port)
  BY <1>4 DEF IsOpen
<1>6. Len(conf.endpoint) \in 2 .. 4 /\ ~(conf.protocol = "UDP" /\ conf.mode = "SERVER")
  BY <1>4 DEF IsOpen, opens, resolves
<1> DEFINE s == sockets[n]
<1>7. /\ s.protocol = conf.protocol
      /\ s.listens <=> conf.mode = "SERVER"
      /\ s.bound = Address(bound(conf).host, port)
      /\ conf.mode # "SERVER" => s.peer = <<ends(conf).remote>>
  BY <1>5, OpenFields
<1>8. bound(conf).port # 0 => port = bound(conf).port
  BY <1>5 DEF ports
<1>9. /\ ends(conf).local = Address(ends(conf).local.host, ends(conf).local.port)
      /\ ends(conf).remote = Address(ends(conf).remote.host, ends(conf).remote.port)
  BY <1>6, EndsAreAddresses
<1> HIDE DEF s
<1>10. s.listens => s.protocol = "TCP"
  BY <1>3, <1>6, <1>7
<1>11. (s.listens /\ ends(conf).remote.port # 0) => s.bound = ends(conf).remote
  <2> SUFFICES ASSUME s.listens, ends(conf).remote.port # 0
               PROVE  s.bound = ends(conf).remote
    OBVIOUS
  <2>1. bound(conf) = ends(conf).remote
    BY <1>7 DEF bound
  <2> QED BY <1>7, <1>8, <1>9, <2>1
<1>12. (~s.listens /\ ends(conf).local.port # 0) => s.bound = ends(conf).local
  <2> SUFFICES ASSUME ~s.listens, ends(conf).local.port # 0
               PROVE  s.bound = ends(conf).local
    OBVIOUS
  <2>1. bound(conf) = ends(conf).local
    BY <1>7 DEF bound
  <2> QED BY <1>7, <1>8, <1>9, <2>1
<1>13. ASSUME ~s.listens
       PROVE  /\ Destination(s).port = ends(conf).remote.port
              /\ \/ Destination(s).host = ends(conf).remote.host
                 \/ ends(conf).remote.host = ANY
  <2>1. s.peer = <<ends(conf).remote>>
    BY <1>7, <1>13
  <2> QED BY <1>9, <2>1, DestinationIsPeer
<1>14. Placed(s, conf)
  BY <1>2, <1>3, <1>6, <1>7, <1>10, <1>11, <1>12, <1>13 DEF Placed
<1> QED BY <1>14 DEF s, conf

\* A client reaches the listener before it whose endpoint ends like its own.
LEMMA Found ==
  ASSUME LineInv, SocketInv
  PROVE  ListenersFound
<1> SUFFICES ASSUME NEW m \in DOMAIN sockets, NEW n \in DOMAIN sockets, m < n,
                    sockets[m].listens, ~sockets[n].listens,
                    sockets[n].protocol = "TCP",
                    SameEnd(configurations[m].endpoint, configurations[n].endpoint),
                    ends(configurations[m]).remote.port # 0
             PROVE  Reaches(n, m)
  BY DEF ListenersFound
<1> DEFINE a == configurations[m]
           b == configurations[n]
<1>1. Placed(sockets[m], a) /\ Placed(sockets[n], b)
  BY SocketPlaced
<1>2. a.protocol = b.protocol /\ sockets[m].protocol = "TCP"
  BY <1>1 DEF Placed
<1>3. ends(a).remote = ends(b).remote
  BY <1>1, <1>2, LastTwo DEF Placed, ends
<1> HIDE DEF a, b
<1>4. sockets[m].bound = ends(b).remote
  BY <1>1, <1>3 DEF Placed, a
<1>5. Answers(sockets[m].bound, Destination(sockets[n]))
  BY <1>1, <1>4 DEF Placed, Answers
<1> QED BY <1>2, <1>5 DEF Reaches

\* Who answers one address overlaps who else would.
LEMMA AnswersOverlap ==
  ASSUME NEW a, NEW b, NEW d, Answers(a, d), Answers(b, d)
  PROVE  overlap(a, b)
BY DEF Answers, overlap

\* A client of TCP reaches one listener at most, of this program or of others.
LEMMA One ==
  ASSUME LineInv, SocketInv
  PROVE  NobodyElse
<1> SUFFICES ASSUME NEW n \in DOMAIN sockets, sockets[n].protocol = "TCP",
                    NEW m \in DOMAIN sockets, Reaches(n, m)
             PROVE  /\ \A k \in DOMAIN sockets : Reaches(n, k) => k = m
                    /\ \A a \in Taken : ~Answers(a, Destination(sockets[n]))
  BY DEF NobodyElse
<1>1. sockets[m].protocol = "TCP"
  BY DEF Reaches
<1>2. ASSUME NEW k \in DOMAIN sockets, Reaches(n, k), k # m
      PROVE  FALSE
  <2>1. /\ overlap(sockets[m].bound, sockets[k].bound)
        /\ overlap(sockets[k].bound, sockets[m].bound)
        /\ sockets[m].listens /\ sockets[k].listens /\ sockets[k].protocol = "TCP"
    BY <1>2, AnswersOverlap DEF Reaches
  <2>2. DOMAIN sockets = 1 .. Len(sockets) /\ Len(sockets) \in Nat
    BY LenProperties DEF SocketInv
  <2>3. m < k \/ k < m
    BY <1>2, <2>2
  <2>4. m < k => Apart(sockets[m], sockets[k])
    BY DEF SocketInv
  <2>5. k < m => Apart(sockets[k], sockets[m])
    BY DEF SocketInv
  <2> QED BY <1>1, <2>1, <2>3, <2>4, <2>5 DEF Apart
<1>3. ASSUME NEW a \in Taken, Answers(a, Destination(sockets[n]))
      PROVE  FALSE
  <2>1. overlap(a, sockets[m].bound)
    BY <1>3, AnswersOverlap DEF Reaches
  <2>2. FromTaken(sockets[m])
    BY DEF SocketInv
  <2> QED BY <1>1, <2>1, <2>2 DEF FromTaken
<1> QED BY <1>2, <1>3

\* No client of TCP reaches a listener that listens on the client's own address.
LEMMA NotOneself ==
  ASSUME SocketInv, NEW n \in DOMAIN sockets, NEW m \in DOMAIN sockets,
         sockets[n].protocol = "TCP", sockets[m].bound = sockets[n].bound
  PROVE  ~Reaches(n, m)
<1> SUFFICES ASSUME Reaches(n, m) PROVE FALSE
  OBVIOUS
<1>1. m < n /\ sockets[m].listens
  BY DEF Reaches
<1>2. Apart(sockets[m], sockets[n])
  BY <1>1 DEF SocketInv
<1>3. overlap(sockets[m].bound, sockets[n].bound)
  BY DEF overlap
<1> QED BY <1>1, <1>2, <1>3 DEF Apart

\* Sessions that mirror one another send to each other; a listener is not reached.
LEMMA MirrorImages ==
  ASSUME LineInv, SocketInv
  PROVE  MirrorsMeet
<1> SUFFICES ASSUME NEW m \in DOMAIN sockets, NEW n \in DOMAIN sockets,
                    Mirrors(configurations[m].endpoint, configurations[n].endpoint),
                    configurations[m].protocol = configurations[n].protocol,
                    ends(configurations[m]).remote.port # 0,
                    ends(configurations[m]).local.port # 0
             PROVE  IF configurations[m].protocol = "UDP"
                    THEN Reaches(m, n) /\ Reaches(n, m)
                    ELSE ~Reaches(m, n) /\ ~Reaches(n, m)
  BY DEF MirrorsMeet
<1> DEFINE a == configurations[m]
           b == configurations[n]
<1>1. Placed(sockets[m], a) /\ Placed(sockets[n], b)
  BY SocketPlaced
<1>2. ends(a).remote = ends(b).local /\ ends(b).remote = ends(a).local
  BY <1>1, Mirrored DEF Placed, ends
<1>3. a.protocol = b.protocol /\ ends(a).remote.port # 0 /\ ends(a).local.port # 0
  OBVIOUS
<1> HIDE DEF a, b
<1>4. CASE a.protocol = "UDP"
  <2>1. /\ ~sockets[m].listens /\ ~sockets[n].listens
        /\ sockets[m].protocol = "UDP" /\ sockets[n].protocol = "UDP"
    BY <1>1, <1>3, <1>4 DEF Placed
  <2>2. sockets[m].bound = ends(b).remote /\ sockets[n].bound = ends(a).remote
    BY <1>1, <1>2, <1>3, <2>1 DEF Placed
  <2>3. Answers(sockets[n].bound, Destination(sockets[m]))
    BY <1>1, <2>1, <2>2 DEF Placed, Answers
  <2>4. Answers(sockets[m].bound, Destination(sockets[n]))
    BY <1>1, <2>1, <2>2 DEF Placed, Answers
  <2> QED BY <1>4, <2>1, <2>3, <2>4 DEF Reaches, a
<1>5. CASE a.protocol # "UDP"
  <2>1. sockets[m].protocol = "TCP" /\ sockets[n].protocol = "TCP"
    BY <1>1, <1>3, <1>5 DEF Placed
  <2>2. ASSUME Reaches(m, n) PROVE FALSE
    <3>1. sockets[n].listens /\ ~sockets[m].listens
      BY <2>1, <2>2 DEF Reaches
    <3>2. sockets[n].bound = ends(b).remote /\ sockets[m].bound = ends(a).local
      BY <1>1, <1>2, <1>3, <3>1 DEF Placed
    <3> QED BY <1>2, <2>1, <2>2, <3>2, NotOneself
  <2>3. ASSUME Reaches(n, m) PROVE FALSE
    <3>1. sockets[m].listens /\ ~sockets[n].listens
      BY <2>1, <2>3 DEF Reaches
    <3>2. sockets[m].bound = ends(a).remote /\ sockets[n].bound = ends(b).local
      BY <1>1, <1>2, <1>3, <3>1 DEF Placed
    <3> QED BY <1>2, <2>1, <2>3, <3>2, NotOneself
  <2> QED BY <1>5, <2>2, <2>3 DEF a
<1> QED BY <1>4, <1>5

\* The sessions of a file that are meant for each other find each other, whatever names
\* their addresses have and whoever else uses the host: a client reaches its listener
\* and nobody else, ends that mirror one another exchange datagrams, and the listener
\* that mirrors a client is not what it reaches (Socket.hpp:53-80, TcpSocket.hpp:98-142).
THEOREM ClientsFindTheirListeners == ConfigSpec => []EndpointsMeet
<1>1. LineInv /\ SocketInv => EndpointsMeet
  BY Found, One, MirrorImages DEF EndpointsMeet
<1> QED BY <1>1, SocketsKept, PTL
=============================================================================
