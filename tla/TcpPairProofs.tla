---------------------------- MODULE TcpPairProofs -----------------------------
(***************************************************************************)
(* Proofs about two testers at the two ends of one connection: neither     *)
(* sees a byte that the other did not send (StreamsAgree), what an end     *)
(* succeeds with is what the other one has done (SuccessConfirmed), what   *)
(* one fails with follows from what the other one did (FailuresExplained), *)
(* and two ends that wait for their peer wait for each other               *)
(* (BothWaitForPeer).                                                      *)
(*                                                                         *)
(* Each end keeps the invariants that TcpSessionProofs establishes for any *)
(* peer.  What is added here, PairInv, relates the two: it says where the  *)
(* bytes, the end and the reset of a stream come from.  As the two ends    *)
(* are alike its parts are about a sender and a receiver, and hold both    *)
(* ways round.                                                             *)
(***************************************************************************)
EXTENDS TcpPair, SessionProofs, SequenceTheorems

PA == INSTANCE TcpSessionProofs WITH
        session <- sessionA, inbound <- inboundA,
        outbound <- outboundA, peer <- peerA
PB == INSTANCE TcpSessionProofs WITH
        session <- sessionB, inbound <- inboundB,
        outbound <- outboundB, peer <- peerB

-----------------------------------------------------------------------------
(* One definition under two names: both TcpPair and the proofs about a      *)
(* session take it from TcpSession.                                        *)


\* What the end A does, in the model and in the proofs about a session,
LEMMA SameA ==
  /\ \A c : A!initialize(c) = PA!initialize(c)
  /\ (A!ConnectSucceeds <=> PA!ConnectSucceeds)
  /\ \A op : (A!ReceivesData(op) <=> PA!ReceivesData(op))
  /\ \A op : (A!ReceiveFails(op) <=> PA!ReceiveFails(op))
  /\ (A!SendsData <=> PA!SendsData)
  /\ (A!SendFails <=> PA!SendFails)
  /\ \A op : (A!TimerExpires(op) <=> PA!TimerExpires(op))
  /\ (A!Handle <=> PA!Handle)
  /\ \A byte : (A!PeerSends(byte) <=> PA!PeerSends(byte))
  /\ (A!PeerShutsDown <=> PA!PeerShutsDown)
  /\ (A!PeerResets <=> PA!PeerResets)
  /\ (A!PeerReads <=> PA!PeerReads)
<1>1. \A st, op : A!begin(st, op) = PA!begin(st, op)
  BY DEF A!begin, PA!begin, A!allocate, PA!allocate, A!HandlerMemory, PA!HandlerMemory,
     A!ThrottleOps, PA!ThrottleOps, A!uses, PA!uses, A!MemoryOf, PA!MemoryOf
<1>2. \A st, c : A!complete(st, c) = PA!complete(st, c)
  BY DEF A!complete, PA!complete
<1>3. \A st, op : A!cancel(st, op) = PA!cancel(st, op)
  BY <1>2 DEF A!cancel, PA!cancel, A!done, PA!done
<1>4. \A st : A!dispatch(st) = PA!dispatch(st)
  BY DEF A!dispatch, PA!dispatch, A!deallocate, PA!deallocate, A!HandlerMemory,
     PA!HandlerMemory, A!ThrottleOps, PA!ThrottleOps, A!uses, PA!uses, A!MemoryOf,
     PA!MemoryOf
<1>5. \A st, failure : A!abort(st, failure) = PA!abort(st, failure)
  BY DEF A!abort, PA!abort
<1>6. \A st, c : A!on_signal(st, c) = PA!on_signal(st, c)
  BY <1>5 DEF A!on_signal, PA!on_signal, A!SIGINT, PA!SIGINT, A!SIGTERM, PA!SIGTERM
<1>7. \A st, c : A!on_timeout(st, c) = PA!on_timeout(st, c)
  BY <1>5 DEF A!on_timeout, PA!on_timeout
<1>8. \A st, data : A!verify(st, data) = PA!verify(st, data)
  BY <1>5 DEF A!verify, PA!verify, A!Checked, PA!Checked, A!Pattern, PA!Pattern
<1>9. \A st : A!close(st) = PA!close(st)
  BY <1>3 DEF A!close, PA!close
<1>10. \A st : A!on_receive_complete(st) = PA!on_receive_complete(st)
  BY <1>3, <1>9 DEF A!on_receive_complete, PA!on_receive_complete, A!on_finish,
     PA!on_finish
<1>11. \A st : A!on_send_complete(st) = PA!on_send_complete(st)
  BY <1>3, <1>9 DEF A!on_send_complete, PA!on_send_complete, A!on_finish, PA!on_finish
<1>12. \A st, slice_remaining_size : A!async_receive(st, slice_remaining_size)
        = PA!async_receive(st, slice_remaining_size)
  BY <1>1 DEF A!async_receive, PA!async_receive
<1>13. \A st : A!finish_receive(st) = PA!finish_receive(st)
  BY <1>1 DEF A!finish_receive, PA!finish_receive, A!shutdown_send, PA!shutdown_send
<1>14. \A st, c : A!on_receive(st, c) = PA!on_receive(st, c)
  BY <1>5, <1>8, <1>12, <1>13 DEF A!on_receive, PA!on_receive, A!received, PA!received
<1>15. \A st, c : A!on_eof(st, c) = PA!on_eof(st, c)
  BY <1>5, <1>10 DEF A!on_eof, PA!on_eof, A!shutdown_send, PA!shutdown_send
<1>16. \A st, slice_remaining_size : A!async_send(st, slice_remaining_size)
        = PA!async_send(st, slice_remaining_size)
  BY <1>1 DEF A!async_send, PA!async_send, A!Least, PA!Least
<1>17. \A st, c : A!on_send(st, c) = PA!on_send(st, c)
  BY <1>5, <1>11, <1>16 DEF A!on_send, PA!on_send, A!sent, PA!sent, A!finish_send,
     PA!finish_send, A!shutdown_send, PA!shutdown_send
<1>18. \A st, c : A!on_receive_slice(st, c) = PA!on_receive_slice(st, c)
  BY <1>12 DEF A!on_receive_slice, PA!on_receive_slice
<1>19. \A st, c : A!on_send_slice(st, c) = PA!on_send_slice(st, c)
  BY <1>16 DEF A!on_send_slice, PA!on_send_slice
<1>20. \A st : A!start_receiving(st) = PA!start_receiving(st)
  BY <1>12, <1>13 DEF A!start_receiving, PA!start_receiving
<1>21. \A st : A!start_sending(st) = PA!start_sending(st)
  BY <1>11, <1>16 DEF A!start_sending, PA!start_sending, A!finish_send, PA!finish_send,
     A!shutdown_send, PA!shutdown_send
<1>22. \A st : A!start_transfer(st) = PA!start_transfer(st)
  BY <1>20, <1>21 DEF A!start_transfer, PA!start_transfer
<1>23. \A c : A!initialize(c) = PA!initialize(c)
  BY <1>2 DEF A!initialize, PA!initialize, A!post, PA!post, A!done, PA!done, A!new,
     PA!new, A!HandlerMemory, PA!HandlerMemory, A!ThrottleOps, PA!ThrottleOps,
     A!connected, PA!connected, A!refused, PA!refused
<1>24. A!ConnectSucceeds <=> PA!ConnectSucceeds
  BY <1>2 DEF A!ConnectSucceeds, PA!ConnectSucceeds, A!Waits, PA!Waits, A!Running,
     PA!Running, A!connected, PA!connected, A!done, PA!done
<1>25. \A op : A!ReceivesData(op) <=> PA!ReceivesData(op)
  BY <1>2 DEF A!ReceivesData, PA!ReceivesData, A!Waits, PA!Waits, A!Running, PA!Running,
     A!Least, PA!Least, A!receive_size, PA!receive_size, A!done, PA!done
<1>26. \A op : A!ReceiveFails(op) <=> PA!ReceiveFails(op)
  BY <1>2 DEF A!ReceiveFails, PA!ReceiveFails, A!Waits, PA!Waits, A!Running, PA!Running,
     A!done, PA!done
<1>27. A!SendsData <=> PA!SendsData
  BY <1>2 DEF A!SendsData, PA!SendsData, A!Waits, PA!Waits, A!Running, PA!Running,
     A!Least, PA!Least, A!send_size, PA!send_size, A!send_offset, PA!send_offset,
     A!BytesToSend, PA!BytesToSend, A!SendBuffer, PA!SendBuffer, A!done, PA!done
<1>28. A!SendFails <=> PA!SendFails
  BY <1>2 DEF A!SendFails, PA!SendFails, A!Waits, PA!Waits, A!Running, PA!Running,
     A!done, PA!done
<1>29. \A op : A!TimerExpires(op) <=> PA!TimerExpires(op)
  BY <1>2 DEF A!TimerExpires, PA!TimerExpires, A!Waits, PA!Waits, A!Running, PA!Running,
     A!done, PA!done
<1>30. A!Handle <=> PA!Handle
  BY <1>1, <1>4, <1>6, <1>7, <1>14, <1>15, <1>17, <1>18, <1>19, <1>22 DEF A!Handle,
     PA!Handle, A!HandleStart, PA!HandleStart, A!Dispatches, PA!Dispatches, A!Running,
     PA!Running, A!start_timer, PA!start_timer, A!HandleConnect, PA!HandleConnect,
     A!HandleReceiveThrottle, PA!HandleReceiveThrottle, A!HandleReceive,
     PA!HandleReceive, A!HandleEof, PA!HandleEof, A!HandleSendThrottle,
     PA!HandleSendThrottle, A!HandleSend, PA!HandleSend, A!HandleTimeout,
     PA!HandleTimeout, A!HandleSignal, PA!HandleSignal
<1>31. \A byte : A!PeerSends(byte) <=> PA!PeerSends(byte)
  BY DEF A!PeerSends, PA!PeerSends, A!Running, PA!Running, A!expected_of_peer,
     PA!expected_of_peer, A!Pattern, PA!Pattern
<1>32. A!PeerShutsDown <=> PA!PeerShutsDown
  BY DEF A!PeerShutsDown, PA!PeerShutsDown, A!Running, PA!Running
<1>33. A!PeerResets <=> PA!PeerResets
  BY DEF A!PeerResets, PA!PeerResets, A!Running, PA!Running
<1>34. A!PeerReads <=> PA!PeerReads
  BY DEF A!PeerReads, PA!PeerReads
<1> QED BY <1>23, <1>24, <1>25, <1>26, <1>27, <1>28, <1>29, <1>30, <1>31, <1>32, <1>33,
           <1>34

\* and the end B.
LEMMA SameB ==
  /\ \A c : B!initialize(c) = PB!initialize(c)
  /\ (B!ConnectSucceeds <=> PB!ConnectSucceeds)
  /\ \A op : (B!ReceivesData(op) <=> PB!ReceivesData(op))
  /\ \A op : (B!ReceiveFails(op) <=> PB!ReceiveFails(op))
  /\ (B!SendsData <=> PB!SendsData)
  /\ (B!SendFails <=> PB!SendFails)
  /\ \A op : (B!TimerExpires(op) <=> PB!TimerExpires(op))
  /\ (B!Handle <=> PB!Handle)
  /\ \A byte : (B!PeerSends(byte) <=> PB!PeerSends(byte))
  /\ (B!PeerShutsDown <=> PB!PeerShutsDown)
  /\ (B!PeerResets <=> PB!PeerResets)
  /\ (B!PeerReads <=> PB!PeerReads)
<1>1. \A st, op : B!begin(st, op) = PB!begin(st, op)
  BY DEF B!begin, PB!begin, B!allocate, PB!allocate, B!HandlerMemory, PB!HandlerMemory,
     B!ThrottleOps, PB!ThrottleOps, B!uses, PB!uses, B!MemoryOf, PB!MemoryOf
<1>2. \A st, c : B!complete(st, c) = PB!complete(st, c)
  BY DEF B!complete, PB!complete
<1>3. \A st, op : B!cancel(st, op) = PB!cancel(st, op)
  BY <1>2 DEF B!cancel, PB!cancel, B!done, PB!done
<1>4. \A st : B!dispatch(st) = PB!dispatch(st)
  BY DEF B!dispatch, PB!dispatch, B!deallocate, PB!deallocate, B!HandlerMemory,
     PB!HandlerMemory, B!ThrottleOps, PB!ThrottleOps, B!uses, PB!uses, B!MemoryOf,
     PB!MemoryOf
<1>5. \A st, failure : B!abort(st, failure) = PB!abort(st, failure)
  BY DEF B!abort, PB!abort
<1>6. \A st, c : B!on_signal(st, c) = PB!on_signal(st, c)
  BY <1>5 DEF B!on_signal, PB!on_signal, B!SIGINT, PB!SIGINT, B!SIGTERM, PB!SIGTERM
<1>7. \A st, c : B!on_timeout(st, c) = PB!on_timeout(st, c)
  BY <1>5 DEF B!on_timeout, PB!on_timeout
<1>8. \A st, data : B!verify(st, data) = PB!verify(st, data)
  BY <1>5 DEF B!verify, PB!verify, B!Checked, PB!Checked, B!Pattern, PB!Pattern
<1>9. \A st : B!close(st) = PB!close(st)
  BY <1>3 DEF B!close, PB!close
<1>10. \A st : B!on_receive_complete(st) = PB!on_receive_complete(st)
  BY <1>3, <1>9 DEF B!on_receive_complete, PB!on_receive_complete, B!on_finish,
     PB!on_finish
<1>11. \A st : B!on_send_complete(st) = PB!on_send_complete(st)
  BY <1>3, <1>9 DEF B!on_send_complete, PB!on_send_complete, B!on_finish, PB!on_finish
<1>12. \A st, slice_remaining_size : B!async_receive(st, slice_remaining_size)
        = PB!async_receive(st, slice_remaining_size)
  BY <1>1 DEF B!async_receive, PB!async_receive
<1>13. \A st : B!finish_receive(st) = PB!finish_receive(st)
  BY <1>1 DEF B!finish_receive, PB!finish_receive, B!shutdown_send, PB!shutdown_send
<1>14. \A st, c : B!on_receive(st, c) = PB!on_receive(st, c)
  BY <1>5, <1>8, <1>12, <1>13 DEF B!on_receive, PB!on_receive, B!received, PB!received
<1>15. \A st, c : B!on_eof(st, c) = PB!on_eof(st, c)
  BY <1>5, <1>10 DEF B!on_eof, PB!on_eof, B!shutdown_send, PB!shutdown_send
<1>16. \A st, slice_remaining_size : B!async_send(st, slice_remaining_size)
        = PB!async_send(st, slice_remaining_size)
  BY <1>1 DEF B!async_send, PB!async_send, B!Least, PB!Least
<1>17. \A st, c : B!on_send(st, c) = PB!on_send(st, c)
  BY <1>5, <1>11, <1>16 DEF B!on_send, PB!on_send, B!sent, PB!sent, B!finish_send,
     PB!finish_send, B!shutdown_send, PB!shutdown_send
<1>18. \A st, c : B!on_receive_slice(st, c) = PB!on_receive_slice(st, c)
  BY <1>12 DEF B!on_receive_slice, PB!on_receive_slice
<1>19. \A st, c : B!on_send_slice(st, c) = PB!on_send_slice(st, c)
  BY <1>16 DEF B!on_send_slice, PB!on_send_slice
<1>20. \A st : B!start_receiving(st) = PB!start_receiving(st)
  BY <1>12, <1>13 DEF B!start_receiving, PB!start_receiving
<1>21. \A st : B!start_sending(st) = PB!start_sending(st)
  BY <1>11, <1>16 DEF B!start_sending, PB!start_sending, B!finish_send, PB!finish_send,
     B!shutdown_send, PB!shutdown_send
<1>22. \A st : B!start_transfer(st) = PB!start_transfer(st)
  BY <1>20, <1>21 DEF B!start_transfer, PB!start_transfer
<1>23. \A c : B!initialize(c) = PB!initialize(c)
  BY <1>2 DEF B!initialize, PB!initialize, B!post, PB!post, B!done, PB!done, B!new,
     PB!new, B!HandlerMemory, PB!HandlerMemory, B!ThrottleOps, PB!ThrottleOps,
     B!connected, PB!connected, B!refused, PB!refused
<1>24. B!ConnectSucceeds <=> PB!ConnectSucceeds
  BY <1>2 DEF B!ConnectSucceeds, PB!ConnectSucceeds, B!Waits, PB!Waits, B!Running,
     PB!Running, B!connected, PB!connected, B!done, PB!done
<1>25. \A op : B!ReceivesData(op) <=> PB!ReceivesData(op)
  BY <1>2 DEF B!ReceivesData, PB!ReceivesData, B!Waits, PB!Waits, B!Running, PB!Running,
     B!Least, PB!Least, B!receive_size, PB!receive_size, B!done, PB!done
<1>26. \A op : B!ReceiveFails(op) <=> PB!ReceiveFails(op)
  BY <1>2 DEF B!ReceiveFails, PB!ReceiveFails, B!Waits, PB!Waits, B!Running, PB!Running,
     B!done, PB!done
<1>27. B!SendsData <=> PB!SendsData
  BY <1>2 DEF B!SendsData, PB!SendsData, B!Waits, PB!Waits, B!Running, PB!Running,
     B!Least, PB!Least, B!send_size, PB!send_size, B!send_offset, PB!send_offset,
     B!BytesToSend, PB!BytesToSend, B!SendBuffer, PB!SendBuffer, B!done, PB!done
<1>28. B!SendFails <=> PB!SendFails
  BY <1>2 DEF B!SendFails, PB!SendFails, B!Waits, PB!Waits, B!Running, PB!Running,
     B!done, PB!done
<1>29. \A op : B!TimerExpires(op) <=> PB!TimerExpires(op)
  BY <1>2 DEF B!TimerExpires, PB!TimerExpires, B!Waits, PB!Waits, B!Running, PB!Running,
     B!done, PB!done
<1>30. B!Handle <=> PB!Handle
  BY <1>1, <1>4, <1>6, <1>7, <1>14, <1>15, <1>17, <1>18, <1>19, <1>22 DEF B!Handle,
     PB!Handle, B!HandleStart, PB!HandleStart, B!Dispatches, PB!Dispatches, B!Running,
     PB!Running, B!start_timer, PB!start_timer, B!HandleConnect, PB!HandleConnect,
     B!HandleReceiveThrottle, PB!HandleReceiveThrottle, B!HandleReceive,
     PB!HandleReceive, B!HandleEof, PB!HandleEof, B!HandleSendThrottle,
     PB!HandleSendThrottle, B!HandleSend, PB!HandleSend, B!HandleTimeout,
     PB!HandleTimeout, B!HandleSignal, PB!HandleSignal
<1>31. \A byte : B!PeerSends(byte) <=> PB!PeerSends(byte)
  BY DEF B!PeerSends, PB!PeerSends, B!Running, PB!Running, B!expected_of_peer,
     PB!expected_of_peer, B!Pattern, PB!Pattern
<1>32. B!PeerShutsDown <=> PB!PeerShutsDown
  BY DEF B!PeerShutsDown, PB!PeerShutsDown, B!Running, PB!Running
<1>33. B!PeerResets <=> PB!PeerResets
  BY DEF B!PeerResets, PB!PeerResets, B!Running, PB!Running
<1>34. B!PeerReads <=> PB!PeerReads
  BY DEF B!PeerReads, PB!PeerReads
<1> QED BY <1>23, <1>24, <1>25, <1>26, <1>27, <1>28, <1>29, <1>30, <1>31, <1>32, <1>33,
           <1>34

\* What is known of the end A, in the words of one session and of the pair,
LEMMA VocabularyA ==
  /\ (PA!SessionConfiguration = SessionConfiguration)
  /\ \A c : (PA!Accepted(c) <=> Accepted(c))
  /\ \A st, in, out, peer : (PA!Known(st, in, out, peer) <=> Known(st, in, out, peer))
  /\ \A st, in, out, peer_end, r, out_after :
        (PA!Observed(st, in, out, peer_end, r, out_after)
            <=> Observed(st, in, out, peer_end, r, out_after))
<1>1. PA!SessionConfiguration = SessionConfiguration
  BY DEF PA!SessionConfiguration, SessionConfiguration, PA!Verify, Verify, PA!Direction,
     Direction, PA!ShutdownPolicy, ShutdownPolicy
<1>2. \A c : PA!Accepted(c) <=> Accepted(c)
  BY DEF PA!Accepted, Accepted
<1>3. \A st : PA!stopped(st) <=> stopped(st)
  BY DEF PA!stopped, stopped
<1>4. \A st : PA!Queued(st) = Queued(st)
  BY DEF PA!Queued, Queued
<1>5. \A st, n : PA!Accepts(st, n) <=> Accepts(st, n)
  BY <1>4 DEF PA!Accepts, Accepts
<1>6. \A st : PA!SawEnd(st) <=> SawEnd(st)
  BY <1>4 DEF PA!SawEnd, SawEnd
<1>7. \A st, failure : PA!Faces(st, failure) <=> Faces(st, failure)
  BY <1>4 DEF PA!Faces, Faces, PA!Reason, Reason
<1>8. \A st, in, out, peer_end, r, out_after :
        PA!Observed(st, in, out, peer_end, r, out_after)
            <=> Observed(st, in, out, peer_end, r, out_after)
  BY <1>5, <1>6, <1>7 DEF PA!Observed, Observed, PA!Shut, Shut
<1>9. \A st, out : PA!Sender(st, out) <=> Sender(st, out)
  BY <1>5 DEF PA!Sender, Sender, PA!Byte, Byte, PA!Pattern, Pattern
<1>10. \A st, in, peer : PA!Receiver(st, in, peer) <=> Receiver(st, in, peer)
  BY DEF PA!Receiver, Receiver, PA!Byte, Byte
<1>11. \A st : PA!ShutsByPolicy(st) <=> ShutsByPolicy(st)
  BY <1>5 DEF PA!ShutsByPolicy, ShutsByPolicy, PA!Shut, Shut
<1>12. \A st, peer : PA!Succeeds(st, peer) <=> Succeeds(st, peer)
  BY <1>3, <1>5 DEF PA!Succeeds, Succeeds
<1>13. \A st, in, out, peer : PA!Known(st, in, out, peer) <=> Known(st, in, out, peer)
  BY <1>1, <1>2, <1>9, <1>10, <1>11, <1>12 DEF PA!Known, Known
<1> QED BY <1>1, <1>2, <1>8, <1>13

\* and of the end B.
LEMMA VocabularyB ==
  /\ (PB!SessionConfiguration = SessionConfiguration)
  /\ \A c : (PB!Accepted(c) <=> Accepted(c))
  /\ \A st, in, out, peer : (PB!Known(st, in, out, peer) <=> Known(st, in, out, peer))
  /\ \A st, in, out, peer_end, r, out_after :
        (PB!Observed(st, in, out, peer_end, r, out_after)
            <=> Observed(st, in, out, peer_end, r, out_after))
<1>1. PB!SessionConfiguration = SessionConfiguration
  BY DEF PB!SessionConfiguration, SessionConfiguration, PB!Verify, Verify, PB!Direction,
     Direction, PB!ShutdownPolicy, ShutdownPolicy
<1>2. \A c : PB!Accepted(c) <=> Accepted(c)
  BY DEF PB!Accepted, Accepted
<1>3. \A st : PB!stopped(st) <=> stopped(st)
  BY DEF PB!stopped, stopped
<1>4. \A st : PB!Queued(st) = Queued(st)
  BY DEF PB!Queued, Queued
<1>5. \A st, n : PB!Accepts(st, n) <=> Accepts(st, n)
  BY <1>4 DEF PB!Accepts, Accepts
<1>6. \A st : PB!SawEnd(st) <=> SawEnd(st)
  BY <1>4 DEF PB!SawEnd, SawEnd
<1>7. \A st, failure : PB!Faces(st, failure) <=> Faces(st, failure)
  BY <1>4 DEF PB!Faces, Faces, PB!Reason, Reason
<1>8. \A st, in, out, peer_end, r, out_after :
        PB!Observed(st, in, out, peer_end, r, out_after)
            <=> Observed(st, in, out, peer_end, r, out_after)
  BY <1>5, <1>6, <1>7 DEF PB!Observed, Observed, PB!Shut, Shut
<1>9. \A st, out : PB!Sender(st, out) <=> Sender(st, out)
  BY <1>5 DEF PB!Sender, Sender, PB!Byte, Byte, PB!Pattern, Pattern
<1>10. \A st, in, peer : PB!Receiver(st, in, peer) <=> Receiver(st, in, peer)
  BY DEF PB!Receiver, Receiver, PB!Byte, Byte
<1>11. \A st : PB!ShutsByPolicy(st) <=> ShutsByPolicy(st)
  BY <1>5 DEF PB!ShutsByPolicy, ShutsByPolicy, PB!Shut, Shut
<1>12. \A st, peer : PB!Succeeds(st, peer) <=> Succeeds(st, peer)
  BY <1>3, <1>5 DEF PB!Succeeds, Succeeds
<1>13. \A st, in, out, peer : PB!Known(st, in, out, peer) <=> Known(st, in, out, peer)
  BY <1>1, <1>2, <1>9, <1>10, <1>11, <1>12 DEF PB!Known, Known
<1> QED BY <1>1, <1>2, <1>8, <1>13

-----------------------------------------------------------------------------
(* The invariant of the pair, in parts about an end `st', what it has on its *)
(* way to the other one in `out', the other end and the peer record of that  *)
(* one, which counts what it got from `st'.                                  *)

\* Every byte that the socket of one end accepted is on its way or has arrived, and
\* none was changed.  A stream ends when its end does and nothing is on its way, and a
\* connection is only reset by a process that is gone.
Flow(st, out, other, peer) ==
    /\ Accepts(st, peer.sent + Len(out))
    /\ peer.corrupted = {}
    /\ peer.end = "fin" \/ SawEnd(other) => Ended(st) /\ out = <<>>
    /\ peer.end = "reset" => st.exit_requested

\* What explains a failure does so before its handler ran.
Explains(st, other) ==
    /\ Faces(st, "broken_pipe") => other.exit_requested \/ ShutsDownEarly(st, other)
    /\ Faces(st, "unexpected_eof") =>
            \/ other.exit_requested \/ ShutsDownEarly(other, st)
            \/ Size(other) < Size(st)
    /\ Faces(st, "connection_reset") => other.exit_requested
    /\ Faces(st, "unexpected_data") => Size(other) > Size(st)

\* Of two ends that wait for their peer, neither sees an end before the other exits.
AwaitsExit(st, other, peer) ==
    (Policy(st) = "WAIT_FOR_PEER" /\ Policy(other) = "WAIT_FOR_PEER") =>
        (peer.end # "open" => other.exit_requested)

\* All that one end owes to the other.
Joint(st, out, other, peer) ==
    /\ Flow(st, out, other, peer)
    /\ Explains(other, st)
    /\ AwaitsExit(other, st, peer)

\* Both send and receive, or one receives what the other sends.
Opposite(st, other) ==
    <<st.configuration.direction, other.configuration.direction>>
        \in {<<"BOTH", "BOTH">>, <<"RX", "TX">>, <<"TX", "RX">>}

PairInv ==
    /\ PA!SessionInv /\ PB!SessionInv
    /\ sessionA.socket # "unconnected" /\ sessionB.socket # "unconnected"
    /\ Opposite(sessionA, sessionB)
    /\ Joint(sessionA, outboundA, sessionB, peerB)
    /\ Joint(sessionB, outboundB, sessionA, peerA)

-----------------------------------------------------------------------------
(* One end takes a step: what it owes, and what it is owed.                *)

\* A socket has accepted some number of bytes.
LEMMA AcceptsOnce ==
  ASSUME NEW st, NEW n, NEW m, Accepts(st, n), Accepts(st, m)
  PROVE  n = m
BY DEF Accepts

\* A step of an end keeps what it owes: it exits at most after that step, so that
\* nothing which an exit explains has happened yet.
LEMMA SenderSteps ==
  ASSUME NEW st, NEW in, NEW out \in Seq(Byte), NEW peer_end,
         NEW r, NEW out_after \in Seq(Byte), NEW other, NEW peer,
         peer.sent \in Nat,
         Observed(st, in, out, peer_end, r, out_after),
         Joint(st, out, other, peer)
  PROVE  Joint(r, out_after, other, peer)
<1>1. /\ ~st.exit_requested /\ r.configuration = st.configuration
      /\ Shut(st) => Shut(r) /\ out_after = out
  BY DEF Observed
<1>2. Flow(st, out, other, peer) /\ Explains(other, st) /\ AwaitsExit(other, st, peer)
  BY DEF Joint
<1>3. Accepts(r, peer.sent + Len(out_after))
  <2>1. peer.sent + Len(out) \in Nat /\ Len(out) \in Nat /\ Len(out_after) \in Nat
    BY LenProperties
  <2>2. Accepts(r, (peer.sent + Len(out)) + (Len(out_after) - Len(out)))
    BY <1>2, <2>1 DEF Observed, Flow
  <2>3. (peer.sent + Len(out)) + (Len(out_after) - Len(out)) = peer.sent + Len(out_after)
    BY <2>1
  <2> QED BY <2>2, <2>3
<1>4. peer.end = "fin" \/ SawEnd(other) => Ended(r) /\ out_after = <<>>
  BY <1>1, <1>2 DEF Flow, Ended, Shut
<1>5. Flow(r, out_after, other, peer)
  BY <1>1, <1>2, <1>3, <1>4 DEF Flow
<1>6. Explains(other, r)
  BY <1>1, <1>2 DEF Explains, ShutsDownEarly, Policy, Size
<1>7. AwaitsExit(other, r, peer)
  BY <1>1, <1>2 DEF AwaitsExit, Policy
<1> QED BY <1>5, <1>6, <1>7 DEF Joint

\* Why an end finds its socket shut down while it still sends: its policy did that,
\* because of what it received, and the other end received all it was told to.
LEMMA BrokenPipe ==
  ASSUME NEW st, NEW in, NEW out, NEW peer,
         NEW other, NEW other_in, NEW other_out, NEW other_peer,
         Known(st, in, out, peer), Known(other, other_in, other_out, other_peer),
         Opposite(st, other), ~st.exit_requested, ~other.exit_requested,
         Joint(st, out, other, other_peer), Joint(other, other_out, st, peer),
         "send" \in st.waiting, st.socket = "shutdown"
  PROVE  ShutsDownEarly(st, other)
<1>1. /\ st.configuration.direction # "RX"
      /\ Accepts(st, st.sent) /\ st.sent < Size(st)
  BY DEF Known, Sender, Size
<1>2. Policy(st) # "SEND_COMPLETE"
  <2>1. SUFFICES ASSUME Policy(st) = "SEND_COMPLETE" PROVE FALSE
    OBVIOUS
  <2>2. Accepts(st, Size(st)) /\ Size(st) \in Nat
    BY <2>1 DEF Known, ShutsByPolicy, Shut, Policy, Size, Receiver
  <2>3. st.sent = Size(st)
    BY <1>1, <2>2, AcceptsOnce
  <2> QED BY <1>1, <2>2, <2>3
<1>3. CASE st.configuration.direction = "BOTH"
  BY <1>2, <1>3 DEF ShutsDownEarly
<1>4. CASE st.configuration.direction = "TX"
  <2>1. other.configuration.direction = "RX"
    BY <1>4 DEF Opposite
  <2>2. Policy(st) = "WAIT_FOR_PEER" /\ Policy(other) # "SEND_COMPLETE"
    BY <1>2, <1>4, <2>1
       DEF Known, Accepted, Policy, SessionConfiguration, ShutdownPolicy
  <2>3. SawEnd(st)
    BY <2>2 DEF Known, ShutsByPolicy, Shut, Policy, SawEnd
  <2>4. Shut(other)
    BY <2>3 DEF Joint, Flow, Ended, Shut
  <2>5. other.received >= Size(other)
    BY <2>1, <2>2, <2>4 DEF Known, ShutsByPolicy, Policy, Size
  <2>6. /\ other.received \in Nat /\ Size(other) \in Nat /\ Size(st) \in Nat
        /\ Len(other_in) \in Nat /\ other_peer.sent \in Nat /\ Len(out) \in Nat
        /\ other.received + Len(other_in) <= other_peer.sent
    BY LenProperties DEF Known, Receiver, Sender, Size
  <2>7. st.sent = other_peer.sent + Len(out)
    BY <1>1, AcceptsOnce DEF Joint, Flow
  <2>8. Size(other) < Size(st)
    BY <1>1, <2>5, <2>6, <2>7
  <2> QED BY <1>2, <2>8 DEF ShutsDownEarly
<1> QED BY <1>1, <1>3, <1>4 DEF Known, SessionConfiguration, Direction

\* Why a stream ends before it was long enough: its sender was told to send less, or
\* shut down because of what it received.
LEMMA UnexpectedEnd ==
  ASSUME NEW st, NEW in, NEW out, NEW peer,
         NEW other, NEW other_in, NEW other_out, NEW other_peer,
         Known(st, in, out, peer), Known(other, other_in, other_out, other_peer),
         Opposite(st, other), ~st.exit_requested, ~other.exit_requested,
         Joint(st, out, other, other_peer), Joint(other, other_out, st, peer),
         "receive" \in st.waiting, peer.end = "fin", in = <<>>
  PROVE  ShutsDownEarly(other, st) \/ Size(other) < Size(st)
<1>1. Shut(other) /\ other_out = <<>>
  BY DEF Joint, Flow, Ended, Shut
<1>2. /\ st.configuration.direction # "TX" /\ st.received < Size(st)
      /\ st.received + Len(in) = peer.sent
      /\ st.received \in Nat /\ peer.sent \in Nat /\ Size(st) \in Nat
      /\ Size(other) \in Nat
  BY DEF Known, Receiver, Size
<1>3. Accepts(other, peer.sent + Len(other_out)) /\ Len(other_out) = 0 /\ Len(in) = 0
  BY <1>1 DEF Joint, Flow
<1>4. CASE Policy(other) = "SEND_COMPLETE"
  <2>1. Accepts(other, Size(other))
    BY <1>1, <1>4 DEF Known, ShutsByPolicy, Policy, Size
  <2>2. Size(other) = peer.sent + Len(other_out)
    BY <1>3, <2>1, AcceptsOnce
  <2> QED BY <1>2, <1>3, <2>2
<1>5. CASE Policy(other) # "SEND_COMPLETE" /\ other.configuration.direction = "BOTH"
  BY <1>5 DEF ShutsDownEarly
<1>6. CASE Policy(other) # "SEND_COMPLETE" /\ other.configuration.direction # "BOTH"
  <2>1. other.configuration.direction = "TX" /\ st.configuration.direction = "RX"
    BY <1>2, <1>6 DEF Opposite
  <2>2. Policy(other) = "WAIT_FOR_PEER" /\ Policy(st) # "SEND_COMPLETE"
    BY <1>6, <2>1 DEF Known, Accepted, Policy, SessionConfiguration, ShutdownPolicy
  <2>3. SawEnd(other)
    BY <1>1, <2>2 DEF Known, ShutsByPolicy, Policy, SawEnd
  <2>4. Shut(st)
    BY <2>3 DEF Joint, Flow, Ended, Shut
  <2>5. "receive" \notin st.waiting
    BY <2>1, <2>2, <2>4 DEF Known, ShutsByPolicy, Policy
  <2> QED BY <2>5
<1> QED BY <1>4, <1>5, <1>6

\* Why there is a byte too many: the other end was told to send more.
LEMMA UnexpectedData ==
  ASSUME NEW st, NEW in, NEW out, NEW peer,
         NEW other, NEW other_in, NEW other_out, NEW other_peer,
         Known(st, in, out, peer), Known(other, other_in, other_out, other_peer),
         Opposite(st, other), ~st.exit_requested, Joint(other, other_out, st, peer),
         "eof" \in st.waiting, in # <<>>
  PROVE  Size(other) > Size(st)
<1>1. /\ st.received + Len(in) = peer.sent
      /\ st.configuration.direction = "TX" \/ st.received >= Size(st)
      /\ st.received \in Nat /\ peer.sent \in Nat /\ Size(st) \in Nat
      /\ Size(other) \in Nat
      /\ in \in Seq(Byte) /\ other_out \in Seq(Byte)
  BY DEF Known, Receiver, Size, Sender
<1>2. Len(in) \in Nat \ {0} /\ Len(other_out) \in Nat
  BY <1>1, EmptySeq, LenProperties
<1>3. Accepts(other, peer.sent + Len(other_out))
  BY DEF Joint, Flow
<1>4. /\ peer.sent + Len(other_out) <= Size(other)
      /\ other.configuration.direction = "RX" => peer.sent + Len(other_out) = 0
  BY <1>1, <1>2, <1>3 DEF Known, Sender, Size
<1>5. st.configuration.direction # "TX"
  BY <1>1, <1>2, <1>4 DEF Opposite
<1> QED BY <1>1, <1>2, <1>4, <1>5

\* A step of an end keeps what the other one owes it.
LEMMA ReceiverSteps ==
  ASSUME NEW st, NEW in, NEW out, NEW peer,
         NEW other, NEW other_in, NEW other_out, NEW other_peer,
         NEW r, NEW out_after,
         Known(st, in, out, peer), Known(other, other_in, other_out, other_peer),
         Opposite(st, other),
         Joint(st, out, other, other_peer), Joint(other, other_out, st, peer),
         Observed(st, in, out, peer.end, r, out_after)
  PROVE  Joint(other, other_out, r, peer)
<1>1. ~st.exit_requested /\ r.configuration = st.configuration
  BY DEF Observed
<1>2. /\ Flow(other, other_out, st, peer)
      /\ Explains(st, other) /\ AwaitsExit(st, other, peer)
  BY DEF Joint
<1>3. Flow(other, other_out, r, peer)
  <2>1. SawEnd(r) => SawEnd(st) \/ peer.end = "fin"
    BY DEF Observed
  <2> QED BY <1>2, <2>1 DEF Flow
<1>4. /\ Size(r) = Size(st)
      /\ ShutsDownEarly(r, other) <=> ShutsDownEarly(st, other)
      /\ ShutsDownEarly(other, r) <=> ShutsDownEarly(other, st)
  BY <1>1 DEF ShutsDownEarly, Policy, Size
<1>5. Faces(r, "connection_reset") => other.exit_requested
  <2>1. Faces(r, "connection_reset") => Faces(st, "connection_reset") \/ peer.end = "reset"
    BY DEF Observed
  <2> QED BY <1>2, <2>1 DEF Flow, Explains
<1>6. Faces(r, "broken_pipe") => other.exit_requested \/ ShutsDownEarly(r, other)
  <2>1. Faces(r, "broken_pipe") =>
            \/ Faces(st, "broken_pipe") \/ peer.end = "reset"
            \/ "send" \in st.waiting /\ st.socket = "shutdown"
    BY DEF Observed
  <2>2. ("send" \in st.waiting /\ st.socket = "shutdown" /\ ~other.exit_requested) =>
            ShutsDownEarly(st, other)
    BY <1>1, BrokenPipe
  <2> QED BY <1>2, <1>4, <2>1, <2>2 DEF Flow, Explains
<1>7. Faces(r, "unexpected_eof") =>
            \/ other.exit_requested \/ ShutsDownEarly(other, r)
            \/ Size(other) < Size(r)
  <2>1. Faces(r, "unexpected_eof") =>
            \/ Faces(st, "unexpected_eof")
            \/ "receive" \in st.waiting /\ peer.end = "fin" /\ in = <<>>
    BY DEF Observed
  <2>2. ("receive" \in st.waiting /\ peer.end = "fin" /\ in = <<>>
            /\ ~other.exit_requested) =>
            ShutsDownEarly(other, st) \/ Size(other) < Size(st)
    BY <1>1, UnexpectedEnd
  <2> QED BY <1>2, <1>4, <2>1, <2>2 DEF Explains
<1>8. Faces(r, "unexpected_data") => Size(other) > Size(r)
  <2>1. Faces(r, "unexpected_data") =>
            \/ Faces(st, "unexpected_data")
            \/ "eof" \in st.waiting /\ in # <<>>
    BY DEF Observed
  <2>2. "eof" \in st.waiting /\ in # <<>> => Size(other) > Size(st)
    BY <1>1, UnexpectedData
  <2> QED BY <1>2, <1>4, <2>1, <2>2 DEF Explains
<1>9. Explains(r, other)
  BY <1>5, <1>6, <1>7, <1>8 DEF Explains
<1>10. AwaitsExit(r, other, peer)
  BY <1>1, <1>2 DEF AwaitsExit, Policy
<1> QED BY <1>3, <1>9, <1>10 DEF Joint

-----------------------------------------------------------------------------
(* The network takes a step: what it changes between the two ends.         *)

\* The next byte arrives, unchanged.
LEMMA ByteArrives ==
  ASSUME NEW st, NEW in, NEW out, NEW peer,
         NEW other, NEW other_in, NEW other_out, NEW other_peer, NEW arrived,
         Known(st, in, out, peer), Known(other, other_in, other_out, other_peer),
         Joint(st, out, other, other_peer), out # <<>>,
         arrived = [other_peer EXCEPT
                        !.sent = @ + 1,
                        !.corrupted = IF Head(out) = Pattern(other_peer.sent)
                                      THEN @ ELSE @ \cup {other_peer.sent}],
         other_peer \in [sent : Nat, corrupted : SUBSET Nat,
                         end : {"open", "fin", "reset"}]
  PROVE  Head(out) \in Byte /\ Joint(st, Tail(out), other, arrived)
<1>1. out \in Seq(Byte) /\ other_peer.sent \in Nat
  BY DEF Known, Sender
<1>2. /\ Head(out) \in Byte /\ Tail(out) \in Seq(Byte)
      /\ Len(out) \in Nat /\ Len(Tail(out)) = Len(out) - 1
  BY <1>1, HeadTailProperties, LenProperties
<1>3. /\ Flow(st, out, other, other_peer)
      /\ Explains(other, st) /\ AwaitsExit(other, st, other_peer)
  BY DEF Joint
<1>4. Head(out) = Pattern(other_peer.sent)
  <2>1. Accepts(st, other_peer.sent + Len(out)) /\ other_peer.sent + Len(out) \in Nat
    BY <1>1, <1>2, <1>3 DEF Flow
  <2>2. Head(out) = Pattern((other_peer.sent + Len(out)) - Len(out))
    BY <2>1 DEF Known, Sender
  <2>3. (other_peer.sent + Len(out)) - Len(out) = other_peer.sent
    BY <1>1, <1>2
  <2> QED BY <2>2, <2>3
<1>5. /\ arrived.sent = other_peer.sent + 1
      /\ arrived.corrupted = {} /\ arrived.end = other_peer.end
  BY <1>3, <1>4 DEF Flow
<1>6. Accepts(st, arrived.sent + Len(Tail(out)))
  <2>1. arrived.sent + Len(Tail(out)) = other_peer.sent + Len(out)
    BY <1>1, <1>2, <1>5
  <2> QED BY <1>3, <2>1 DEF Flow
<1>7. Flow(st, Tail(out), other, arrived)
  BY <1>3, <1>5, <1>6 DEF Flow
<1>8. AwaitsExit(other, st, arrived)
  BY <1>3, <1>5 DEF AwaitsExit
<1> QED BY <1>2, <1>3, <1>7, <1>8 DEF Joint

\* The end of a stream arrives after its last byte, and not at an end that waits for its
\* peer from one that waits for it.
LEMMA EndArrives ==
  ASSUME NEW st, NEW in, NEW out, NEW peer, NEW other, NEW other_out, NEW other_peer,
         NEW arrived, Known(st, in, out, peer),
         Joint(st, out, other, other_peer), Joint(other, other_out, st, peer),
         ~other.exit_requested, Ended(st), out = <<>>,
         arrived = [other_peer EXCEPT !.end = "fin"],
         other_peer \in [sent : Nat, corrupted : SUBSET Nat,
                         end : {"open", "fin", "reset"}]
  PROVE  Joint(st, out, other, arrived)
<1>1. /\ Flow(st, out, other, other_peer)
      /\ Explains(other, st) /\ AwaitsExit(st, other, peer)
  BY DEF Joint
<1>2. /\ arrived.sent = other_peer.sent
      /\ arrived.corrupted = other_peer.corrupted /\ arrived.end = "fin"
  OBVIOUS
<1>3. Flow(st, out, other, arrived)
  BY <1>1, <1>2 DEF Flow
<1>4. AwaitsExit(other, st, arrived)
  <2>1. SUFFICES ASSUME Policy(st) = "WAIT_FOR_PEER", Policy(other) = "WAIT_FOR_PEER",
                        ~st.exit_requested
                 PROVE  FALSE
    BY DEF AwaitsExit
  <2>2. st.is_receive_complete
    BY <2>1 DEF Known, ShutsByPolicy, Shut, Ended, Policy
  <2>3. peer.end # "open"
    BY <2>2 DEF Known, Receiver
  <2> QED BY <1>1, <2>1, <2>3 DEF AwaitsExit
<1> QED BY <1>1, <1>3, <1>4 DEF Joint

\* A reset comes from a process that is gone.
LEMMA ResetArrives ==
  ASSUME NEW st, NEW out, NEW other, NEW other_peer, NEW arrived,
         Joint(st, out, other, other_peer), st.exit_requested,
         arrived = [other_peer EXCEPT !.end = "reset"],
         other_peer \in [sent : Nat, corrupted : SUBSET Nat,
                         end : {"open", "fin", "reset"}]
  PROVE  Joint(st, out, other, arrived)
<1>1. /\ Flow(st, out, other, other_peer)
      /\ Explains(other, st) /\ AwaitsExit(other, st, other_peer)
  BY DEF Joint
<1>2. /\ arrived.sent = other_peer.sent
      /\ arrived.corrupted = other_peer.corrupted /\ arrived.end = "reset"
  OBVIOUS
<1>3. Flow(st, out, other, arrived)
  BY <1>1, <1>2 DEF Flow
<1>4. AwaitsExit(other, st, arrived)
  BY DEF AwaitsExit
<1> QED BY <1>1, <1>3, <1>4 DEF Joint

-----------------------------------------------------------------------------
(* Each end keeps what the proofs about one session say of it.             *)

\* The two ends are sessions with accepted configurations.
LEMMA EndConfigurations ==
  /\ \A c \in Configurations : c \in SessionConfiguration /\ Accepted(c)
  /\ \A c \in Configurations : c \in PA!SessionConfiguration /\ PA!Accepted(c)
  /\ \A c \in Configurations : c \in PB!SessionConfiguration /\ PB!Accepted(c)
<1>1. \A c \in Configurations : c \in SessionConfiguration /\ Accepted(c)
  BY TestsAssumption DEF Configurations
<1> QED BY <1>1, VocabularyA, VocabularyB

\* What the end A does itself is a step that its peer observes,
LEMMA StepAObserved ==
  ASSUME PA!SessionInv, sessionA.socket # "unconnected",
         (StepA \/ A!TimerExpires("timeout"))
  PROVE  /\ PA!SessionInv'
         /\ Observed(sessionA, inboundA, outboundA, peerA.end, sessionA', outboundA')
         /\ peerA' = peerA
<1>1. \/ PA!ConnectSucceeds \/ PA!Handle
      \/ PA!ReceivesData("receive") \/ PA!ReceiveFails("receive")
      \/ PA!ReceivesData("eof") \/ PA!ReceiveFails("eof")
      \/ PA!SendsData \/ PA!SendFails
      \/ \E op \in {"receive_throttle", "send_throttle", "timeout"} : PA!TimerExpires(op)
  BY SameA DEF StepA
<1>2. PA!Next
  BY <1>1 DEF PA!Next, PA!Complete
<1>3. PA!SessionInv'
  BY <1>2, PA!SessionStep, EndConfigurations, NetworkAssumption, BufferAssumption
<1>4. /\ PA!Observed(sessionA, inboundA, outboundA, peerA.end, sessionA', outboundA')
      /\ peerA' = peerA
  BY <1>1, <1>3, PA!Observation, EndConfigurations, NetworkAssumption, BufferAssumption
<1> QED BY <1>3, <1>4, VocabularyA

\* what the network does to it its environment may do,
LEMMA NetworkA ==
  ASSUME PA!SessionInv,
         \/ A!PeerReads \/ \E byte \in Byte : A!PeerSends(byte)
         \/ A!PeerShutsDown \/ A!PeerResets
         \/ UNCHANGED endA
  PROVE  PA!SessionInv'
<1>1. CASE UNCHANGED endA
  <2>1. UNCHANGED PA!vars
    BY <1>1 DEF endA, PA!vars
  <2> QED BY <2>1, PA!SessionStep, EndConfigurations, NetworkAssumption, BufferAssumption
<1>2. CASE \E byte \in Byte : A!PeerSends(byte)
  <2>1. PA!Next
    BY <1>2, SameA DEF PA!Next, PA!Environment, PA!Byte, Byte
  <2> QED BY <2>1, PA!SessionStep, EndConfigurations, NetworkAssumption, BufferAssumption
<1>3. CASE A!PeerReads \/ A!PeerShutsDown \/ A!PeerResets
  <2>1. PA!Next
    BY <1>3, SameA DEF PA!Next, PA!Environment
  <2> QED BY <2>1, PA!SessionStep, EndConfigurations, NetworkAssumption, BufferAssumption
<1> QED BY <1>1, <1>2, <1>3

\* and this is what the peer knows of it.
LEMMA KnowledgeA ==
  ASSUME PA!SessionInv, sessionA.socket # "unconnected"
  PROVE  /\ Known(sessionA, inboundA, outboundA, peerA)
         /\ peerA \in [sent : Nat, corrupted : SUBSET Nat, end : {"open", "fin", "reset"}]
         /\ outboundA \in Seq(Byte)
<1>1. PA!Known(sessionA, inboundA, outboundA, peerA)
  BY PA!Knowledge, EndConfigurations, NetworkAssumption, BufferAssumption
<1>2. peerA \in [sent : Nat, corrupted : SUBSET Nat, end : {"open", "fin", "reset"}]
  BY DEF PA!SessionInv, PA!ControlInv, PA!TypeOK
<1> QED BY <1>1, <1>2, VocabularyA DEF Known, Sender

\* The same of the end B: its steps,
LEMMA StepBObserved ==
  ASSUME PB!SessionInv, sessionB.socket # "unconnected",
         (StepB \/ B!TimerExpires("timeout"))
  PROVE  /\ PB!SessionInv'
         /\ Observed(sessionB, inboundB, outboundB, peerB.end, sessionB', outboundB')
         /\ peerB' = peerB
<1>1. \/ PB!ConnectSucceeds \/ PB!Handle
      \/ PB!ReceivesData("receive") \/ PB!ReceiveFails("receive")
      \/ PB!ReceivesData("eof") \/ PB!ReceiveFails("eof")
      \/ PB!SendsData \/ PB!SendFails
      \/ \E op \in {"receive_throttle", "send_throttle", "timeout"} : PB!TimerExpires(op)
  BY SameB DEF StepB
<1>2. PB!Next
  BY <1>1 DEF PB!Next, PB!Complete
<1>3. PB!SessionInv'
  BY <1>2, PB!SessionStep, EndConfigurations, NetworkAssumption, BufferAssumption
<1>4. /\ PB!Observed(sessionB, inboundB, outboundB, peerB.end, sessionB', outboundB')
      /\ peerB' = peerB
  BY <1>1, <1>3, PB!Observation, EndConfigurations, NetworkAssumption, BufferAssumption
<1> QED BY <1>3, <1>4, VocabularyB

\* what the network does to it,
LEMMA NetworkB ==
  ASSUME PB!SessionInv,
         \/ B!PeerReads \/ \E byte \in Byte : B!PeerSends(byte)
         \/ B!PeerShutsDown \/ B!PeerResets
         \/ UNCHANGED endB
  PROVE  PB!SessionInv'
<1>1. CASE UNCHANGED endB
  <2>1. UNCHANGED PB!vars
    BY <1>1 DEF endB, PB!vars
  <2> QED BY <2>1, PB!SessionStep, EndConfigurations, NetworkAssumption, BufferAssumption
<1>2. CASE \E byte \in Byte : B!PeerSends(byte)
  <2>1. PB!Next
    BY <1>2, SameB DEF PB!Next, PB!Environment, PB!Byte, Byte
  <2> QED BY <2>1, PB!SessionStep, EndConfigurations, NetworkAssumption, BufferAssumption
<1>3. CASE B!PeerReads \/ B!PeerShutsDown \/ B!PeerResets
  <2>1. PB!Next
    BY <1>3, SameB DEF PB!Next, PB!Environment
  <2> QED BY <2>1, PB!SessionStep, EndConfigurations, NetworkAssumption, BufferAssumption
<1> QED BY <1>1, <1>2, <1>3

\* and what the peer knows of it.
LEMMA KnowledgeB ==
  ASSUME PB!SessionInv, sessionB.socket # "unconnected"
  PROVE  /\ Known(sessionB, inboundB, outboundB, peerB)
         /\ peerB \in [sent : Nat, corrupted : SUBSET Nat, end : {"open", "fin", "reset"}]
         /\ outboundB \in Seq(Byte)
<1>1. PB!Known(sessionB, inboundB, outboundB, peerB)
  BY PB!Knowledge, EndConfigurations, NetworkAssumption, BufferAssumption
<1>2. peerB \in [sent : Nat, corrupted : SUBSET Nat, end : {"open", "fin", "reset"}]
  BY DEF PB!SessionInv, PB!ControlInv, PB!TypeOK
<1> QED BY <1>1, <1>2, VocabularyB DEF Known, Sender

-----------------------------------------------------------------------------
(* The invariant holds initially.                                          *)

\* Nothing has happened yet to the end A.
LEMMA FreshA ==
  ASSUME NEW c, NEW st \in A!initialize(c)
  PROVE  /\ st.configuration = c /\ st.sent = 0 /\ st.failure = "success"
         /\ ~st.is_receive_complete /\ ~st.exit_requested
         /\ \A q \in Queued(st) : q.op \in {"connect", "start"}
<1> DEFINE Connect(failure) == [op |-> "connect", failure |-> failure, data |-> <<>>]
           Start == [op |-> "start", failure |-> "success", data |-> <<>>]
           Opened(o) == /\ o.configuration = c /\ o.sent = 0 /\ o.failure = "success"
                        /\ ~o.is_receive_complete /\ ~o.exit_requested
                        /\ \/ o.ready = <<>>
                           \/ \E failure : o.ready = <<Connect(failure)>>
<1>1. PICK opened \in {A!new(c), A!connected(A!new(c)), A!refused(A!new(c))} :
            st = A!post(opened, A!done("start", "success", <<>>))
  BY DEF A!initialize
<1>2. Opened(opened)
  <2>1. Opened(A!new(c))
    BY DEF A!new
  <2>2. A!connected(A!new(c)).ready = <<Connect("success")>>
    BY DEF A!new, A!connected, A!complete, A!done
  <2>3. Opened(A!connected(A!new(c)))
    BY <2>2 DEF A!new, A!connected, A!complete
  <2>4. A!refused(A!new(c)).ready = <<Connect("connection_refused")>>
    BY DEF A!new, A!refused, A!complete, A!done
  <2>5. Opened(A!refused(A!new(c)))
    BY <2>4 DEF A!new, A!refused, A!complete
  <2> HIDE DEF Opened
  <2> QED BY <1>1, <2>1, <2>3, <2>5
<1>3. /\ st.configuration = opened.configuration /\ st.sent = opened.sent
      /\ st.failure = opened.failure
      /\ st.is_receive_complete = opened.is_receive_complete
      /\ st.exit_requested = opened.exit_requested
      /\ st.ready = Append(opened.ready, Start)
  BY <1>1 DEF A!post, A!done, A!new, A!connected, A!refused, A!complete
<1>4. \A q \in Queued(st) : q.op \in {"connect", "start"}
  <2>1. CASE opened.ready = <<>>
    <3>1. st.ready = <<Start>>
      BY <1>3, <2>1
    <3> QED BY <3>1 DEF Queued
  <2>2. CASE \E failure : opened.ready = <<Connect(failure)>>
    <3>1. PICK failure : opened.ready = <<Connect(failure)>>
      BY <2>2
    <3> DEFINE first == Connect(failure)
               second == Start
    <3>2. st.ready = Append(<<first>>, second)
      BY <1>3, <3>1
    <3>3. first.op = "connect" /\ second.op = "start"
      OBVIOUS
    <3> HIDE DEF first, second
    <3>4. <<first>> \in Seq({first, second})
      OBVIOUS
    <3>5. /\ DOMAIN st.ready = 1 .. 2
          /\ st.ready[1] = first /\ st.ready[2] = second
      BY <3>2, <3>4, AppendProperties
    <3>6. \A i \in DOMAIN st.ready : i = 1 \/ i = 2
      BY <3>5
    <3>7. \A i \in DOMAIN st.ready : st.ready[i].op \in {"connect", "start"}
      BY <3>3, <3>5, <3>6
    <3> QED BY <3>7 DEF Queued
  <2> QED BY <1>2, <2>1, <2>2
<1> QED BY <1>2, <1>3, <1>4

\* Nor to the end B.
LEMMA FreshB ==
  ASSUME NEW c, NEW st \in B!initialize(c)
  PROVE  /\ st.configuration = c /\ st.sent = 0 /\ st.failure = "success"
         /\ ~st.is_receive_complete /\ ~st.exit_requested
         /\ \A q \in Queued(st) : q.op \in {"connect", "start"}
<1> DEFINE Connect(failure) == [op |-> "connect", failure |-> failure, data |-> <<>>]
           Start == [op |-> "start", failure |-> "success", data |-> <<>>]
           Opened(o) == /\ o.configuration = c /\ o.sent = 0 /\ o.failure = "success"
                        /\ ~o.is_receive_complete /\ ~o.exit_requested
                        /\ \/ o.ready = <<>>
                           \/ \E failure : o.ready = <<Connect(failure)>>
<1>1. PICK opened \in {B!new(c), B!connected(B!new(c)), B!refused(B!new(c))} :
            st = B!post(opened, B!done("start", "success", <<>>))
  BY DEF B!initialize
<1>2. Opened(opened)
  <2>1. Opened(B!new(c))
    BY DEF B!new
  <2>2. B!connected(B!new(c)).ready = <<Connect("success")>>
    BY DEF B!new, B!connected, B!complete, B!done
  <2>3. Opened(B!connected(B!new(c)))
    BY <2>2 DEF B!new, B!connected, B!complete
  <2>4. B!refused(B!new(c)).ready = <<Connect("connection_refused")>>
    BY DEF B!new, B!refused, B!complete, B!done
  <2>5. Opened(B!refused(B!new(c)))
    BY <2>4 DEF B!new, B!refused, B!complete
  <2> HIDE DEF Opened
  <2> QED BY <1>1, <2>1, <2>3, <2>5
<1>3. /\ st.configuration = opened.configuration /\ st.sent = opened.sent
      /\ st.failure = opened.failure
      /\ st.is_receive_complete = opened.is_receive_complete
      /\ st.exit_requested = opened.exit_requested
      /\ st.ready = Append(opened.ready, Start)
  BY <1>1 DEF B!post, B!done, B!new, B!connected, B!refused, B!complete
<1>4. \A q \in Queued(st) : q.op \in {"connect", "start"}
  <2>1. CASE opened.ready = <<>>
    <3>1. st.ready = <<Start>>
      BY <1>3, <2>1
    <3> QED BY <3>1 DEF Queued
  <2>2. CASE \E failure : opened.ready = <<Connect(failure)>>
    <3>1. PICK failure : opened.ready = <<Connect(failure)>>
      BY <2>2
    <3> DEFINE first == Connect(failure)
               second == Start
    <3>2. st.ready = Append(<<first>>, second)
      BY <1>3, <3>1
    <3>3. first.op = "connect" /\ second.op = "start"
      OBVIOUS
    <3> HIDE DEF first, second
    <3>4. <<first>> \in Seq({first, second})
      OBVIOUS
    <3>5. /\ DOMAIN st.ready = 1 .. 2
          /\ st.ready[1] = first /\ st.ready[2] = second
      BY <3>2, <3>4, AppendProperties
    <3>6. \A i \in DOMAIN st.ready : i = 1 \/ i = 2
      BY <3>5
    <3>7. \A i \in DOMAIN st.ready : st.ready[i].op \in {"connect", "start"}
      BY <3>3, <3>5, <3>6
    <3> QED BY <3>7 DEF Queued
  <2> QED BY <1>2, <2>1, <2>2
<1> QED BY <1>2, <1>3, <1>4

\* At the start nothing is owed.
LEMMA JointInit ==
  ASSUME NEW st, NEW other, NEW peer, peer = [sent |-> 0, corrupted |-> {}, end |-> "open"],
         st.sent = 0, ~other.is_receive_complete, other.failure = "success",
         \A q \in Queued(st) \cup Queued(other) : q.op \in {"connect", "start"}
  PROVE  Joint(st, <<>>, other, peer)
<1>1. Accepts(st, 0)
  BY DEF Accepts
<1>2. ~SawEnd(other)
  BY DEF SawEnd
<1>3. Flow(st, <<>>, other, peer)
  BY <1>1, <1>2 DEF Flow
<1>4. Explains(other, st)
  BY DEF Explains, Faces
<1> QED BY <1>3, <1>4 DEF Joint, AwaitsExit

\* Neither end starts with more than its connection under way.
LEMMA PairInit == Init => PairInv
<1> SUFFICES ASSUME Init PROVE PairInv
  OBVIOUS
<1>1. PICK test \in Tests : sessionA \in A!initialize(test[1])
                            /\ sessionB \in B!initialize(test[2])
  BY DEF Init
<1>2. test[1] \in Configurations /\ test[2] \in Configurations
  BY DEF Configurations
<1>3. peerA = [sent |-> 0, corrupted |-> {}, end |-> "open"] /\ peerB = peerA
  BY DEF Init
<1>4. PA!SessionInv
  <2>1. PA!Init
    BY <1>1, <1>2, <1>3, SameA DEF Init, PA!Init
  <2> QED BY <2>1, PA!SessionInit, EndConfigurations, NetworkAssumption, BufferAssumption
<1>5. PB!SessionInv
  <2>1. PB!Init
    BY <1>1, <1>2, <1>3, SameB DEF Init, PB!Init
  <2> QED BY <2>1, PB!SessionInit, EndConfigurations, NetworkAssumption, BufferAssumption
<1>6. Opposite(sessionA, sessionB)
  BY <1>1, FreshA, FreshB, TestsAssumption DEF Opposite
<1>7. Joint(sessionA, outboundA, sessionB, peerB)
  BY <1>1, <1>3, FreshA, FreshB, JointInit DEF Init
<1>8. Joint(sessionB, outboundB, sessionA, peerA)
  BY <1>1, <1>3, FreshA, FreshB, JointInit DEF Init
<1> QED BY <1>4, <1>5, <1>6, <1>7, <1>8 DEF PairInv, Init

-----------------------------------------------------------------------------
(* The invariant is kept by every step.                                    *)

\* What every case below starts from.
LEMMA Facts ==
  ASSUME PairInv
  PROVE  /\ PA!SessionInv /\ PB!SessionInv
         /\ sessionA.socket # "unconnected" /\ sessionB.socket # "unconnected"
         /\ Opposite(sessionA, sessionB) /\ Opposite(sessionB, sessionA)
         /\ Joint(sessionA, outboundA, sessionB, peerB)
         /\ Joint(sessionB, outboundB, sessionA, peerA)
         /\ Known(sessionA, inboundA, outboundA, peerA)
         /\ Known(sessionB, inboundB, outboundB, peerB)
         /\ peerA \in [sent : Nat, corrupted : SUBSET Nat, end : {"open", "fin", "reset"}]
         /\ peerB \in [sent : Nat, corrupted : SUBSET Nat, end : {"open", "fin", "reset"}]
         /\ outboundA \in Seq(Byte) /\ outboundB \in Seq(Byte)
<1>1. Opposite(sessionB, sessionA)
  BY DEF PairInv, Opposite
<1> QED BY <1>1, KnowledgeA, KnowledgeB DEF PairInv

\* A step of the end A, or its timer.
LEMMA PairStepA ==
  ASSUME PairInv, StepA \/ A!TimerExpires("timeout"), UNCHANGED endB
  PROVE  PairInv'
<1>1. /\ PA!SessionInv'
      /\ Observed(sessionA, inboundA, outboundA, peerA.end, sessionA', outboundA')
      /\ peerA' = peerA
  BY StepAObserved DEF PairInv
<1>2. /\ PB!SessionInv' /\ sessionB' = sessionB /\ outboundB' = outboundB
      /\ peerB' = peerB
  BY NetworkB DEF PairInv, endB
<1>3. /\ sessionA'.socket # "unconnected"
      /\ sessionA'.configuration = sessionA.configuration
  BY <1>1 DEF Observed
<1>4. outboundA' \in Seq(Byte)
  BY <1>1 DEF PA!SessionInv, PA!ControlInv, PA!TypeOK, PA!Byte, Byte
<1>5. Joint(sessionA', outboundA', sessionB', peerB')
  <2>1. Joint(sessionA', outboundA', sessionB, peerB)
    BY <1>1, <1>4, Facts, SenderSteps
  <2> QED BY <1>2, <2>1
<1>6. Joint(sessionB', outboundB', sessionA', peerA')
  <2>1. Joint(sessionB, outboundB, sessionA', peerA)
    BY <1>1, Facts, ReceiverSteps
  <2> QED BY <1>1, <1>2, <2>1
<1> QED BY <1>1, <1>2, <1>3, <1>5, <1>6 DEF PairInv, Opposite

\* A step of the end A, or its timer.
LEMMA PairStepB ==
  ASSUME PairInv, StepB \/ B!TimerExpires("timeout"), UNCHANGED endA
  PROVE  PairInv'
<1>1. /\ PB!SessionInv'
      /\ Observed(sessionB, inboundB, outboundB, peerB.end, sessionB', outboundB')
      /\ peerB' = peerB
  BY StepBObserved DEF PairInv
<1>2. /\ PA!SessionInv' /\ sessionA' = sessionA /\ outboundA' = outboundA
      /\ peerA' = peerA
  BY NetworkA DEF PairInv, endA
<1>3. /\ sessionB'.socket # "unconnected"
      /\ sessionB'.configuration = sessionB.configuration
  BY <1>1 DEF Observed
<1>4. outboundB' \in Seq(Byte)
  BY <1>1 DEF PB!SessionInv, PB!ControlInv, PB!TypeOK, PB!Byte, Byte
<1>5. Joint(sessionB', outboundB', sessionA', peerA')
  <2>1. Joint(sessionB', outboundB', sessionA, peerA)
    BY <1>1, <1>4, Facts, SenderSteps
  <2> QED BY <1>2, <2>1
<1>6. Joint(sessionA', outboundA', sessionB', peerB')
  <2>1. Joint(sessionA, outboundA, sessionB', peerB)
    BY <1>1, Facts, ReceiverSteps
  <2> QED BY <1>1, <1>2, <2>1
<1> QED BY <1>1, <1>2, <1>3, <1>5, <1>6 DEF PairInv, Opposite

\* A byte of A is delivered to B.
LEMMA PairDeliveryB ==
  ASSUME PairInv, DeliversToB
  PROVE  PairInv'
<1> DEFINE arrived == [peerB EXCEPT
                           !.sent = @ + 1,
                           !.corrupted = IF Head(outboundA) = Pattern(peerB.sent)
                                         THEN @ ELSE @ \cup {peerB.sent}]
<1>1. /\ outboundA # <<>> /\ outboundA' = Tail(outboundA)
      /\ sessionA' = sessionA /\ peerA' = peerA
      /\ sessionB' = sessionB /\ outboundB' = outboundB /\ peerB' = arrived
  BY DEF DeliversToB, A!PeerReads, B!PeerSends, B!Pattern, Pattern
<1>2. Head(outboundA) \in Byte /\ Joint(sessionA, Tail(outboundA), sessionB, arrived)
  BY <1>1, Facts, ByteArrives
<1>3. PA!SessionInv' /\ PB!SessionInv'
  BY <1>2, NetworkA, NetworkB DEF DeliversToB, PairInv
<1> QED BY <1>1, <1>2, <1>3 DEF PairInv

\* The end of the stream of A arrives at B,
LEMMA PairEndB ==
  ASSUME PairInv, EndsToB
  PROVE  PairInv'
<1> DEFINE arrived == [peerB EXCEPT !.end = "fin"]
<1>1. /\ Ended(sessionA) /\ outboundA = <<>> /\ ~sessionB.exit_requested
      /\ sessionA' = sessionA /\ outboundA' = outboundA /\ peerA' = peerA
      /\ sessionB' = sessionB /\ outboundB' = outboundB /\ peerB' = arrived
  BY DEF EndsToB, endA, B!PeerShutsDown, B!Running
<1>2. Joint(sessionA, outboundA, sessionB, arrived)
  BY <1>1, Facts, EndArrives
<1>3. PA!SessionInv' /\ PB!SessionInv'
  BY NetworkA, NetworkB DEF EndsToB, PairInv
<1> QED BY <1>1, <1>2, <1>3 DEF PairInv

\* or the connection is reset because A has gone.
LEMMA PairResetB ==
  ASSUME PairInv, ResetsB
  PROVE  PairInv'
<1> DEFINE arrived == [peerB EXCEPT !.end = "reset"]
<1>1. /\ sessionA.exit_requested
      /\ sessionA' = sessionA /\ outboundA' = outboundA /\ peerA' = peerA
      /\ sessionB' = sessionB /\ outboundB' = outboundB /\ peerB' = arrived
  BY DEF ResetsB, endA, B!PeerResets
<1>2. Joint(sessionA, outboundA, sessionB, arrived)
  BY <1>1, Facts, ResetArrives
<1>3. PA!SessionInv' /\ PB!SessionInv'
  BY NetworkA, NetworkB DEF ResetsB, PairInv
<1> QED BY <1>1, <1>2, <1>3 DEF PairInv

\* A byte of A is delivered to B.
LEMMA PairDeliveryA ==
  ASSUME PairInv, DeliversToA
  PROVE  PairInv'
<1> DEFINE arrived == [peerA EXCEPT
                           !.sent = @ + 1,
                           !.corrupted = IF Head(outboundB) = Pattern(peerA.sent)
                                         THEN @ ELSE @ \cup {peerA.sent}]
<1>1. /\ outboundB # <<>> /\ outboundB' = Tail(outboundB)
      /\ sessionB' = sessionB /\ peerB' = peerB
      /\ sessionA' = sessionA /\ outboundA' = outboundA /\ peerA' = arrived
  BY DEF DeliversToA, B!PeerReads, A!PeerSends, A!Pattern, Pattern
<1>2. Head(outboundB) \in Byte /\ Joint(sessionB, Tail(outboundB), sessionA, arrived)
  BY <1>1, Facts, ByteArrives
<1>3. PB!SessionInv' /\ PA!SessionInv'
  BY <1>2, NetworkB, NetworkA DEF DeliversToA, PairInv
<1> QED BY <1>1, <1>2, <1>3 DEF PairInv

\* The end of the stream of A arrives at B,
LEMMA PairEndA ==
  ASSUME PairInv, EndsToA
  PROVE  PairInv'
<1> DEFINE arrived == [peerA EXCEPT !.end = "fin"]
<1>1. /\ Ended(sessionB) /\ outboundB = <<>> /\ ~sessionA.exit_requested
      /\ sessionB' = sessionB /\ outboundB' = outboundB /\ peerB' = peerB
      /\ sessionA' = sessionA /\ outboundA' = outboundA /\ peerA' = arrived
  BY DEF EndsToA, endB, A!PeerShutsDown, A!Running
<1>2. Joint(sessionB, outboundB, sessionA, arrived)
  BY <1>1, Facts, EndArrives
<1>3. PB!SessionInv' /\ PA!SessionInv'
  BY NetworkB, NetworkA DEF EndsToA, PairInv
<1> QED BY <1>1, <1>2, <1>3 DEF PairInv

\* or the connection is reset because A has gone.
LEMMA PairResetA ==
  ASSUME PairInv, ResetsA
  PROVE  PairInv'
<1> DEFINE arrived == [peerA EXCEPT !.end = "reset"]
<1>1. /\ sessionB.exit_requested
      /\ sessionB' = sessionB /\ outboundB' = outboundB /\ peerB' = peerB
      /\ sessionA' = sessionA /\ outboundA' = outboundA /\ peerA' = arrived
  BY DEF ResetsA, endB, A!PeerResets
<1>2. Joint(sessionB, outboundB, sessionA, arrived)
  BY <1>1, Facts, ResetArrives
<1>3. PB!SessionInv' /\ PA!SessionInv'
  BY NetworkB, NetworkA DEF ResetsA, PairInv
<1> QED BY <1>1, <1>2, <1>3 DEF PairInv

\* Whatever happens to either end or between them.
LEMMA PairStep ==
  ASSUME PairInv, [Next]_vars
  PROVE  PairInv'
<1>1. CASE StepA
  BY <1>1, PairStepA DEF StepA
<1>2. CASE StepB
  BY <1>2, PairStepB DEF StepB
<1>3. CASE Network
  BY <1>3, PairDeliveryA, PairDeliveryB, PairEndA, PairEndB, PairResetA, PairResetB
     DEF Network
<1>4. CASE Interruption
  BY <1>4, PairStepA, PairStepB DEF Interruption
<1>5. CASE UNCHANGED vars
  <2>1. UNCHANGED endA /\ UNCHANGED endB
    BY <1>5 DEF vars
  <2>2. PA!SessionInv' /\ PB!SessionInv'
    BY <2>1, NetworkA, NetworkB DEF PairInv
  <2> QED BY <2>1, <2>2 DEF PairInv, endA, endB
<1> QED BY <1>1, <1>2, <1>3, <1>4, <1>5 DEF Next, Transfer

\* The two ends keep the invariant of the pair.
THEOREM PairKept == Spec => []PairInv
<1>1. Init => PairInv
  BY PairInit
<1>2. PairInv /\ [Next]_vars => PairInv'
  BY PairStep
<1> QED BY <1>1, <1>2, PTL DEF Spec

-----------------------------------------------------------------------------
(* What the invariant says of the two tests.                               *)

\* A wrong byte is never seen, and one too many only if the other end has more to send.
LEMMA Agreement ==
  ASSUME NEW st, NEW in, NEW out, NEW peer, NEW other, NEW other_out,
         Known(st, in, out, peer), Joint(other, other_out, st, peer)
  PROVE  Agrees(st, other)
<1>1. st.failure # "data_mismatch"
  BY DEF Known, Receiver, Joint, Flow
<1>2. st.failure = "unexpected_data" => Size(other) > Size(st)
  BY DEF Joint, Explains, Faces
<1> QED BY <1>1, <1>2 DEF Agrees

\* An end that saw the end of the stream has received all that was accepted of it.
LEMMA Completeness ==
  ASSUME NEW st, NEW in, NEW out, NEW peer, NEW other, NEW other_out, NEW accepted,
         Known(st, in, out, peer), Joint(other, other_out, st, peer),
         \A n \in Nat : Accepts(other, n) => accepted = n
  PROVE  Complete(st, accepted)
<1>1. SUFFICES ASSUME Succeeded(st), st.configuration.direction # "TX"
               PROVE  st.received = accepted /\ accepted >= Size(st)
  BY DEF Complete
<1>2. /\ st.is_receive_complete /\ st.received = peer.sent /\ st.received >= Size(st)
      /\ peer.sent \in Nat
  BY <1>1 DEF Known, Succeeds, Succeeded, Size, Receiver
<1>3. other_out = <<>> /\ Accepts(other, peer.sent + Len(other_out))
  BY <1>2 DEF Joint, Flow, SawEnd
<1>4. Accepts(other, peer.sent)
  <2>1. peer.sent + Len(other_out) = peer.sent
    BY <1>2, <1>3
  <2> QED BY <1>3, <2>1
<1> QED BY <1>2, <1>4

\* And if the other end shut down because of what it received, that was everything.
LEMMA Confirmation ==
  ASSUME NEW st, NEW in, NEW out, NEW peer,
         NEW other, NEW other_in, NEW other_out, NEW other_peer,
         Known(st, in, out, peer), Known(other, other_in, other_out, other_peer),
         Opposite(st, other),
         Joint(st, out, other, other_peer), Joint(other, other_out, st, peer)
  PROVE  Confirms(st, other)
<1>1. SUFFICES ASSUME Succeeded(st), ~other.exit_requested,
                      Policy(other) # "SEND_COMPLETE", Size(st) = Size(other)
               PROVE  other.received = st.sent
  BY DEF Confirms
<1>2. st.is_receive_complete /\ Accepts(st, st.sent)
  BY <1>1 DEF Known, Succeeds, Succeeded
<1>3. Shut(other)
  BY <1>1, <1>2 DEF Joint, Flow, SawEnd, Ended, Shut
<1>4. /\ other.received \in Nat /\ other_peer.sent \in Nat
      /\ Size(other) \in Nat /\ Size(st) \in Nat
      /\ other_in \in Seq(Byte) /\ out \in Seq(Byte)
      /\ other.received + Len(other_in) <= other_peer.sent
  BY <1>1 DEF Known, Receiver, Sender, Size
<1>5. Len(other_in) \in Nat /\ Len(out) \in Nat
  BY <1>4, LenProperties
<1>6. st.sent = other_peer.sent + Len(out)
  BY <1>2, AcceptsOnce DEF Joint, Flow
<1>7. /\ st.sent <= Size(st)
      /\ st.configuration.direction = "RX" => st.sent = 0
  <2>1. st.sent \in Nat
    BY <1>4, <1>5, <1>6
  <2> QED BY <1>2, <2>1 DEF Known, Sender, Size
<1>8. CASE other.configuration.direction = "TX"
  <2>1. st.configuration.direction = "RX"
    BY <1>8 DEF Opposite
  <2> QED BY <1>4, <1>5, <1>6, <1>7, <2>1
<1>9. CASE other.received >= Size(other)
  BY <1>1, <1>4, <1>5, <1>6, <1>7, <1>9
<1>10. other.configuration.direction = "TX" \/ other.received >= Size(other)
  BY <1>1, <1>3 DEF Known, ShutsByPolicy, Policy, Size
<1> QED BY <1>8, <1>9, <1>10

\* What the model calls the bytes accepted.
LEMMA BytesAcceptedA ==
  ASSUME NEW n \in Nat, Accepts(sessionA, n)
  PROVE  A!BytesAccepted = n
<1>1. A!Queued(sessionA) = Queued(sessionA)
  BY DEF A!Queued, Queued
<1>2. CASE \E c \in Queued(sessionA) : c.op = "send"
  <2> DEFINE last == CHOOSE c \in Queued(sessionA) : c.op = "send"
  <2>1. last \in Queued(sessionA) /\ last.op = "send"
    BY <1>2
  <2>2. A!BytesAccepted = sessionA.sent + Len(last.data)
    BY <1>1, <1>2 DEF A!BytesAccepted
  <2> HIDE DEF last
  <2> QED BY <2>1, <2>2 DEF Accepts
<1>3. CASE \A c \in Queued(sessionA) : c.op # "send"
  <2>1. A!BytesAccepted = sessionA.sent + 0
    BY <1>1, <1>3 DEF A!BytesAccepted
  <2>2. sessionA.sent = n /\ n \in Nat
    BY <1>3 DEF Accepts
  <2> QED BY <2>1, <2>2
<1> QED BY <1>2, <1>3

\* The same of the end B.
LEMMA BytesAcceptedB ==
  ASSUME NEW n \in Nat, Accepts(sessionB, n)
  PROVE  B!BytesAccepted = n
<1>1. B!Queued(sessionB) = Queued(sessionB)
  BY DEF B!Queued, Queued
<1>2. CASE \E c \in Queued(sessionB) : c.op = "send"
  <2> DEFINE last == CHOOSE c \in Queued(sessionB) : c.op = "send"
  <2>1. last \in Queued(sessionB) /\ last.op = "send"
    BY <1>2
  <2>2. B!BytesAccepted = sessionB.sent + Len(last.data)
    BY <1>1, <1>2 DEF B!BytesAccepted
  <2> HIDE DEF last
  <2> QED BY <2>1, <2>2 DEF Accepts
<1>3. CASE \A c \in Queued(sessionB) : c.op # "send"
  <2>1. B!BytesAccepted = sessionB.sent + 0
    BY <1>1, <1>3 DEF B!BytesAccepted
  <2>2. sessionB.sent = n /\ n \in Nat
    BY <1>3 DEF Accepts
  <2> QED BY <2>1, <2>2
<1> QED BY <1>2, <1>3

\* The two ends agree on the streams: neither fails of a byte that the network or the
\* buffers of the program made wrong (Session.cpp:198, TcpSession.cpp:114).
THEOREM StreamsAgreed == Spec => []StreamsAgree
<1>1. PairInv => StreamsAgree
  BY Facts, Agreement DEF StreamsAgree
<1> QED BY <1>1, PairKept, PTL

\* What an end succeeds with is what the other one has done (TcpSession.cpp:110).
THEOREM SuccessesConfirmed == Spec => []SuccessConfirmed
<1>1. ASSUME PairInv PROVE SuccessConfirmed
  <2>1. Complete(sessionA, B!BytesAccepted)
    BY <1>1, Facts, BytesAcceptedB, Completeness
  <2>2. Complete(sessionB, A!BytesAccepted)
    BY <1>1, Facts, BytesAcceptedA, Completeness
  <2>3. Confirms(sessionA, sessionB) /\ Confirms(sessionB, sessionA)
    BY <1>1, Facts, Confirmation
  <2> QED BY <2>1, <2>2, <2>3 DEF SuccessConfirmed
<1> QED BY <1>1, PairKept, PTL

\* What an end fails with follows from what the other one did: it exited, shut down
\* early or was told another size (TcpSession.cpp:84, 106).
THEOREM FailuresAreExplained == Spec => []FailuresExplained
<1>1. ASSUME NEW st, NEW other, Explains(st, other)
      PROVE  Explained(st, other)
  BY <1>1 DEF Explains, Explained, Faces
<1>2. PairInv => FailuresExplained
  BY <1>1, Facts DEF FailuresExplained, Joint
<1> QED BY <1>2, PairKept, PTL

\* Two ends that both wait for their peer wait for each other (TcpSession.cpp:106).
THEOREM BothKeepWaiting == Spec => []BothWaitForPeer
<1>1. ASSUME PairInv PROVE BothWaitForPeer
  <2>1. sessionA.is_receive_complete => peerA.end # "open"
    BY <1>1, Facts DEF Known, Receiver
  <2>2. sessionB.is_receive_complete => peerB.end # "open"
    BY <1>1, Facts DEF Known, Receiver
  <2>3. /\ AwaitsExit(sessionA, sessionB, peerA)
        /\ AwaitsExit(sessionB, sessionA, peerB)
    BY <1>1, Facts DEF Joint
  <2> QED BY <2>1, <2>2, <2>3 DEF BothWaitForPeer, AwaitsExit
<1> QED BY <1>1, PairKept, PTL
=============================================================================
