------------------------ MODULE ClientSessionProofs ------------------------
(***************************************************************************)
(* Proofs about ClientSession, for the Python client and for moq_client,   *)
(* any set of threads and handles, any number of configured streams and    *)
(* any number of calls.                                                    *)
(***************************************************************************)
EXTENDS ClientSession, TLAPS

(***************************************************************************)
(* Who holds the two locks: mtx_ is held across steps by                   *)
(* set_stream_priority and disconnect(false) only, the GIL, if there is    *)
(* one, by the former and by the destructor.                               *)
(***************************************************************************)
LocksHeld ==
    /\ \A t \in Thread :
          /\ mtx = t <=> pc[t] \in {"param", "param done", "disconnect"}
          /\ Python /\ pc[t] \in {"lock", "param", "param done", "closing"}
                => gil = t
    /\ ackCb \/ wpc = "ack" => Python

(***************************************************************************)
(* What has happened when: no stream is opened before CONNECTED, and none  *)
(* is ready before its callback is through.                                *)
(***************************************************************************)
Unconnected == conn \in {"idle", "starting"}

OpenedOnce ==
    /\ Unconnected => /\ ~connected /\ ~ready
                      /\ wpc \notin {"start", "stream"}
                      /\ \A h \in Handle : quic[h] = "unused"
    /\ wpc \in {"notify", "open"} => conn \in {"up", "closing"} /\ ~ready
    /\ wpc = "gone" => conn = "down"

(***************************************************************************)
(* Where a handle is: in one table, or in the open_stream call that has    *)
(* yet to store it; a new one is in none of them.                          *)
(***************************************************************************)
HandlesPlaced ==
    /\ \A h \in streams \cup closing : quic[h] # "unused"
    /\ \A t \in Thread : pc[t] = "register"
          => /\ held[t] \in Handle \ (streams \cup closing)
             /\ quic[held[t]] # "unused"
             /\ \A u \in Thread \ {t} : pc[u] = "register" => held[u] # held[t]

(***************************************************************************)
(* How far the connecting thread has come: past the waits a configured     *)
(* stream has started or failed; and while it has yet to decide, running_  *)
(* is FALSE only if the callback for the end of the connection has been    *)
(* through.                                                                *)
(***************************************************************************)
PastWaits == pc[Main] \notin Connecting \cup {"refused", "closing", "gone"}

ConnectingKnows ==
    /\ \A t \in Thread \ {Main} : pc[t] \in (Calling \ {"closing"}) \cup {"idle"}
    /\ ~PastWaits => \A t \in Thread \ {Main} : pc[t] = "idle"
    /\ PastWaits => Configured = 0 \/ ready
    /\ pc[Main] = "start" => conn = "idle"
    /\ pc[Main] \in {"store connected", "wait connected", "waiting"} /\ ~running
          => conn = "down" /\ wpc # "gone"

(***************************************************************************)
(* Each SEND_COMPLETE owed is owed for a call of send.                     *)
(***************************************************************************)
AcksOwed == \A h \in Handle : acks[h] <= calls

\* The inductive invariant.
IInv == /\ TypeOK /\ AcksOwed
        /\ LocksHeld /\ OpenedOnce /\ HandlesPlaced /\ ConnectingKnows

(***************************************************************************)
(* The initial state: nothing is open, held or counted.                    *)
(***************************************************************************)
LEMMA InitIInv == Init => IInv
<1> SUFFICES ASSUME Init PROVE IInv
    OBVIOUS
<1> USE SessionAssumption
<1>1. TypeOK
  <2>1. {running, connected, ready, ackCb} \subseteq BOOLEAN
    BY Zenon DEF Init
  <2> QED
    BY <2>1 DEF Init, TypeOK, ConnState, QuicState, Connecting, Callback
<1>2. AcksOwed /\ LocksHeld /\ OpenedOnce /\ HandlesPlaced /\ ConnectingKnows
    BY DEF Init, Python, AcksOwed, LocksHeld, OpenedOnce, Unconnected,
           HandlesPlaced, ConnectingKnows, PastWaits, Connecting, Calling
<1> QED
    BY <1>1, <1>2 DEF IInv

(***************************************************************************)
(* Events owed stay within the calls made.                                 *)
(***************************************************************************)
LEMMA AcksKept ==
    IInv /\ [Next]_vars
        => AcksOwed' /\ acks' \in [Handle -> 0 .. MaxCalls] /\ calls' \in 0 .. MaxCalls
<1> DEFINE Kept == /\ AcksOwed'
                   /\ acks' \in [Handle -> 0 .. MaxCalls]
                   /\ calls' \in 0 .. MaxCalls
<1> SUFFICES ASSUME IInv, [Next]_vars PROVE Kept
    OBVIOUS
<1>0. /\ AcksOwed /\ streams \subseteq Handle
      /\ acks \in [Handle -> 0 .. MaxCalls] /\ calls \in 0 .. MaxCalls
    BY DEF IInv, TypeOK
<1> USE <1>0, SessionAssumption DEF AcksOwed
<1>1. ASSUME NEW t \in Thread, Send(t) PROVE Kept
    BY <1>1 DEF Send, MakesCall
<1>2. ASSUME NEW h \in Handle, SendComplete(h) PROVE Kept
    BY <1>2 DEF SendComplete
<1>3. ASSUME UNCHANGED acks, calls' = calls \/ (calls < MaxCalls /\ calls' = calls + 1)
      PROVE  Kept
    BY <1>3
<1> QED
    BY <1>1, <1>2, <1>3
    DEF Next, Connect, Call, CallStep, CallbackStep, StreamEvent, vars, flags,
        tables, sends, locks, worker, Goto, SetQuic, TakeGil, NotifyConnected,
        MakesCall, Usable, StartConnection, StoreRunning, StoreConnected,
        WaitConnected, WaitStreamReady, OpenStream, CloseStream,
        DropStream, Stats, SetPriority, DisconnectForce, DisconnectGraceful,
        Register, LockAndSetParam, PriorityReturn, ForgetAckCallback,
        RunParameterCall, ConnectedNotify, OpenStreams, DetachFailed,
        DetachStream, StreamDone, AckCallback, GoneNotify, StartComplete,
        StartFails, StreamGone, SendComplete, Connected, ConnectionGone,
        HandshakeFails, LoseLink, Destroy, CloseDone

(***************************************************************************)
(* Handles stay where they belong: what StreamOpen returns is in neither   *)
(* table, and the callbacks take out of the tables only.                   *)
(***************************************************************************)
LEMMA HandlesKept ==
    IInv /\ [Next]_vars
        => /\ HandlesPlaced'
           /\ quic' \in [Handle -> QuicState] /\ aborted' \subseteq Handle
           /\ streams' \subseteq Handle /\ closing' \subseteq Handle \ streams'
           /\ held' \in [Thread -> Handle \cup {None}]
           /\ at' \in Handle \cup {None}
<1> DEFINE Kept == /\ HandlesPlaced'
                   /\ quic' \in [Handle -> QuicState] /\ aborted' \subseteq Handle
                   /\ streams' \subseteq Handle /\ closing' \subseteq Handle \ streams'
                   /\ held' \in [Thread -> Handle \cup {None}]
                   /\ at' \in Handle \cup {None}
<1> SUFFICES ASSUME IInv, [Next]_vars PROVE Kept
    OBVIOUS
<1>0. /\ HandlesPlaced
      /\ quic \in [Handle -> QuicState] /\ aborted \subseteq Handle
      /\ streams \subseteq Handle /\ closing \subseteq Handle \ streams
      /\ held \in [Thread -> Handle \cup {None}] /\ at \in Handle \cup {None}
      /\ pc \in [Thread -> Connecting \cup Calling \cup {"idle", "refused", "gone"}]
    BY DEF IInv, TypeOK
<1> USE <1>0, SessionAssumption DEF HandlesPlaced, QuicState
<1>1. ASSUME UNCHANGED <<quic, aborted, streams, closing, held, at>>,
             \A t \in Thread : pc'[t] = "register" => pc[t] = "register"
      PROVE  Kept
    BY <1>1
<1>2. ASSUME NEW t \in Thread, OpenStream(t) PROVE Kept
    BY <1>2 DEF OpenStream, MakesCall, Usable, SetQuic, Goto, tables, worker
<1>3. ASSUME NEW t \in Thread, Register(t) PROVE Kept
    BY <1>3 DEF Register, Goto, worker
<1>4. ASSUME NEW t \in Thread, CloseStream(t) PROVE Kept
    BY <1>4 DEF CloseStream, worker
<1>5. ASSUME NEW t \in Thread, DropStream(t) PROVE Kept
    BY <1>5 DEF DropStream, worker
<1>6. ASSUME OpenStreams PROVE Kept
    BY <1>6 DEF OpenStreams
<1>7. ASSUME NEW h \in Handle, StartComplete(h) \/ StartFails(h) \/ StreamGone(h)
      PROVE  Kept
    BY <1>7 DEF StartComplete, StartFails, StreamGone, SetQuic, tables, worker
<1>8. ASSUME DetachFailed PROVE Kept
    BY <1>8 DEF DetachFailed, SetQuic
<1>9. ASSUME DetachStream PROVE Kept
    BY <1>9 DEF DetachStream, SetQuic
<1>10. CASE UNCHANGED vars
    BY <1>10, <1>1 DEF vars
<1>11. ASSUME \/ Connect \/ ConnectedNotify \/ StreamDone \/ AckCallback \/ GoneNotify
              \/ Connected \/ ConnectionGone \/ HandshakeFails \/ LoseLink
              \/ Destroy \/ CloseDone \/ \E h \in Handle : SendComplete(h)
       PROVE  Kept
  <2>1. UNCHANGED <<quic, aborted, streams, closing, held, at>>
    BY <1>11 DEF tables, worker, Connect,
    StartConnection, StoreRunning, StoreConnected, WaitConnected,
    WaitStreamReady, ConnectedNotify, StreamDone, AckCallback, GoneNotify,
    SendComplete, Connected, ConnectionGone, HandshakeFails, LoseLink,
    Destroy, CloseDone
  <2>2. \A t \in Thread : pc'[t] = "register" => pc[t] = "register"
    BY <1>11 DEF Goto, NotifyConnected, Connect,
    StartConnection, StoreRunning, StoreConnected, WaitConnected,
    WaitStreamReady, ConnectedNotify, StreamDone, AckCallback, GoneNotify,
    SendComplete, Connected, ConnectionGone, HandshakeFails, LoseLink,
    Destroy, CloseDone
  <2> QED
    BY <2>1, <2>2, <1>1
<1>12. ASSUME NEW t \in Thread,
              \/ Send(t) \/ Stats(t) \/ SetPriority(t) \/ DisconnectForce(t)
              \/ DisconnectGraceful(t) \/ LockAndSetParam(t) \/ PriorityReturn(t)
              \/ ForgetAckCallback(t) \/ RunParameterCall(t)
       PROVE  Kept
  <2>1. UNCHANGED <<quic, aborted, streams, closing, held, at>>
    BY <1>12 DEF tables, worker, Send, Stats, SetPriority, DisconnectForce,
       DisconnectGraceful, LockAndSetParam, PriorityReturn, ForgetAckCallback,
       RunParameterCall
  <2>2. \A u \in Thread : pc'[u] = "register" => pc[u] = "register"
    BY <1>12 DEF Goto, Send, Stats, SetPriority, DisconnectForce,
       DisconnectGraceful, LockAndSetParam, PriorityReturn, ForgetAckCallback,
       RunParameterCall
  <2> QED
    BY <2>1, <2>2, <1>1
<1> QED
    BY <1>2, <1>3, <1>4, <1>5, <1>6, <1>7, <1>8, <1>9, <1>10, <1>11, <1>12
       DEF Next, Call, CallStep, CallbackStep, StreamEvent

(***************************************************************************)
(* What a step can do to a thread: it does not leave disconnect(false),    *)
(* nor, while the worker is in a callback, SetParam; and wait_connected    *)
(* alone gives up, when running_ is FALSE.                                 *)
(***************************************************************************)
LEMMA ThreadsMove ==
    IInv /\ [Next]_vars
        => /\ pc' \in [Thread -> Connecting \cup Calling \cup {"idle", "refused", "gone"}]
           /\ \A t \in Thread : \/ pc[t] = "disconnect"
                                \/ pc[t] = "param" /\ wpc # "idle"
                 => pc'[t] = pc[t]
           /\ pc[Main] = "wait connected" /\ pc'[Main] = "refused" => ~running
<1> DEFINE Moved ==
           /\ pc' \in [Thread -> Connecting \cup Calling \cup {"idle", "refused", "gone"}]
           /\ \A t \in Thread : \/ pc[t] = "disconnect"
                                \/ pc[t] = "param" /\ wpc # "idle"
                 => pc'[t] = pc[t]
           /\ pc[Main] = "wait connected" /\ pc'[Main] = "refused" => ~running
<1> SUFFICES ASSUME IInv, [Next]_vars PROVE Moved
    OBVIOUS
<1>0. pc \in [Thread -> Connecting \cup Calling \cup {"idle", "refused", "gone"}]
    BY DEF IInv, TypeOK
<1> USE <1>0, SessionAssumption DEF Goto, Connecting, Calling
<1>1. ASSUME \/ OpenStreams \/ DetachFailed \/ DetachStream \/ StreamDone \/ AckCallback
             \/ \E h \in Handle : StreamEvent(h)
             \/ Connected \/ ConnectionGone \/ HandshakeFails \/ LoseLink
             \/ UNCHANGED vars
      PROVE  Moved
  <2>1. UNCHANGED pc
    BY <1>1 DEF vars, StreamEvent,
       OpenStreams, DetachFailed, DetachStream, StreamDone, AckCallback,
       StartComplete, StartFails, StreamGone, SendComplete, Connected,
       ConnectionGone, HandshakeFails, LoseLink
  <2> QED
    BY <2>1
<1>2. ASSUME StartConnection \/ StoreRunning \/ StoreConnected PROVE Moved
    BY <1>2 DEF StartConnection, StoreRunning, StoreConnected
<1>3. ASSUME WaitConnected \/ WaitStreamReady PROVE Moved
    BY <1>3 DEF WaitConnected, WaitStreamReady
<1>4. ASSUME ConnectedNotify \/ GoneNotify PROVE Moved
    BY <1>4 DEF ConnectedNotify, GoneNotify, NotifyConnected
<1>5. ASSUME Destroy \/ CloseDone PROVE Moved
    BY <1>5 DEF Destroy, CloseDone
<1>6. ASSUME NEW t \in Thread, Call(t) PROVE Moved
  <2>1. pc[t] = "idle"
    BY <1>6 DEF Call, OpenStream, Send, CloseStream, DropStream, Stats, SetPriority,
       DisconnectForce, DisconnectGraceful, MakesCall, Usable
  <2>2. pc' = pc \/ \E l \in Calling : pc' = [pc EXCEPT ![t] = l]
    BY <1>6 DEF Call, OpenStream, Send, CloseStream, DropStream, Stats, SetPriority,
       DisconnectForce, DisconnectGraceful
  <2> QED
    BY <2>1, <2>2
<1>7. ASSUME NEW t \in Thread, CallStep(t) PROVE Moved
    BY <1>7 DEF CallStep, Register, LockAndSetParam, PriorityReturn, ForgetAckCallback
<1>8. ASSUME NEW t \in Thread, RunParameterCall(t) PROVE Moved
    BY <1>8 DEF RunParameterCall
<1> QED
    BY <1>1, <1>2, <1>3, <1>4, <1>5, <1>6, <1>7, <1>8
       DEF Next, Connect, CallbackStep

(***************************************************************************)
(* The type invariant is kept: the flags are only ever copied or stored.   *)
(***************************************************************************)
LEMMA TypeKept == IInv /\ [Next]_vars => TypeOK'
<1> SUFFICES ASSUME IInv, [Next]_vars PROVE TypeOK'
    OBVIOUS
<1> USE SessionAssumption
    DEF IInv, TypeOK,
        Next, Connect, Call, CallStep, CallbackStep, StreamEvent, vars, flags,
        tables, sends, locks, worker, Goto, SetQuic, TakeGil, NotifyConnected,
        MakesCall, Usable, StartConnection, StoreRunning, StoreConnected,
        WaitConnected, WaitStreamReady, OpenStream, Send, CloseStream,
        DropStream, Stats, SetPriority, DisconnectForce, DisconnectGraceful,
        Register, LockAndSetParam, PriorityReturn, ForgetAckCallback,
        RunParameterCall, ConnectedNotify, OpenStreams, DetachFailed,
        DetachStream, StreamDone, AckCallback, GoneNotify, StartComplete,
        StartFails, StreamGone, SendComplete, Connected, ConnectionGone,
        HandshakeFails, LoseLink, Destroy, CloseDone
<1>1. {running, connected, ready, ackCb}' \subseteq BOOLEAN
    BY ZenonT(60)
<1>2. conn' \in ConnState
    BY DEF ConnState
<1>3. wpc' \in Callback
    BY DEF Callback
<1>4. mtx' \in Thread \cup {None} /\ gil' \in Thread \cup {None}
    OBVIOUS
<1>5. program' \in Program
    OBVIOUS
<1> QED
    BY <1>1, <1>2, <1>3, <1>4, <1>5, AcksKept, HandlesKept, ThreadsMove

(***************************************************************************)
(* Every action preserves the invariant.                                   *)
(***************************************************************************)
LEMMA NextIInv == IInv /\ [Next]_vars => IInv'
<1> DEFINE Rest == LocksHeld /\ OpenedOnce /\ ConnectingKnows
<1> SUFFICES ASSUME IInv, [Next]_vars PROVE Rest'
    BY AcksKept, HandlesKept, TypeKept DEF IInv
<1>0. /\ pc \in [Thread -> Connecting \cup Calling \cup {"idle", "refused", "gone"}]
      /\ conn \in ConnState
      /\ quic \in [Handle -> QuicState]
      /\ Rest
    BY DEF IInv, TypeOK
<1> USE <1>0, SessionAssumption
    DEF Python, Configured, LocksHeld, OpenedOnce, Unconnected,
        ConnectingKnows, PastWaits, ConnState, Connecting, Calling,
        flags, tables, sends, locks, worker,
        Goto, SetQuic, TakeGil, NotifyConnected, MakesCall, Usable
<1>1. ASSUME StartConnection PROVE Rest'
    BY <1>1 DEF StartConnection
<1>2. ASSUME StoreRunning PROVE Rest'
    BY <1>2 DEF StoreRunning
<1>3. ASSUME StoreConnected PROVE Rest'
    BY <1>3 DEF StoreConnected
<1>4. ASSUME WaitConnected PROVE Rest'
    BY <1>4 DEF WaitConnected
<1>5. ASSUME WaitStreamReady PROVE Rest'
    BY <1>5 DEF WaitStreamReady
<1>6. ASSUME ConnectedNotify PROVE Rest'
    BY <1>6 DEF ConnectedNotify
<1>7. ASSUME OpenStreams PROVE Rest'
    BY <1>7 DEF OpenStreams
<1>8. ASSUME DetachFailed PROVE Rest'
    BY <1>8 DEF DetachFailed
<1>9. ASSUME DetachStream PROVE Rest'
    BY <1>9 DEF DetachStream
<1>10. ASSUME StreamDone PROVE Rest'
    BY <1>10 DEF StreamDone
<1>11. ASSUME AckCallback PROVE Rest'
    BY <1>11 DEF AckCallback
<1>12. ASSUME GoneNotify PROVE Rest'
    BY <1>12 DEF GoneNotify
<1>13. ASSUME Connected PROVE Rest'
    BY <1>13 DEF Connected
<1>14. ASSUME ConnectionGone PROVE Rest'
    BY <1>14 DEF ConnectionGone
<1>15. ASSUME HandshakeFails PROVE Rest'
    BY <1>15 DEF HandshakeFails
<1>16. ASSUME LoseLink PROVE Rest'
    BY <1>16 DEF LoseLink
<1>17. ASSUME Destroy PROVE Rest'
    BY <1>17 DEF Destroy
<1>18. ASSUME CloseDone PROVE Rest'
    BY <1>18 DEF CloseDone
<1>19. ASSUME NEW t \in Thread, OpenStream(t) PROVE Rest'
    BY <1>19 DEF OpenStream
<1>20. ASSUME NEW t \in Thread, Send(t) PROVE Rest'
    BY <1>20 DEF Send
<1>21. ASSUME NEW t \in Thread, CloseStream(t) PROVE Rest'
    BY <1>21 DEF CloseStream
<1>22. ASSUME NEW t \in Thread, DropStream(t) PROVE Rest'
    BY <1>22 DEF DropStream
<1>23. ASSUME NEW t \in Thread, Stats(t) PROVE Rest'
    BY <1>23 DEF Stats
<1>24. ASSUME NEW t \in Thread, SetPriority(t) PROVE Rest'
    BY <1>24 DEF SetPriority
<1>25. ASSUME NEW t \in Thread, DisconnectForce(t) PROVE Rest'
    BY <1>25 DEF DisconnectForce
<1>26. ASSUME NEW t \in Thread, DisconnectGraceful(t) PROVE Rest'
    BY <1>26 DEF DisconnectGraceful
<1>27. ASSUME NEW t \in Thread, Register(t) PROVE Rest'
    BY <1>27 DEF Register
<1>28. ASSUME NEW t \in Thread, LockAndSetParam(t) PROVE Rest'
  <2>1. LocksHeld'
    <3> SUFFICES ASSUME NEW u \in Thread
                 PROVE  /\ mtx' = u <=> pc'[u] \in {"param", "param done", "disconnect"}
                        /\ Python /\ pc'[u] \in {"lock", "param", "param done", "closing"}
                              => gil' = u
        BY <1>28 DEF LockAndSetParam
    <3>1. CASE u = t
        BY <1>28, <3>1 DEF LockAndSetParam
    <3>2. CASE u # t
        BY <1>28, <3>2 DEF LockAndSetParam
    <3> QED
        BY <3>1, <3>2
  <2>2. OpenedOnce'
    BY <1>28 DEF LockAndSetParam
  <2>3. ConnectingKnows'
    BY <1>28 DEF LockAndSetParam
  <2> QED
    BY <2>1, <2>2, <2>3
<1>29. ASSUME NEW t \in Thread, PriorityReturn(t) PROVE Rest'
    BY <1>29 DEF PriorityReturn
<1>30. ASSUME NEW t \in Thread, ForgetAckCallback(t) PROVE Rest'
    BY <1>30 DEF ForgetAckCallback
<1>31. ASSUME NEW t \in Thread, RunParameterCall(t) PROVE Rest'
  <2>1. LocksHeld'
    <3> SUFFICES ASSUME NEW u \in Thread
                 PROVE  /\ mtx' = u <=> pc'[u] \in {"param", "param done", "disconnect"}
                        /\ Python /\ pc'[u] \in {"lock", "param", "param done", "closing"}
                              => gil' = u
        BY <1>31 DEF RunParameterCall
    <3>1. CASE u = t
        BY <1>31, <3>1 DEF RunParameterCall
    <3>2. CASE u # t
        BY <1>31, <3>2 DEF RunParameterCall
    <3> QED
        BY <3>1, <3>2
  <2>2. OpenedOnce'
    BY <1>31 DEF RunParameterCall
  <2>3. ConnectingKnows'
    <3>1. /\ pc[t] \in {"stats", "param"} /\ pc'[t] \in {"param done", "idle"}
          /\ \A u \in Thread : u # t => pc'[u] = pc[u]
          /\ UNCHANGED <<program, conn, running, ready, wpc>>
        BY <1>31 DEF RunParameterCall
    <3>2. PastWaits
        BY <3>1
    <3>3. PastWaits' /\ (Configured = 0 \/ ready)
        BY <3>1, <3>2
    <3>4. \A u \in Thread \ {Main} : pc'[u] \in (Calling \ {"closing"}) \cup {"idle"}
        BY <3>1
    <3>5. (Configured = 0 \/ ready)'
        BY <3>1, <3>3
    <3>6. pc'[Main] \notin Connecting
        BY <3>3
    <3> QED
        BY <3>3, <3>4, <3>5, <3>6
  <2> QED
    BY <2>1, <2>2, <2>3
<1>32. ASSUME NEW h \in Handle, StartComplete(h) PROVE Rest'
    BY <1>32 DEF StartComplete
<1>33. ASSUME NEW h \in Handle, StartFails(h) PROVE Rest'
    BY <1>33 DEF StartFails
<1>34. ASSUME NEW h \in Handle, StreamGone(h) PROVE Rest'
    BY <1>34 DEF StreamGone
<1>35. ASSUME NEW h \in Handle, SendComplete(h) PROVE Rest'
    BY <1>35 DEF SendComplete
<1>36. ASSUME UNCHANGED vars PROVE Rest'
    BY <1>36 DEF vars
<1> QED
    BY <1>1, <1>2, <1>3, <1>4, <1>5, <1>6, <1>7, <1>8, <1>9, <1>10, <1>11,
       <1>12, <1>13, <1>14, <1>15, <1>16, <1>17, <1>18, <1>19, <1>20, <1>21,
       <1>22, <1>23, <1>24, <1>25, <1>26, <1>27, <1>28, <1>29, <1>30, <1>31,
       <1>32, <1>33, <1>34, <1>35, <1>36
       DEF Next, Connect, Call, CallStep, CallbackStep, StreamEvent

LEMMA Invariance == Spec => []IInv
<1> QED
    BY InitIInv, NextIInv, PTL DEF Spec

(***************************************************************************)
(* The variables keep their types: no handle is ever in both tables,       *)
(* however calls, callbacks and the end of the connection interleave.      *)
(***************************************************************************)
THEOREM SessionTypeCorrect == Spec => []TypeOK
<1>1. IInv => TypeOK
    BY DEF IInv
<1> QED
    BY <1>1, Invariance, PTL

(***************************************************************************)
(* While the CONNECTED callback fills streams_ without mtx_, no thread is  *)
(* inside a call or can make one, although it has woken the connecting     *)
(* thread before; also when streams fail to open or to start.              *)
(***************************************************************************)
THEOREM CallbackOpensAlone == Spec => []OpensAlone
<1>1. ASSUME IInv, wpc = "open", Configured > 0, NEW t \in Thread
      PROVE  ~Usable(t) /\ pc[t] \notin Calling \ {"closing"}
  <2>0. ~ready /\ Configured # 0
    BY <1>1, SessionAssumption DEF IInv, OpenedOnce, Configured
  <2>1. ~PastWaits
    BY <1>1, <2>0 DEF IInv, ConnectingKnows
  <2>2. ~Usable(t)
    BY <2>1 DEF PastWaits, Usable
  <2>3. t # Main => pc[t] = "idle"
    BY <1>1, <2>1 DEF IInv, ConnectingKnows
  <2> QED
    BY <2>1, <2>2, <2>3 DEF PastWaits, Connecting, Calling
<1>2. IInv => OpensAlone
    BY <1>1 DEF OpensAlone
<1> QED
    BY <1>2, Invariance, PTL

(***************************************************************************)
(* wait_connected gives up only when SHUTDOWN_COMPLETE has been            *)
(* delivered, in whatever order start_client and the callbacks store the   *)
(* flags.                                                                  *)
(***************************************************************************)
THEOREM ConnectGivesUpRightly == Spec => GivesUpOnlyWhenDown
<1>1. IInv /\ [Next]_vars
        => [pc[Main] = "wait connected" /\ pc'[Main] = "refused"
               => conn = "down" /\ wpc # "gone"]_vars
  <2> SUFFICES ASSUME IInv, [Next]_vars,
                      pc[Main] = "wait connected", pc'[Main] = "refused"
               PROVE  conn = "down" /\ wpc # "gone"
    BY DEF vars
  <2>2. ~running
    BY ThreadsMove
  <2> QED
    BY <2>2 DEF IInv, ConnectingKnows
<1> QED
    BY <1>1, Invariance, PTL DEF Spec, GivesUpOnlyWhenDown

(***************************************************************************)
(* The exceptions in CallsReturn are deadlocks and no mere delays: each    *)
(* of the four states, once reached, is never left, whatever else          *)
(* happens.                                                                *)
(***************************************************************************)
DeadlocksLast == [][/\ SelfDeadlock => SelfDeadlock'
                    /\ PriorityDeadlock => PriorityDeadlock'
                    /\ CloseDeadlock => CloseDeadlock'
                    /\ LeakDeadlock => LeakDeadlock']_vars

(***************************************************************************)
(* No callback, call or loss of the connection ever ends one of the four   *)
(* deadlocks.                                                              *)
(***************************************************************************)
THEOREM DeadlocksAreForEver == Spec => DeadlocksLast
<1>1. ASSUME IInv, [Next]_vars, SelfDeadlock PROVE SelfDeadlock'
    BY <1>1, ThreadsMove DEF SelfDeadlock
<1>2. ASSUME IInv, [Next]_vars, PriorityDeadlock PROVE PriorityDeadlock'
  <2>1. PICK t \in Thread : pc[t] = "param"
    BY <1>2 DEF PriorityDeadlock
  <2>2. wpc # "idle" /\ mtx # None /\ (wpc = "ack" => gil # None)
    BY <1>2, <2>1, SessionAssumption DEF PriorityDeadlock, IInv, LocksHeld
  <2>3. pc'[t] = "param"
    BY <1>2, <2>1, <2>2, ThreadsMove
  <2>4. wpc' = wpc
    BY <1>2, <2>2
       DEF PriorityDeadlock,
           Next, Connect, Call, CallStep, CallbackStep, StreamEvent, vars,
           flags, tables, sends, locks, worker, StartConnection, StoreRunning,
           StoreConnected, WaitConnected, WaitStreamReady, OpenStream, Send,
           CloseStream, DropStream, Stats, SetPriority, DisconnectForce,
           DisconnectGraceful, Register, LockAndSetParam, PriorityReturn,
           ForgetAckCallback, RunParameterCall, ConnectedNotify, OpenStreams,
           DetachFailed, DetachStream, StreamDone, AckCallback, GoneNotify,
           StartComplete, StartFails, StreamGone, SendComplete, Connected,
           ConnectionGone, HandshakeFails, LoseLink, Destroy, CloseDone
  <2> QED
    BY <1>2, <2>1, <2>3, <2>4 DEF PriorityDeadlock
<1>3. ASSUME IInv, [Next]_vars, CloseDeadlock PROVE CloseDeadlock'
    BY <1>3, SessionAssumption
       DEF CloseDeadlock, LocksHeld, IInv, TypeOK, Connecting,
           Next, Connect, Call, CallStep, CallbackStep, StreamEvent, vars,
           flags, tables, sends, locks, worker, Goto, SetQuic, TakeGil,
           NotifyConnected, MakesCall, Usable, StartConnection, StoreRunning,
           StoreConnected, WaitConnected, WaitStreamReady, OpenStream, Send,
           CloseStream, DropStream, Stats, SetPriority, DisconnectForce,
           DisconnectGraceful, Register, LockAndSetParam, PriorityReturn,
           ForgetAckCallback, RunParameterCall, ConnectedNotify, OpenStreams,
           DetachFailed, DetachStream, StreamDone, AckCallback, GoneNotify,
           StartComplete, StartFails, StreamGone, SendComplete, Connected,
           ConnectionGone, HandshakeFails, LoseLink, Destroy, CloseDone
<1>4. ASSUME IInv, [Next]_vars, LeakDeadlock PROVE LeakDeadlock'
  <2>1. pc[Main] = "closing" /\ \A t \in Thread \ {Main} : pc[t] = "idle"
    BY <1>4 DEF LeakDeadlock, IInv, ConnectingKnows, PastWaits
  <2>2. PICK h \in Handle \ {at} : Leaked(h)
    BY <1>4 DEF LeakDeadlock
  <2>3. quic[h] \in {"opened", "over"}
    BY <2>2 DEF Leaked
  <2>4. pc'[Main] = "closing"
    BY <1>4, <2>1, <2>3, SessionAssumption
       DEF IInv, TypeOK, Connecting,
           Next, Connect, Call, CallStep, CallbackStep, StreamEvent, vars,
           flags, tables, sends, locks, worker, Goto, SetQuic, TakeGil,
           NotifyConnected, MakesCall, Usable, StartConnection, StoreRunning,
           StoreConnected, WaitConnected, WaitStreamReady, OpenStream, Send,
           CloseStream, DropStream, Stats, SetPriority, DisconnectForce,
           DisconnectGraceful, Register, LockAndSetParam, PriorityReturn,
           ForgetAckCallback, RunParameterCall, ConnectedNotify, OpenStreams,
           DetachFailed, DetachStream, StreamDone, AckCallback, GoneNotify,
           StartComplete, StartFails, StreamGone, SendComplete, Connected,
           ConnectionGone, HandshakeFails, LoseLink, Destroy, CloseDone
  <2>5. h # at' /\ Leaked(h)'
    BY <1>4, <2>1, <2>2, <2>3, SessionAssumption
       DEF Leaked, IInv, TypeOK, Connecting,
           Next, Connect, Call, CallStep, CallbackStep, StreamEvent, vars,
           flags, tables, sends, locks, worker, Goto, SetQuic, TakeGil,
           NotifyConnected, MakesCall, Usable, StartConnection, StoreRunning,
           StoreConnected, WaitConnected, WaitStreamReady, OpenStream, Send,
           CloseStream, DropStream, Stats, SetPriority, DisconnectForce,
           DisconnectGraceful, Register, LockAndSetParam, PriorityReturn,
           ForgetAckCallback, RunParameterCall, ConnectedNotify, OpenStreams,
           DetachFailed, DetachStream, StreamDone, AckCallback, GoneNotify,
           StartComplete, StartFails, StreamGone, SendComplete, Connected,
           ConnectionGone, HandshakeFails, LoseLink, Destroy, CloseDone
  <2> QED
    BY <2>4, <2>5 DEF LeakDeadlock
<1>5. IInv /\ [Next]_vars
        => [/\ SelfDeadlock => SelfDeadlock'
            /\ PriorityDeadlock => PriorityDeadlock'
            /\ CloseDeadlock => CloseDeadlock'
            /\ LeakDeadlock => LeakDeadlock']_vars
    BY <1>1, <1>2, <1>3, <1>4
<1> QED
    BY <1>5, Invariance, PTL DEF Spec, DeadlocksLast

=============================================================================
