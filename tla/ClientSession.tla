--------------------------- MODULE ClientSession ---------------------------
(***************************************************************************)
(* The client's connection from start_client to its destruction, and who   *)
(* waits for whom: application threads, mtx_, Python's GIL and the one     *)
(* MsQuic worker thread that runs both the callbacks and the parameter     *)
(* calls (src/transport/msquic_transport.cpp, src/api, quic_media_py.cpp). *)
(*                                                                         *)
(* Two programs use it.  The Python client goes through the binding, opens *)
(* no stream in the CONNECTED callback and has an acknowledgement          *)
(* callback; moq_client calls the transport itself, with num_streams       *)
(* configured streams and without a GIL.                                   *)
(*                                                                         *)
(* One thread, Main, connects (QuicMediaClient::connect); once it has, all *)
(* of them make calls; when no thread is inside one, Main may let go of    *)
(* the client, whose destructor runs with the GIL held.                    *)
(*                                                                         *)
(* A critical section without a blocking call inside is one step whose     *)
(* guard is mtx = None; mtx_ is a variable only because                    *)
(* set_stream_priority and disconnect(false) block while they hold it.     *)
(***************************************************************************)
EXTENDS Naturals, FiniteSets

CONSTANTS Thread,      \* the application threads
          Main,        \* the one that connects
          Handle,      \* the HQUIC stream handles; StreamOpen yields a new one
          NumStreams,  \* the streams that moq_client configures
          MaxCalls,    \* bound: calls made after the connection is up
          None         \* the owner of a free lock, and nullptr

ASSUME SessionAssumption == /\ Main \in Thread
                            /\ NumStreams \in Nat
                            /\ MaxCalls \in Nat
                            /\ None \notin Thread \cup Handle

VARIABLES
  program,    \* which of the two it is, chosen once
  conn,       \* the connection, as MsQuic has it (ConnState)
  quic,       \* each stream handle, as MsQuic has it (QuicState)
  aborted,    \* handles with a StreamShutdown(ABORT) issued
  running,    \* running_
  connected,  \* connected_
  ready,      \* stream_ready_
  streams,    \* the handles in streams_
  closing,    \* closing_streams_
  acks,       \* SEND_COMPLETE events owed for each handle
  ackCb,      \* whether ack_cb_ holds a Python function
  mtx,        \* the thread that holds mtx_
  gil,        \* the thread that holds the GIL across a call into C++
  pc,         \* where each application thread is
  held,       \* the local variable new_stream of its open_stream
  wpc,        \* where the worker is in a callback
  at,         \* the handle of that callback
  calls       \* calls made so far

vars == <<program, conn, quic, aborted, running, connected, ready, streams,
          closing, acks, ackCb, mtx, gil, pc, held, wpc, at, calls>>

flags == <<running, connected, ready>>
tables == <<streams, closing>>
sends == <<acks, ackCb>>
locks == <<mtx, gil>>
worker == <<wpc, at>>

Program == {"python", "moq_client"}

ConnState == {"idle",      \* before ConnectionStart
              "starting",  \* the handshake is under way
              "up",
              "closing",   \* failed, lost or shut down: SHUTDOWN_COMPLETE owed
              "down"}      \* SHUTDOWN_COMPLETE delivered

QuicState == {"unused",    \* StreamOpen has not returned it yet
              "opened",    \* opened, StreamStart refused
              "starting",  \* StreamStart accepted, START_COMPLETE to come
              "up",
              "over",      \* no event follows, StreamClose not called
              "closed"}    \* StreamClose called

Connecting == {"start", "store running", "store connected", "wait connected",
               "waiting", "wait streams"}
Calling == {"register", "lock", "param", "param done", "stats", "disconnect",
            "forget", "closing"}
Callback == {"idle", "notify", "open", "start", "stream", "done", "ack",
             "gone"}

\* The client is called through the binding, and there is a GIL.
Python == program = "python"

\* cfg_.num_streams: QuicMediaClient leaves it at its default.
Configured == IF Python THEN 0 ELSE NumStreams

Init == /\ program \in Program
        /\ conn = "idle"
        /\ quic = [h \in Handle |-> "unused"]
        /\ aborted = {}
        /\ running = FALSE
        /\ connected = FALSE
        /\ ready = FALSE
        /\ streams = {}
        /\ closing = {}
        /\ acks = [h \in Handle |-> 0]
        /\ ackCb \in BOOLEAN /\ (ackCb => Python)
        /\ mtx = None
        /\ gil = None
        /\ pc = [t \in Thread |-> IF t = Main THEN "start" ELSE "idle"]
        /\ held = [t \in Thread |-> None]
        /\ wpc = "idle"
        /\ at = None
        /\ calls = 0

Goto(t, l) == pc' = [pc EXCEPT ![t] = l]
SetQuic(h, s) == quic' = [quic EXCEPT ![h] = s]

\* A call that the binding makes without releasing the GIL.
TakeGil(t) == gil = None /\ gil' = IF Python THEN t ELSE None

-----------------------------------------------------------------------------
(* QuicMediaClient::connect                                                *)

\* start_client up to ConnectionStart, which may be refused.
StartConnection ==
    /\ pc[Main] = "start"
    /\ \/ conn' = "starting" /\ Goto(Main, "store running")
       \/ conn' = conn /\ Goto(Main, "refused")
    /\ UNCHANGED <<program, quic, aborted, flags, tables, sends, locks, held,
                   worker, calls>>

StoreNothing ==
    /\ pc[Main] = "store running"
    /\ Goto(Main, "store connected")
    /\ UNCHANGED <<program, conn, quic, aborted, flags, tables, sends, locks,
                   held, worker, calls>>

\* start_client: running_.store(true), while the callbacks already run.
StoreRunning ==
    /\ pc[Main] = "store running"
    /\ running' = TRUE
    /\ Goto(Main, "store connected")
    /\ UNCHANGED <<program, conn, quic, aborted, connected, ready, tables,
                   sends, locks, held, worker, calls>>

\* start_client: connected_.store(false), and it returns.
StoreConnected ==
    /\ pc[Main] = "store connected"
    /\ connected' = FALSE
    /\ Goto(Main, "wait connected")
    /\ UNCHANGED <<program, conn, quic, aborted, running, ready, tables,
                   sends, locks, held, worker, calls>>

\* wait_connected: the predicate is evaluated under mtx_, which the wait on
\* cv_connected_ releases; a thread that is notified evaluates it again.
WaitConnected ==
    /\ pc[Main] = "wait connected"
    /\ mtx = None
    /\ Goto(Main, IF connected THEN "wait streams"
                  ELSE IF running THEN "waiting"
                  ELSE "refused")
    /\ UNCHANGED <<program, conn, quic, aborted, flags, tables, sends, locks,
                   held, worker, calls>>

WaitNoStreams ==
    /\ pc[Main] = "wait streams"
    /\ Goto(Main, "idle")
    /\ UNCHANGED <<program, conn, quic, aborted, flags, tables, sends, locks,
                   held, worker, calls>>

\* wait_stream_ready: at once if no stream is configured; otherwise
\* stream_ready_, or five seconds without it.
WaitStreamReady ==
    /\ pc[Main] = "wait streams"
    /\ Goto(Main, IF Configured = 0 \/ ready THEN "idle" ELSE "refused")
    /\ UNCHANGED <<program, conn, quic, aborted, flags, tables, sends, locks,
                   held, worker, calls>>

\* cv_connected_.notify_all(), inside a step that holds mtx_.
NotifyConnected == IF pc[Main] = "waiting" THEN Goto(Main, "wait connected")
                                           ELSE UNCHANGED pc

-----------------------------------------------------------------------------
(* Calls of the connected client                                           *)

Usable(t) == /\ pc[t] = "idle"
             /\ pc[Main] \notin Connecting \cup {"refused", "closing", "gone"}

MakesCall(t) == Usable(t) /\ calls < MaxCalls /\ calls' = calls + 1

\* open_stream: StreamOpen and StreamStart, with no lock held; refused if not
\* connected, and by MsQuic (a handle not started is closed at once).
OpenStream(t) ==
    /\ MakesCall(t)
    /\ \/ /\ connected
          /\ \E h \in Handle : /\ quic[h] = "unused"
                               /\ SetQuic(h, "starting")
                               /\ held' = [held EXCEPT ![t] = h]
          /\ Goto(t, "register")
       \/ UNCHANGED <<quic, held, pc>>
    /\ UNCHANGED <<program, conn, aborted, flags, tables, sends, locks,
                   worker>>

\* open_stream: the handle is stored, under mtx_.
Register(t) ==
    /\ pc[t] = "register"
    /\ mtx = None
    /\ streams' = streams \cup {held[t]}
    /\ held' = [held EXCEPT ![t] = None]
    /\ Goto(t, "idle")
    /\ UNCHANGED <<program, conn, quic, aborted, flags, closing, sends, locks,
                   worker, calls>>

\* send: lookup and StreamSend under mtx_; either may fail.
Send(t) ==
    /\ MakesCall(t)
    /\ mtx = None
    /\ \/ /\ connected
          /\ \E h \in streams : acks' = [acks EXCEPT ![h] = @ + 1]
       \/ acks' = acks
    /\ UNCHANGED <<program, conn, quic, aborted, flags, tables, ackCb, locks,
                   pc, held, worker>>

\* close_stream: the stream does not end of it, as the receiver keeps its own
\* direction open.
CloseStream(t) ==
    /\ MakesCall(t)
    /\ mtx = None
    /\ \E h \in streams : /\ streams' = streams \ {h}
                          /\ closing' = closing \cup {h}
    /\ UNCHANGED <<program, conn, quic, aborted, flags, sends, locks, pc,
                   held, worker>>

DropStreamLeavingActive(t) ==
    /\ MakesCall(t)
    /\ mtx = None
    /\ \E h \in streams : /\ closing' = closing \cup {h}
                          /\ aborted' = aborted \cup {h}
    /\ UNCHANGED <<program, conn, quic, streams, flags, sends, locks, pc,
                   held, worker>>

\* drop_stream: StreamShutdown does not wait for the worker.
DropStream(t) ==
    /\ MakesCall(t)
    /\ mtx = None
    /\ \E h \in streams : /\ streams' = streams \ {h}
                          /\ closing' = closing \cup {h}
                          /\ aborted' = aborted \cup {h}
    /\ UNCHANGED <<program, conn, quic, flags, sends, locks, pc, held, worker>>

\* disconnect(true): ConnectionShutdown does not wait for the worker ...
DisconnectForce(t) ==
    /\ MakesCall(t)
    /\ conn' = IF conn = "up" THEN "closing" ELSE conn
    /\ Goto(t, "forget")
    /\ UNCHANGED <<program, quic, aborted, flags, tables, sends, locks, held,
                   worker>>

\* ... then set_ack_callback(nullptr), with no lock.
ForgetAckCallback(t) ==
    /\ pc[t] = "forget"
    /\ ackCb' = FALSE
    /\ Goto(t, "idle")
    /\ UNCHANGED <<program, conn, quic, aborted, flags, tables, acks, locks,
                   held, worker, calls>>

\* disconnect(false): it takes mtx_, asks every stream to shut down and calls
\* wait_stream_shutdown, which locks mtx_ again.  The thread waits for the
\* lock it holds: no step follows.
DisconnectGraceful(t) ==
    /\ MakesCall(t)
    /\ mtx = None
    /\ mtx' = t
    /\ Goto(t, "disconnect")
    /\ UNCHANGED <<program, conn, quic, aborted, flags, tables, sends, gil,
                   held, worker>>

StatsHoldingGil(t) ==
    /\ MakesCall(t)
    /\ TakeGil(t)
    /\ Goto(t, "stats")
    /\ UNCHANGED <<program, conn, quic, aborted, flags, tables, sends, mtx,
                   held, worker>>

\* get_network_stats: GetParam, with no lock held, waits for the worker.
Stats(t) ==
    /\ MakesCall(t)
    /\ Goto(t, "stats")
    /\ UNCHANGED <<program, conn, quic, aborted, flags, tables, sends, locks,
                   held, worker>>

\* set_stream_priority: the binding does not release the GIL for it ...
SetPriority(t) ==
    /\ MakesCall(t)
    /\ TakeGil(t)
    /\ Goto(t, "lock")
    /\ UNCHANGED <<program, conn, quic, aborted, flags, tables, sends, mtx,
                   held, worker>>

\* ... it takes mtx_; an unknown index returns; otherwise SetParam waits for
\* the worker, under mtx_ ...
LockAndSetParam(t) ==
    /\ pc[t] = "lock"
    /\ mtx = None
    /\ \/ streams # {} /\ mtx' = t /\ gil' = gil /\ Goto(t, "param")
       \/ mtx' = mtx /\ gil' = None /\ Goto(t, "idle")
    /\ UNCHANGED <<program, conn, quic, aborted, flags, tables, sends, held,
                   worker, calls>>

\* ... and it returns.
PriorityReturn(t) ==
    /\ pc[t] = "param done"
    /\ mtx' = None
    /\ gil' = None
    /\ Goto(t, "idle")
    /\ UNCHANGED <<program, conn, quic, aborted, flags, tables, sends, held,
                   worker, calls>>

-----------------------------------------------------------------------------
(* The destructor                                                          *)

\* ~MsQuicTransport, when no thread is inside a call: it stores FALSE in
\* both flags and calls ConnectionClose, which waits for the worker: for the
\* callback it is in, and for those that the end of the connection brings.
Destroy ==
    /\ pc[Main] \in {"idle", "refused"}
    /\ \A t \in Thread \ {Main} : pc[t] = "idle"
    /\ mtx = None
    /\ TakeGil(Main)
    /\ running' = FALSE
    /\ connected' = FALSE
    /\ conn' = IF conn \in {"starting", "up"} THEN "closing" ELSE conn
    /\ Goto(Main, "closing")
    /\ UNCHANGED <<program, quic, aborted, ready, tables, sends, mtx, held,
                   worker, calls>>

\* The worker has nothing left to deliver, and no stream handle is open:
\* ConnectionClose returns, and RegistrationClose after it.
CloseDone ==
    /\ pc[Main] = "closing"
    /\ wpc = "idle"
    /\ conn \in {"idle", "down"}
    /\ \A h \in Handle : quic[h] \in {"unused", "closed"}
    /\ gil' = None
    /\ Goto(Main, "gone")
    /\ UNCHANGED <<program, conn, quic, aborted, flags, tables, sends, mtx,
                   held, worker, calls>>

-----------------------------------------------------------------------------
(* The connection, and the worker                                          *)

HandshakeFails ==
    /\ conn = "starting"
    /\ conn' = "closing"
    /\ UNCHANGED <<program, quic, aborted, flags, tables, sends, locks, pc,
                   held, worker, calls>>

LoseLink ==
    /\ conn = "up"
    /\ conn' = "closing"
    /\ UNCHANGED <<program, quic, aborted, flags, tables, sends, locks, pc,
                   held, worker, calls>>

\* CONNECTED: connected_.store(true) ...
Connected ==
    /\ wpc = "idle"
    /\ conn = "starting"
    /\ conn' = "up"
    /\ connected' = TRUE
    /\ wpc' = "notify"
    /\ UNCHANGED <<program, quic, aborted, running, ready, tables, sends,
                   locks, pc, held, at, calls>>

\* ... then cv_connected_.notify_all() under mtx_ ...
ConnectedNotify ==
    /\ wpc = "notify"
    /\ mtx = None
    /\ NotifyConnected
    /\ wpc' = "open"
    /\ UNCHANGED <<program, conn, quic, aborted, flags, tables, sends, locks,
                   held, at, calls>>

\* ... then open_and_start_client_streams, without mtx_: of the configured
\* streams it starts and stores all, or those before the first failure; a
\* handle whose StreamStart failed is left open.  The caller ignores it.
OpenStreams ==
    /\ wpc = "open"
    /\ IF streams = {} /\ Configured > 0
         THEN \E S, F \in SUBSET {h \in Handle : quic[h] = "unused"} :
                 /\ S \cap F = {}
                 /\ Cardinality(F) <= 1
                 /\ Cardinality(S) + Cardinality(F) <= Configured
                 /\ streams' = S
                 /\ quic' = [h \in Handle |-> IF h \in S THEN "starting"
                                             ELSE IF h \in F THEN "opened"
                                             ELSE quic[h]]
         ELSE UNCHANGED <<streams, quic>>
    /\ wpc' = "idle"
    /\ UNCHANGED <<program, conn, aborted, flags, closing, sends, locks, pc,
                   held, at, calls>>

\* START_COMPLETE, success.
StartComplete(h) ==
    /\ wpc = "idle"
    /\ quic[h] = "starting"
    /\ conn = "up"
    /\ SetQuic(h, "up")
    /\ ready' = TRUE
    /\ UNCHANGED <<program, conn, aborted, running, connected, tables, sends,
                   locks, pc, held, worker, calls>>

\* START_COMPLETE, failure: the callback starts ...
StartFails(h) ==
    /\ wpc = "idle"
    /\ quic[h] = "starting"
    /\ conn # "up"
    /\ SetQuic(h, "over")
    /\ wpc' = "start"
    /\ at' = h
    /\ UNCHANGED <<program, conn, aborted, flags, tables, sends, locks, pc,
                   held, calls>>

\* ... takes mtx_ to look the handle up in streams_, closes it if it is
\* there, and stores TRUE in stream_ready_ all the same.
DetachFailed ==
    /\ wpc = "start"
    /\ mtx = None
    /\ streams' = streams \ {at}
    /\ IF at \in streams THEN SetQuic(at, "closed") ELSE UNCHANGED quic
    /\ ready' = TRUE
    /\ wpc' = "idle"
    /\ at' = None
    /\ UNCHANGED <<program, conn, aborted, running, connected, closing, sends,
                   locks, pc, held, calls>>

\* A stream's SHUTDOWN_COMPLETE: the callback starts ...
StreamGone(h) ==
    /\ wpc = "idle"
    /\ quic[h] = "up"
    /\ h \in aborted \/ conn # "up"
    /\ acks[h] = 0
    /\ SetQuic(h, "over")
    /\ wpc' = "stream"
    /\ at' = h
    /\ UNCHANGED <<program, conn, aborted, flags, tables, sends, locks, pc,
                   held, calls>>

\* ... takes mtx_ to detach the handle, and closes it ...
DetachStream ==
    /\ wpc = "stream"
    /\ mtx = None
    /\ streams' = streams \ {at}
    /\ closing' = closing \ {at}
    /\ IF at \in streams \cup closing THEN SetQuic(at, "closed")
                                     ELSE UNCHANGED quic
    /\ wpc' = "done"
    /\ at' = None
    /\ UNCHANGED <<program, conn, aborted, flags, sends, locks, pc, held,
                   calls>>

\* ... and takes mtx_ again to see whether any stream is left.
StreamDone ==
    /\ wpc = "done"
    /\ mtx = None
    /\ wpc' = "idle"
    /\ UNCHANGED <<program, conn, quic, aborted, flags, tables, sends, locks,
                   pc, held, at, calls>>

\* SEND_COMPLETE: the callback starts, and finds ack_cb_ set or not ...
SendComplete(h) ==
    /\ wpc = "idle"
    /\ acks[h] > 0
    /\ acks' = [acks EXCEPT ![h] = @ - 1]
    /\ wpc' = IF ackCb THEN "ack" ELSE "idle"
    /\ UNCHANGED <<program, conn, quic, aborted, flags, tables, ackCb, locks,
                   pc, held, at, calls>>

\* ... and the binding's function takes the GIL for Python's.
AckCallback ==
    /\ wpc = "ack"
    /\ gil = None
    /\ wpc' = "idle"
    /\ UNCHANGED <<program, conn, quic, aborted, flags, tables, sends, locks,
                   pc, held, at, calls>>

\* The connection's SHUTDOWN_COMPLETE: connected_.store(false) ...
ConnectionGone ==
    /\ wpc = "idle"
    /\ conn = "closing"
    /\ \A h \in Handle : quic[h] # "up" /\ acks[h] = 0
    /\ conn' = "down"
    /\ connected' = FALSE
    /\ wpc' = "gone"
    /\ UNCHANGED <<program, quic, aborted, running, ready, tables, sends,
                   locks, pc, held, at, calls>>

GoneNotifyStillRunning ==
    /\ wpc = "gone"
    /\ mtx = None
    /\ NotifyConnected
    /\ wpc' = "idle"
    /\ UNCHANGED <<program, conn, quic, aborted, flags, tables, sends, locks,
                   held, at, calls>>

\* ... then running_.store(false) and notify_all() under mtx_.
GoneNotify ==
    /\ wpc = "gone"
    /\ mtx = None
    /\ running' = FALSE
    /\ NotifyConnected
    /\ wpc' = "idle"
    /\ UNCHANGED <<program, conn, quic, aborted, connected, ready, tables,
                   sends, locks, held, at, calls>>

\* The worker carries out a GetParam or a SetParam that a thread waits for.
RunParameterCall(t) ==
    /\ wpc = "idle"
    /\ \/ pc[t] = "stats" /\ Goto(t, "idle")
       \/ pc[t] = "param" /\ Goto(t, "param done")
    /\ UNCHANGED <<program, conn, quic, aborted, flags, tables, sends, locks,
                   held, worker, calls>>

-----------------------------------------------------------------------------
Connect == \/ StartConnection \/ StoreRunning \/ StoreConnected
           \/ WaitConnected \/ WaitStreamReady

Call(t) == \/ OpenStream(t) \/ Send(t) \/ CloseStream(t) \/ DropStream(t)
           \/ Stats(t) \/ SetPriority(t)
           \/ DisconnectForce(t) \/ DisconnectGraceful(t)

CallStep(t) == \/ Register(t) \/ LockAndSetParam(t) \/ PriorityReturn(t)
               \/ ForgetAckCallback(t)

CallbackStep == \/ ConnectedNotify \/ OpenStreams
                \/ DetachFailed \/ DetachStream \/ StreamDone
                \/ AckCallback \/ GoneNotify

StreamEvent(h) == \/ StartComplete(h) \/ StartFails(h)
                  \/ StreamGone(h) \/ SendComplete(h)

Next == \/ Connect
        \/ CallbackStep
        \/ Connected
        \/ ConnectionGone
        \/ HandshakeFails
        \/ LoseLink
        \/ Destroy
        \/ CloseDone
        \/ \E h \in Handle : StreamEvent(h)
        \/ \E t \in Thread : Call(t) \/ CallStep(t) \/ RunParameterCall(t)

Spec == Init /\ [][Next]_vars

(***************************************************************************)
(* Running threads go on, a handshake ends one way or the other, and the   *)
(* worker works off what is queued: each kind of event in its turn, and    *)
(* parameter calls among them.  Nobody has to make a call, to let go of    *)
(* the client or to lose the link.                                         *)
(***************************************************************************)
FairSpec ==
    /\ Spec
    /\ WF_vars(Connect)
    /\ WF_vars(CallbackStep)
    /\ WF_vars(Connected \/ HandshakeFails)
    /\ WF_vars(ConnectionGone)
    /\ WF_vars(CloseDone)
    /\ \A h \in Handle : WF_vars(StreamEvent(h))
    /\ \A t \in Thread : WF_vars(CallStep(t)) /\ SF_vars(RunParameterCall(t))

-----------------------------------------------------------------------------
(* Properties                                                              *)

TypeOK == /\ program \in Program
          /\ conn \in ConnState
          /\ quic \in [Handle -> QuicState]
          /\ aborted \subseteq Handle
          /\ {running, connected, ready, ackCb} \subseteq BOOLEAN
          /\ streams \subseteq Handle
          /\ closing \subseteq Handle \ streams
          /\ acks \in [Handle -> 0 .. MaxCalls]
          /\ mtx \in Thread \cup {None}
          /\ gil \in Thread \cup {None}
          /\ pc \in [Thread -> Connecting \cup Calling \cup
                            {"idle", "refused", "gone"}]
          /\ held \in [Thread -> Handle \cup {None}]
          /\ wpc \in Callback
          /\ at \in Handle \cup {None}
          /\ calls \in 0 .. MaxCalls

(***************************************************************************)
(* The CONNECTED callback fills streams_ without mtx_, and it wakes        *)
(* wait_connected before: wait_stream_ready has to keep every thread from  *)
(* being inside a call, or about to make one, until it has done so.  This  *)
(* is about configured streams; without one the callback stores nothing    *)
(* and calls may run beside the rest of it.                                *)
(***************************************************************************)
OpensAlone ==
    wpc = "open" /\ Configured > 0
        => \A t \in Thread : ~Usable(t) /\ pc[t] \notin Calling \ {"closing"}

(***************************************************************************)
(* wait_connected gives up only on a connection that has ended: start and  *)
(* callbacks store running_ and connected_ in any order, but running_ is   *)
(* FALSE under mtx_ only when SHUTDOWN_COMPLETE has been delivered.        *)
(***************************************************************************)
GivesUpOnlyWhenDown ==
    [][pc[Main] = "wait connected" /\ pc'[Main] = "refused"
           => conn = "down" /\ wpc # "gone"]_vars

(***************************************************************************)
(* No wakeup is lost: if start_client returns before MsQuic's first        *)
(* callback, wait_connected returns, however the handshake ends.           *)
(***************************************************************************)
ConnectDecides ==
    (pc[Main] = "wait connected" /\ running /\ conn = "starting")
        ~> pc[Main] \notin {"wait connected", "waiting"}

(***************************************************************************)
(* Who can block whom.  A call returns, and the destructor too, except in  *)
(* these cases: disconnect(false) has taken mtx_ for ever;                 *)
(* set_stream_priority waits for the worker while the worker's callback    *)
(* waits for the lock, or wants the GIL, that it holds; the destructor,    *)
(* with the GIL held, waits for a worker whose acknowledgement callback    *)
(* wants it; or it waits for a stream handle that nothing will close: one  *)
(* whose StreamStart was refused in the CONNECTED callback, or one whose   *)
(* last event came when it was in neither table, or in the wrong one.      *)
(***************************************************************************)
SelfDeadlock == \E t \in Thread : pc[t] = "disconnect"
PriorityDeadlock ==
    /\ wpc \in {"notify", "start", "stream", "done", "ack", "gone"}
    /\ \E t \in Thread : pc[t] = "param"
CloseDeadlock == pc[Main] = "closing" /\ wpc = "ack"
Leaked(h) == \/ quic[h] = "opened"
             \/ quic[h] = "over" /\ h \in streams \cup closing
LeakDeadlock == pc[Main] = "closing" /\ \E h \in Handle \ {at} : Leaked(h)

CallsReturn ==
    \A t \in Thread :
        pc[t] \in Calling ~> \/ pc[t] \in {"idle", "gone"}
                             \/ SelfDeadlock \/ PriorityDeadlock
                             \/ CloseDeadlock \/ LeakDeadlock

(***************************************************************************)
(* What msquic_transport.hpp says of three calls, taken together.  Of      *)
(* wait_connected: "@return true if connected, false if initialization was *)
(* aborted or failed."  Of set_stream_priority: "@return true on success,  *)
(* false on failure."  Of disconnect: "otherwise, waits for graceful       *)
(* shutdown", for at most the 5000 ms it gives wait_stream_shutdown.       *)
(* Each of them returns.                                                   *)
(***************************************************************************)
DocumentedCallsReturn ==
    \A t \in Thread :
        pc[t] \in {"wait connected", "waiting", "lock", "param", "disconnect"}
            ~> pc[t] \in {"wait streams", "refused", "idle"}
=============================================================================
