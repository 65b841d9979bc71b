---------------------------- MODULE ServerSession ----------------------------
(***************************************************************************)
(* A QuicMediaServer from start_server to its destruction, and who waits   *)
(* for whom: the Python thread that owns it, a thread inside run(), one    *)
(* MsQuic worker for each connection, the lock of the receive callback     *)
(* (recv_cb_mtx_) and Python's GIL (src/transport/msquic_transport.cpp,    *)
(* src/api/quic_media_server.cpp, quic_media_py.cpp).                      *)
(*                                                                         *)
(* The owner does what both Python servers do: it sets the callback,       *)
(* serves until Ctrl+C, clears the callback, stops the server and lets go  *)
(* of it.  Sections under mtx_ contain no blocking call, so each is one    *)
(* step and mtx_ is no variable.  The bytes received do not matter here:   *)
(* ServerStreams has them.                                                 *)
(***************************************************************************)
CONSTANTS Conn,    \* the connections that clients may make
          Owner,   \* the Python thread that owns the server
          Runner,  \* a thread that may call run()
          None     \* the owner of a free lock

ASSUME ServerAssumption == /\ Owner # Runner
                           /\ {Owner, Runner, None} \cap Conn = {}
                           /\ None \notin {Owner, Runner}

VARIABLES
  listener,  \* the listener, as MsQuic has it
  conn,      \* each connection, as MsQuic has it (ConnState)
  clients,   \* client_connections_
  toClose,   \* conns_to_close, in the destructor
  running,   \* running_
  cb,        \* whether recv_cb_ holds a Python function
  recvMtx,   \* who holds recv_cb_mtx_
  gil,       \* who holds the GIL across a call or in Python code
  pc,        \* where the two application threads are
  wpc        \* where each connection's worker is in a callback

vars == <<listener, conn, clients, toClose, running, cb, recvMtx, gil, pc, wpc>>

net == <<listener, conn>>
sets == <<clients, toClose>>
locks == <<recvMtx, gil>>

ConnState == {"none",       \* nobody has connected
              "accepting",  \* NEW_CONNECTION is being delivered
              "up",
              "closing",    \* shut down or lost: SHUTDOWN_COMPLETE owed
              "ended",      \* SHUTDOWN_COMPLETE delivered, handle still open
              "closed"}     \* ConnectionClose called, or never ours

Open == {c \in Conn : conn[c] \in {"up", "closing", "ended"}}

Init == /\ listener = "none"
        /\ conn = [c \in Conn |-> "none"]
        /\ clients = {}
        /\ toClose = {}
        /\ running = FALSE
        /\ cb = FALSE
        /\ recvMtx = None
        /\ gil = None
        /\ pc = [t \in {Owner, Runner} |-> IF t = Owner THEN "new" ELSE "idle"]
        /\ wpc = [c \in Conn |-> "idle"]

Goto(t, l) == pc' = [pc EXCEPT ![t] = l]
At(l) == pc[Owner] = l
Worker(c, l) == wpc' = [wpc EXCEPT ![c] = l]
Becomes(c, s) == conn' = [conn EXCEPT ![c] = s]

-----------------------------------------------------------------------------
(* The owner: start, set_recv_callback                                     *)

\* run_vvc_server_live_decode.py sets the callback before start_server,
\* when nothing else runs.
SetBeforeStart ==
    /\ At("new")
    /\ ~cb
    /\ cb' = TRUE
    /\ UNCHANGED <<net, sets, running, locks, pc, wpc>>

\* start_server: registration, configuration, certificate, listener.  Each
\* of them may be refused; the scripts then clear the callback and give up.
StartServer ==
    /\ At("new")
    /\ \/ /\ listener' = "up"
          /\ running' = TRUE
          /\ cb' = cb
          /\ Goto(Owner, "serving")
       \/ /\ cb' = FALSE
          /\ Goto(Owner, "return")
          /\ UNCHANGED <<listener, running>>
    /\ UNCHANGED <<conn, sets, locks, wpc>>

\* The binding of set_recv_callback keeps the GIL: with a function, as
\* run_server.py does once the server is up, or None after Ctrl+C ...
CallSetRecvCallback ==
    /\ At("serving")
    /\ gil = None
    /\ gil' = Owner
    /\ \/ ~cb /\ Goto(Owner, "setting")
       \/ Goto(Owner, "clearing")
    /\ UNCHANGED <<net, sets, running, cb, recvMtx, wpc>>

ClearWithoutLock ==
    /\ pc[Owner] \in {"setting", "clearing"}
    /\ cb' = At("setting")
    /\ gil' = None
    /\ Goto(Owner, IF At("setting") THEN "serving" ELSE "stop")
    /\ UNCHANGED <<net, sets, running, recvMtx, wpc>>

\* ... and set_recv_callback stores it under recv_cb_mtx_.
SetRecvCallback ==
    /\ pc[Owner] \in {"setting", "clearing"}
    /\ recvMtx = None
    /\ cb' = At("setting")
    /\ gil' = None
    /\ Goto(Owner, IF At("setting") THEN "serving" ELSE "stop")
    /\ UNCHANGED <<net, sets, running, recvMtx, wpc>>

-----------------------------------------------------------------------------
(* stop_server(true): called with the GIL released, and once more by the   *)
(* destructor, which Python runs with the GIL held                         *)

\* ListenerStop returns at once: a NEW_CONNECTION may still be under way.
ListenerStop ==
    /\ At("stop")
    /\ listener' = IF listener = "up" THEN "stopped" ELSE listener
    /\ Goto(Owner, "shutdown")
    /\ UNCHANGED <<conn, sets, running, cb, locks, wpc>>

ShutdownQuietly ==
    /\ At("shutdown")
    /\ conn' = [c \in Conn |-> IF c \in clients /\ conn[c] = "up"
                               THEN "closing" ELSE conn[c]]
    /\ running' = FALSE
    /\ Goto(Owner, "forget")
    /\ UNCHANGED <<listener, sets, cb, locks, wpc>>

\* Under mtx_: ConnectionShutdown of every client, which does not wait for
\* the worker, running_ = false and cv_.notify_all().
ShutdownClients ==
    /\ At("shutdown")
    /\ conn' = [c \in Conn |-> IF c \in clients /\ conn[c] = "up"
                               THEN "closing" ELSE conn[c]]
    /\ running' = FALSE
    /\ pc' = [pc EXCEPT ![Owner] = "forget",
                        ![Runner] = IF @ = "waiting" THEN "check" ELSE @]
    /\ UNCHANGED <<listener, sets, cb, locks, wpc>>

\* QuicMediaServer::stop_server drops the callback and returns.
ForgetCallback ==
    /\ At("forget")
    /\ recvMtx = None
    /\ cb' = FALSE
    /\ Goto(Owner, IF gil = Owner THEN "close" ELSE "return")
    /\ UNCHANGED <<net, sets, running, locks, wpc>>

-----------------------------------------------------------------------------
(* The destructors.  A thread inside run() keeps the object alive.         *)

\* ~QuicMediaServer calls stop_server, with the GIL held.
Destroy ==
    /\ At("return")
    /\ pc[Runner] \in {"idle", "done"}
    /\ gil = None
    /\ gil' = Owner
    /\ Goto(Owner, "stop")
    /\ UNCHANGED <<net, sets, running, cb, recvMtx, wpc>>

CopyConnections ==
    /\ At("close")
    /\ toClose' = clients
    /\ Goto(Owner, "closing")
    /\ UNCHANGED <<net, clients, running, cb, locks, wpc>>

\* ~MsQuicTransport moves client_connections_ aside ...
TakeConnections ==
    /\ At("close")
    /\ toClose' = clients
    /\ clients' = {}
    /\ Goto(Owner, "closing")
    /\ UNCHANGED <<net, running, cb, locks, wpc>>

\* ... closes each, which waits for the callback its worker is in ...
CloseConnection(c) ==
    /\ At("closing")
    /\ c \in toClose
    /\ wpc[c] = "idle"
    /\ toClose' = toClose \ {c}
    /\ Becomes(c, "closed")
    /\ UNCHANGED <<listener, clients, running, cb, locks, pc, wpc>>

\* ... then the listener, which waits for its callbacks ...
ListenerClose ==
    /\ At("closing")
    /\ toClose = {}
    /\ \A c \in Conn : wpc[c] # "accept"
    /\ listener' = "closed"
    /\ Goto(Owner, "registration")
    /\ UNCHANGED <<conn, sets, running, cb, locks, wpc>>

\* ... and the registration, which waits until no connection is open.
RegistrationClose ==
    /\ At("registration")
    /\ Open = {}
    /\ gil' = None
    /\ Goto(Owner, "gone")
    /\ UNCHANGED <<net, sets, running, cb, recvMtx, wpc>>

-----------------------------------------------------------------------------
(* run(), on a thread of its own                                           *)

EnterRun ==
    /\ pc[Runner] = "idle"
    /\ pc[Owner] \notin {"new", "gone"}
    /\ gil = None
    /\ running' = TRUE
    /\ Goto(Runner, "check")
    /\ UNCHANGED <<net, sets, cb, locks, wpc>>

\* The predicate of cv_.wait, under mtx_.
CheckRunning ==
    /\ pc[Runner] = "check"
    /\ Goto(Runner, IF running THEN "waiting" ELSE "done")
    /\ UNCHANGED <<net, sets, running, cb, locks, wpc>>

-----------------------------------------------------------------------------
(* The workers                                                             *)

\* NEW_CONNECTION: the callback starts ...
NewConnection(c) ==
    /\ listener = "up"
    /\ conn[c] = "none"
    /\ Becomes(c, "accepting")
    /\ Worker(c, "accept")
    /\ UNCHANGED <<listener, sets, running, cb, locks, pc>>

AcceptUnlisted(c) ==
    /\ wpc[c] = "accept"
    /\ \/ Becomes(c, "up")
       \/ Becomes(c, "closed")
    /\ Worker(c, "idle")
    /\ UNCHANGED <<listener, sets, running, cb, locks, pc>>

\* ... and accepts the connection, under mtx_, unless MsQuic refuses its
\* configuration.
AcceptConnection(c) ==
    /\ wpc[c] = "accept"
    /\ \/ Becomes(c, "up") /\ clients' = clients \cup {c}
       \/ Becomes(c, "closed") /\ clients' = clients
    /\ Worker(c, "idle")
    /\ UNCHANGED <<listener, toClose, running, cb, locks, pc>>

\* RECEIVE, with a whole packet in it: the function start_server registered
\* takes recv_cb_mtx_; without a Python function it returns at once.
Receive(c) ==
    /\ conn[c] \in {"up", "closing"}
    /\ wpc[c] = "idle"
    /\ recvMtx = None
    /\ cb
    /\ recvMtx' = c
    /\ Worker(c, "callback")
    /\ UNCHANGED <<net, sets, running, cb, gil, pc>>

EnterPythonAtOnce(c) ==
    /\ wpc[c] = "callback"
    /\ gil' = c
    /\ Worker(c, "python")
    /\ UNCHANGED <<net, sets, running, cb, recvMtx, pc>>

\* The binding's function takes the GIL, still under recv_cb_mtx_ ...
EnterPython(c) ==
    /\ wpc[c] = "callback"
    /\ gil = None
    /\ gil' = c
    /\ Worker(c, "python")
    /\ UNCHANGED <<net, sets, running, cb, recvMtx, pc>>

\* ... and when Python returns both are released.
LeavePython(c) ==
    /\ wpc[c] = "python"
    /\ gil' = None
    /\ recvMtx' = None
    /\ Worker(c, "idle")
    /\ UNCHANGED <<net, sets, running, cb, pc>>

\* SHUTDOWN_INITIATED_BY_PEER or _BY_TRANSPORT.
LoseConnection(c) ==
    /\ conn[c] = "up"
    /\ Becomes(c, "closing")
    /\ UNCHANGED <<listener, sets, running, cb, locks, pc, wpc>>

\* SHUTDOWN_COMPLETE: under mtx_ the connection leaves client_connections_;
\* its handle stays open.
ShutdownComplete(c) ==
    /\ conn[c] = "closing"
    /\ wpc[c] = "idle"
    /\ Becomes(c, "ended")
    /\ clients' = clients \ {c}
    /\ UNCHANGED <<listener, toClose, running, cb, locks, pc, wpc>>

-----------------------------------------------------------------------------
OwnerStep == \/ StartServer \/ SetRecvCallback
             \/ ListenerStop \/ ShutdownClients \/ ForgetCallback
             \/ Destroy \/ TakeConnections \/ ListenerClose \/ RegistrationClose
             \/ \E c \in Conn : CloseConnection(c)

Callback(c) == AcceptConnection(c) \/ EnterPython(c) \/ LeavePython(c)

Next == \/ SetBeforeStart
        \/ CallSetRecvCallback
        \/ OwnerStep
        \/ EnterRun
        \/ CheckRunning
        \/ \E c \in Conn : \/ NewConnection(c) \/ Receive(c) \/ LoseConnection(c)
                           \/ Callback(c) \/ ShutdownComplete(c)

Spec == Init /\ [][Next]_vars

(***************************************************************************)
(* Running threads go on and the workers work off what is queued.  Nobody  *)
(* has to connect, to send, to leave, to call run() or to press Ctrl+C.    *)
(***************************************************************************)
FairSpec == /\ Spec
            /\ WF_vars(OwnerStep)
            /\ WF_vars(CheckRunning)
            /\ \A c \in Conn : WF_vars(Callback(c)) /\ WF_vars(ShutdownComplete(c))

-----------------------------------------------------------------------------
(* Properties                                                              *)

TypeOK == /\ listener \in {"none", "up", "stopped", "closed"}
          /\ conn \in [Conn -> ConnState]
          /\ clients \subseteq Conn
          /\ toClose \subseteq Conn
          /\ {running, cb} \subseteq BOOLEAN
          /\ recvMtx \in Conn \cup {None}
          /\ gil \in Conn \cup {Owner, None}
          /\ pc[Owner] \in {"new", "serving", "setting", "clearing", "stop",
                            "shutdown", "forget", "return", "close", "closing",
                            "registration", "gone"}
          /\ pc[Runner] \in {"idle", "check", "waiting", "done"}
          /\ wpc \in [Conn -> {"idle", "accept", "callback", "python"}]
          /\ \A c \in Conn : gil = c <=> wpc[c] = "python"
          /\ pc[Owner] \in {"setting", "clearing", "close", "closing",
                            "registration"} => gil = Owner

Stopping == {"stop", "shutdown", "forget", "return", "close", "closing",
             "registration", "gone"}

(***************************************************************************)
(* Once set_recv_callback(None) has returned no worker is in the Python    *)
(* function, or about to enter it: recv_cb_mtx_ is held for as long as     *)
(* Python runs, and run_server.py closes the file its callback writes to.  *)
(***************************************************************************)
SilentOnceCleared ==
    pc[Owner] \in Stopping
        => \A c \in Conn : wpc[c] \notin {"callback", "python"}

(***************************************************************************)
(* "ConnectionClose is exclusively owned by the destructor": whatever ends *)
(* while the owner stops the server, neither stop_server nor the           *)
(* destructor ever touches a handle that has been closed.                  *)
(***************************************************************************)
ListedAreOpen == clients \cup toClose \subseteq Open

(***************************************************************************)
(* stop_server ends a run() that waits when it is called, although another *)
(* lock guards the callback and the destructor has yet to come.            *)
(***************************************************************************)
RunnerWoken ==
    (At("shutdown") /\ pc[Runner] = "waiting") ~> pc[Runner] = "done"

(***************************************************************************)
(* Who can block whom.  After Ctrl+C the server is gone in the end, unless *)
(* the owner waits for recv_cb_mtx_ with the GIL held while a worker waits *)
(* for the GIL with recv_cb_mtx_ held, run() has outlived stop_server, or  *)
(* the destructor has missed a connection: one that had ended before it    *)
(* looked, or one that was accepted after it had.                          *)
(***************************************************************************)
CallbackDeadlock == At("clearing") /\ \E c \in Conn : wpc[c] = "callback"
RunForgotten == At("return") /\ pc[Runner] = "waiting"
HandleMissed == /\ At("registration")
                /\ \E c \in Open : conn[c] = "ended" \/ c \in clients

StopEnds == At("clearing") ~> \/ At("gone")
                              \/ CallbackDeadlock \/ RunForgotten \/ HandleMissed

(***************************************************************************)
(* "Server is running. Press Ctrl+C to stop." (run_server.py:79): the call *)
(* that clears the callback returns.                                       *)
(***************************************************************************)
CtrlCStops == At("clearing") ~> At("stop")
=============================================================================
