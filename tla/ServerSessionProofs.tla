------------------------ MODULE ServerSessionProofs ------------------------
(***************************************************************************)
(* Proofs about ServerSession, for any set of connections.                 *)
(***************************************************************************)
EXTENDS ServerSession, TLAPS

(***************************************************************************)
(* A worker holds recv_cb_mtx_ from the moment it enters the receive       *)
(* callback until Python has returned, and only one does; a connection is  *)
(* handed over in the callback for it; before start_server there is none.  *)
(***************************************************************************)
WorkersHold ==
    /\ At("new") => listener = "none"
    /\ \A c \in Conn :
         /\ wpc[c] \in {"callback", "python"} <=> recvMtx = c
         /\ wpc[c] = "accept" <=> conn[c] = "accepting"
         /\ recvMtx = c => conn[c] \in {"up", "closing"}
         /\ At("new") => conn[c] = "none" /\ wpc[c] = "idle"

\* Two application threads, and no other has a program counter.
PcDomain == DOMAIN pc = {Owner, Runner}

\* From the return of set_recv_callback(None) on there is no callback.
Cleared == pc[Owner] \in Stopping => ~cb

(***************************************************************************)
(* A connection is in client_connections_ or in conns_to_close, not both:  *)
(* the destructor moves the former aside, and no accepted connection is in *)
(* either.                                                                 *)
(***************************************************************************)
ListsApart == clients \cap toClose = {}

\* The inductive invariant.
IInv == /\ TypeOK
        /\ PcDomain
        /\ WorkersHold
        /\ Cleared
        /\ SilentOnceCleared
        /\ ListsApart
        /\ ListedAreOpen

(***************************************************************************)
(* Before start_server there is no client, no callback and nothing is      *)
(* listed.                                                                 *)
(***************************************************************************)
LEMMA InitIInv == Init => IInv
<1> SUFFICES ASSUME Init PROVE IInv
    OBVIOUS
<1> USE ServerAssumption
<1>1. DOMAIN pc = {Owner, Runner} /\ pc[Owner] = "new" /\ pc[Runner] = "idle"
    BY ServerAssumption DEF Init
<1>2. {running, cb} \subseteq BOOLEAN
    BY Zenon DEF Init
<1>3. TypeOK
    BY <1>1, <1>2 DEF Init, TypeOK, ConnState
<1> QED
    BY <1>1, <1>3
       DEF Init, IInv, WorkersHold, Cleared, SilentOnceCleared, Stopping,
           ListsApart, ListedAreOpen, PcDomain, At

(***************************************************************************)
(* Every action preserves the invariant.                                   *)
(***************************************************************************)
LEMMA NextIInv == IInv /\ [Next]_vars => IInv'
<1> SUFFICES ASSUME IInv, [Next]_vars PROVE IInv'
    OBVIOUS
<1>0. {running, cb}' \subseteq BOOLEAN
    BY ZenonT(60)
       DEF IInv, TypeOK,
           Next, OwnerStep, Callback, vars, net, sets, locks, Goto, At, Worker,
           Becomes, StartServer, SetRecvCallback, ListenerStop, ShutdownClients,
           ForgetCallback, Destroy, TakeConnections, ListenerClose,
           RegistrationClose, SetBeforeStart, CallSetRecvCallback, EnterRun,
           CheckRunning, CloseConnection, NewConnection, Receive, LoseConnection,
           ShutdownComplete, AcceptConnection, EnterPython, LeavePython
<1> USE <1>0, ServerAssumption
    DEF IInv, TypeOK, PcDomain, WorkersHold, Cleared, SilentOnceCleared, Stopping,
        ListsApart, ListedAreOpen, Open, ConnState,
        net, sets, locks, Goto, At, Worker, Becomes
<1>1. ASSUME StartServer PROVE IInv'
    BY <1>1 DEF StartServer
<1>2. ASSUME SetRecvCallback PROVE IInv'
    BY <1>2 DEF SetRecvCallback
<1>3. ASSUME ListenerStop PROVE IInv'
    BY <1>3 DEF ListenerStop
<1>4. ASSUME ShutdownClients PROVE IInv'
    BY <1>4 DEF ShutdownClients
<1>5. ASSUME ForgetCallback PROVE IInv'
    BY <1>5 DEF ForgetCallback
<1>6. ASSUME Destroy PROVE IInv'
    BY <1>6 DEF Destroy
<1>7. ASSUME TakeConnections PROVE IInv'
    BY <1>7 DEF TakeConnections
<1>8. ASSUME ListenerClose PROVE IInv'
    BY <1>8 DEF ListenerClose
<1>9. ASSUME RegistrationClose PROVE IInv'
    BY <1>9 DEF RegistrationClose
<1>10. ASSUME SetBeforeStart PROVE IInv'
    BY <1>10 DEF SetBeforeStart
<1>11. ASSUME CallSetRecvCallback PROVE IInv'
    BY <1>11 DEF CallSetRecvCallback
<1>12. ASSUME EnterRun PROVE IInv'
    BY <1>12 DEF EnterRun
<1>13. ASSUME CheckRunning PROVE IInv'
    BY <1>13 DEF CheckRunning
<1>14. ASSUME NEW c \in Conn, CloseConnection(c) PROVE IInv'
    BY <1>14 DEF CloseConnection
<1>15. ASSUME NEW c \in Conn, NewConnection(c) PROVE IInv'
    BY <1>15 DEF NewConnection
<1>16. ASSUME NEW c \in Conn, Receive(c) PROVE IInv'
    BY <1>16 DEF Receive
<1>17. ASSUME NEW c \in Conn, LoseConnection(c) PROVE IInv'
    BY <1>17 DEF LoseConnection
<1>18. ASSUME NEW c \in Conn, ShutdownComplete(c) PROVE IInv'
    BY <1>18 DEF ShutdownComplete
<1>19. ASSUME NEW c \in Conn, AcceptConnection(c) PROVE IInv'
    BY <1>19 DEF AcceptConnection
<1>20. ASSUME NEW c \in Conn, EnterPython(c) PROVE IInv'
    BY <1>20 DEF EnterPython
<1>21. ASSUME NEW c \in Conn, LeavePython(c) PROVE IInv'
    BY <1>21 DEF LeavePython
<1>22. ASSUME UNCHANGED vars PROVE IInv'
    BY <1>22 DEF vars
<1> QED
    BY <1>1, <1>2, <1>3, <1>4, <1>5, <1>6, <1>7, <1>8, <1>9, <1>10, <1>11,
       <1>12, <1>13, <1>14, <1>15, <1>16, <1>17, <1>18, <1>19, <1>20, <1>21,
       <1>22
       DEF Next, OwnerStep, Callback

\* Hence the invariant holds in every reachable state.
LEMMA Invariance == Spec => []IInv
<1> QED
    BY InitIInv, NextIInv, PTL DEF Spec

(***************************************************************************)
(* The variables keep their types; in particular Python runs in a worker   *)
(* exactly if that worker has the GIL, and set_recv_callback and the       *)
(* destructor have it throughout.                                          *)
(***************************************************************************)
THEOREM ServerTypeCorrect == Spec => []TypeOK
<1>1. IInv => TypeOK
    BY DEF IInv
<1> QED
    BY <1>1, Invariance, PTL

(***************************************************************************)
(* Once set_recv_callback(None) has returned no worker is in the Python    *)
(* function, for any number of clients: the script may close what the      *)
(* function writes to.                                                     *)
(***************************************************************************)
THEOREM NobodyInPythonOnceCleared == Spec => []SilentOnceCleared
<1>1. IInv => SilentOnceCleared
    BY DEF IInv
<1> QED
    BY <1>1, Invariance, PTL

(***************************************************************************)
(* Neither stop_server nor the destructor touches a connection that has    *)
(* been closed, whatever ends or is accepted meanwhile.                    *)
(***************************************************************************)
THEOREM ServerTouchesOpenHandles == Spec => []ListedAreOpen
<1>1. IInv => ListedAreOpen
    BY DEF IInv
<1> QED
    BY <1>1, Invariance, PTL

(***************************************************************************)
(* The exceptions in StopEnds are ends and no delays: once the owner waits *)
(* for a worker that waits for it, once run() has outlived stop_server, or *)
(* once the destructor has missed a connection, that is so for ever.       *)
(***************************************************************************)
StuckStays == /\ CallbackDeadlock => CallbackDeadlock'
              /\ RunForgotten => RunForgotten'
              /\ HandleMissed => HandleMissed'

StuckForEver == [][StuckStays]_vars

LEMMA NextStuckStays == IInv /\ [Next]_vars => StuckStays
<1> USE ServerAssumption
    DEF IInv, TypeOK, PcDomain, WorkersHold, Open,
        Next, OwnerStep, Callback, vars, net, sets, locks, Goto, At, Worker,
        Becomes, StartServer, SetRecvCallback, ListenerStop, ShutdownClients,
        ForgetCallback, Destroy, TakeConnections, ListenerClose,
        RegistrationClose, SetBeforeStart, CallSetRecvCallback, EnterRun,
        CheckRunning, CloseConnection, NewConnection, Receive, LoseConnection,
        ShutdownComplete, AcceptConnection, EnterPython, LeavePython
<1>1. ASSUME IInv, [Next]_vars, CallbackDeadlock PROVE CallbackDeadlock'
  <2>1. PICK c \in Conn : At("clearing") /\ wpc[c] = "callback"
    BY <1>1 DEF CallbackDeadlock
  <2>2. gil = Owner /\ recvMtx = c
    BY <1>1, <2>1
  <2>3. pc'[Owner] = pc[Owner] /\ wpc'[c] = wpc[c]
    BY <1>1, <2>1, <2>2
  <2> QED
    BY <2>1, <2>3 DEF CallbackDeadlock
<1>2. ASSUME IInv, [Next]_vars, RunForgotten PROVE RunForgotten'
    BY <1>2 DEF RunForgotten
<1>3. ASSUME IInv, [Next]_vars, HandleMissed PROVE HandleMissed'
    BY <1>3 DEF HandleMissed
<1> QED
    BY <1>1, <1>2, <1>3 DEF StuckStays

(***************************************************************************)
(* Nothing a client, a worker or the owner can still do ends one of the    *)
(* three states that keep the server from going away.                      *)
(***************************************************************************)
THEOREM StopExceptionsAreForEver == Spec => StuckForEver
<1>1. IInv /\ [Next]_vars => [StuckStays]_vars
    BY NextStuckStays
<1> QED
    BY <1>1, Invariance, PTL DEF Spec, StuckForEver
=============================================================================
