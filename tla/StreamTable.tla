---------------------------- MODULE StreamTable ----------------------------
(***************************************************************************)
(* The client side of MsQuicTransport: who owns each stream handle, from   *)
(* StreamOpen to StreamClose (src/transport/msquic_transport.cpp).         *)
(*                                                                         *)
(* Application threads call open_stream, close_stream, drop_stream and     *)
(* disconnect(true); one MsQuic worker thread delivers the events of the   *)
(* connection, one at a time.  A critical section under mtx_ is one step,  *)
(* and so is each MsQuic call made outside it: open_stream is three steps  *)
(* (StreamOpen, StreamStart, registration under mtx_), drop_stream is two  *)
(* (detach under mtx_, StreamShutdown after it), and the two callbacks     *)
(* that close a handle detach it under mtx_ and call StreamClose later.    *)
(*                                                                         *)
(* send and set_stream_priority look a handle up and use it under mtx_;    *)
(* they change nothing here, and CanSend is what they rely on.             *)
(***************************************************************************)
EXTENDS Naturals, Functions

CONSTANTS Handle,      \* the HQUIC stream handles; StreamOpen yields a new one
          Thread,      \* the application threads
          NumStreams,  \* cfg_.num_streams, opened in the CONNECTED callback
          None         \* nullptr

ASSUME TableAssumption == NumStreams \in Nat /\ None \notin Handle

VARIABLES
  connected,  \* connected_
  link,       \* the connection, as MsQuic has it: "up", "lost", then "down"
  quic,       \* each handle, as MsQuic has it (QuicState)
  aborted,    \* handles with a StreamShutdown(ABORT) issued
  streams,    \* streams_: id -> handle, the send-capable streams
  closing,    \* closing_streams_: handles waiting for SHUTDOWN_COMPLETE
  nextId,     \* next_stream_id_
  ready,      \* stream_ready_
  unopened,   \* iterations left in open_and_start_client_streams
  pc,         \* where each thread is in open_stream or drop_stream
  held,       \* the local variable new_stream or stream of that call
  victim      \* the worker's local variable strm_to_close

vars == <<connected, link, quic, aborted, streams, closing, nextId, ready,
          unopened, pc, held, victim>>

QuicState == {"absent",    \* StreamOpen has not returned it yet
              "opened",    \* opened, not started
              "starting",  \* StreamStart accepted, START_COMPLETE to come
              "started",   \* START_COMPLETE was a success
              "failed",    \* START_COMPLETE was a failure: no event follows
              "ended",     \* SHUTDOWN_COMPLETE delivered: no event follows
              "freed"}     \* StreamClose called

Tables == Range(streams) \cup closing

(***************************************************************************)
(* The CONNECTED callback has just set connected_; it opens the configured *)
(* streams before MsQuic delivers anything else.                           *)
(***************************************************************************)
Init == /\ connected = TRUE
        /\ link = "up"
        /\ quic = [h \in Handle |-> "absent"]
        /\ aborted = {}
        /\ streams = [i \in {} |-> None]
        /\ closing = {}
        /\ nextId = 1
        /\ ready = FALSE
        /\ unopened = NumStreams
        /\ pc = [t \in Thread |-> "idle"]
        /\ held = [t \in Thread |-> None]
        /\ victim = None

SetQuic(h, s) == quic' = [quic EXCEPT ![h] = s]
Insert(i, h) == streams' = [j \in DOMAIN streams \cup {i} |->
                              IF j = i THEN h ELSE streams[j]]
Erase(i) == streams' = Restrict(streams, DOMAIN streams \ {i})
EraseHandle(h) == streams' =
                    Restrict(streams, {i \in DOMAIN streams : streams[i] # h})

\* The worker runs one callback at a time.
WorkerIdle == unopened = 0 /\ victim = None

(***************************************************************************)
(* open_and_start_client_streams, one iteration.  The id is taken before   *)
(* StreamOpen; a failure ends the loop, and a handle whose StreamStart     *)
(* failed stays opened.                                                    *)
(***************************************************************************)
PreOpen ==
    /\ unopened > 0
    /\ nextId' = nextId + 1
    /\ \/ \E h \in Handle : /\ quic[h] = "absent"       \* opened and started
                            /\ SetQuic(h, "starting")
                            /\ Insert(nextId, h)
                            /\ unopened' = unopened - 1
       \/ \E h \in Handle : /\ quic[h] = "absent"       \* StreamStart failed
                            /\ SetQuic(h, "opened")
                            /\ unopened' = 0
                            /\ UNCHANGED streams
       \/ /\ unopened' = 0                              \* StreamOpen failed
          /\ UNCHANGED <<quic, streams>>
    /\ UNCHANGED <<connected, link, aborted, closing, ready, pc, held, victim>>

-----------------------------------------------------------------------------
(* Application threads                                                     *)

\* The callers wait for wait_connected and wait_stream_ready first.
Callable(t) == pc[t] = "idle" /\ (NumStreams = 0 \/ ready)

\* open_stream: the check of connected_, then StreamOpen (and SetParam).
OpenStream(t) ==
    /\ Callable(t)
    /\ connected
    /\ \E h \in Handle : /\ quic[h] = "absent"
                         /\ SetQuic(h, "opened")
                         /\ held' = [held EXCEPT ![t] = h]
    /\ pc' = [pc EXCEPT ![t] = "start"]
    /\ UNCHANGED <<connected, link, aborted, streams, closing, nextId, ready,
                   unopened, victim>>

\* open_stream: StreamStart is accepted, or refused and the handle is closed.
StartStream(t) ==
    /\ pc[t] = "start"
    /\ \/ /\ SetQuic(held[t], "starting")
          /\ pc' = [pc EXCEPT ![t] = "register"]
          /\ UNCHANGED held
       \/ /\ SetQuic(held[t], "freed")
          /\ pc' = [pc EXCEPT ![t] = "idle"]
          /\ held' = [held EXCEPT ![t] = None]
    /\ UNCHANGED <<connected, link, aborted, streams, closing, nextId, ready,
                   unopened, victim>>

RegisterReusingId(t) ==
    /\ pc[t] = "register"
    /\ Insert(nextId, held[t])
    /\ pc' = [pc EXCEPT ![t] = "idle"]
    /\ held' = [held EXCEPT ![t] = None]
    /\ UNCHANGED <<connected, link, quic, aborted, closing, nextId, ready,
                   unopened, victim>>

\* open_stream: the id is taken and the handle stored, under mtx_.
Register(t) ==
    /\ pc[t] = "register"
    /\ Insert(nextId, held[t])
    /\ nextId' = nextId + 1
    /\ pc' = [pc EXCEPT ![t] = "idle"]
    /\ held' = [held EXCEPT ![t] = None]
    /\ UNCHANGED <<connected, link, quic, aborted, closing, ready, unopened,
                   victim>>

CloseStreamKeepingEntry(t, i) ==
    /\ Callable(t)
    /\ i \in DOMAIN streams
    /\ closing' = closing \cup {streams[i]}
    /\ UNCHANGED <<connected, link, quic, aborted, streams, nextId, ready,
                   unopened, pc, held, victim>>

\* close_stream: erase, track, StreamShutdown(GRACEFUL), all under mtx_.  The
\* stream does not end of it: the receiver keeps its own direction open.
CloseStream(t, i) ==
    /\ Callable(t)
    /\ i \in DOMAIN streams
    /\ Erase(i)
    /\ closing' = closing \cup {streams[i]}
    /\ UNCHANGED <<connected, link, quic, aborted, nextId, ready, unopened, pc,
                   held, victim>>

\* drop_stream: erase and track under mtx_.
DropStream(t, i) ==
    /\ Callable(t)
    /\ i \in DOMAIN streams
    /\ Erase(i)
    /\ closing' = closing \cup {streams[i]}
    /\ held' = [held EXCEPT ![t] = streams[i]]
    /\ pc' = [pc EXCEPT ![t] = "abort"]
    /\ UNCHANGED <<connected, link, quic, aborted, nextId, ready, unopened,
                   victim>>

AbortStreamClosing(t) ==
    /\ pc[t] = "abort"
    /\ SetQuic(held[t], "freed")
    /\ pc' = [pc EXCEPT ![t] = "idle"]
    /\ held' = [held EXCEPT ![t] = None]
    /\ UNCHANGED <<connected, link, aborted, streams, closing, nextId, ready,
                   unopened, victim>>

\* drop_stream: StreamShutdown(ABORT), after the lock is released.
AbortStream(t) ==
    /\ pc[t] = "abort"
    /\ aborted' = aborted \cup {held[t]}
    /\ pc' = [pc EXCEPT ![t] = "idle"]
    /\ held' = [held EXCEPT ![t] = None]
    /\ UNCHANGED <<connected, link, quic, streams, closing, nextId, ready,
                   unopened, victim>>

\* send and set_stream_priority find a handle to use, under mtx_.
CanSend(i) == connected /\ i \in DOMAIN streams

-----------------------------------------------------------------------------
(* The connection and the events MsQuic delivers                           *)

\* disconnect(true) calls ConnectionShutdown; an idle timeout or the peer may
\* end the connection too.
LoseLink ==
    /\ link = "up"
    /\ link' = "lost"
    /\ UNCHANGED <<connected, quic, aborted, streams, closing, nextId, ready,
                   unopened, pc, held, victim>>

\* START_COMPLETE, success.
StartComplete(h) ==
    /\ WorkerIdle
    /\ quic[h] = "starting"
    /\ link = "up"
    /\ SetQuic(h, "started")
    /\ ready' = TRUE
    /\ UNCHANGED <<connected, link, aborted, streams, closing, nextId,
                   unopened, pc, held, victim>>

StartFailedForgettingErase(h) ==
    /\ WorkerIdle
    /\ quic[h] = "starting"
    /\ link # "up"
    /\ SetQuic(h, "failed")
    /\ ready' = TRUE
    /\ victim' = IF h \in Range(streams) THEN h ELSE None
    /\ UNCHANGED <<connected, link, aborted, streams, closing, nextId,
                   unopened, pc, held>>

\* START_COMPLETE, failure: the handle is looked up in streams_ only.
StartFailed(h) ==
    /\ WorkerIdle
    /\ quic[h] = "starting"
    /\ link # "up"
    /\ SetQuic(h, "failed")
    /\ ready' = TRUE
    /\ EraseHandle(h)
    /\ victim' = IF h \in Range(streams) THEN h ELSE None
    /\ UNCHANGED <<connected, link, aborted, closing, nextId, unopened, pc,
                   held>>

ShutdownCompleteOfActive(h) ==
    /\ WorkerIdle
    /\ quic[h] = "started"
    /\ h \in aborted \/ link # "up"
    /\ SetQuic(h, "ended")
    /\ EraseHandle(h)
    /\ victim' = IF h \in Range(streams) THEN h ELSE None
    /\ UNCHANGED <<connected, link, aborted, closing, nextId, ready, unopened,
                   pc, held>>

\* SHUTDOWN_COMPLETE: both directions are closed.  AppCloseInProgress is never
\* set: the only StreamClose of the application is on a stream not started.
ShutdownComplete(h) ==
    /\ WorkerIdle
    /\ quic[h] = "started"
    /\ h \in aborted \/ link # "up"
    /\ SetQuic(h, "ended")
    /\ EraseHandle(h)
    /\ closing' = closing \ {h}
    /\ victim' = IF h \in Tables THEN h ELSE None
    /\ UNCHANGED <<connected, link, aborted, nextId, ready, unopened, pc, held>>

\* The end of either callback: StreamClose(strm_to_close), outside mtx_.
CloseVictim ==
    /\ victim # None
    /\ SetQuic(victim, "freed")
    /\ victim' = None
    /\ UNCHANGED <<connected, link, aborted, streams, closing, nextId, ready,
                   unopened, pc, held>>

\* The connection's SHUTDOWN_COMPLETE follows that of its streams.
ConnectionShutdownComplete ==
    /\ WorkerIdle
    /\ link = "lost"
    /\ \A h \in Handle : quic[h] # "started"
    /\ link' = "down"
    /\ connected' = FALSE
    /\ UNCHANGED <<quic, aborted, streams, closing, nextId, ready, unopened,
                   pc, held, victim>>

-----------------------------------------------------------------------------
CallStep(t) == StartStream(t) \/ Register(t) \/ AbortStream(t)

Worker == \/ PreOpen
          \/ CloseVictim
          \/ ConnectionShutdownComplete
          \/ \E h \in Handle : \/ StartComplete(h)
                               \/ StartFailed(h)
                               \/ ShutdownComplete(h)

Next == \/ Worker
        \/ LoseLink
        \/ \E t \in Thread : \/ CallStep(t)
                             \/ OpenStream(t)
                             \/ \E i \in DOMAIN streams : \/ CloseStream(t, i)
                                                          \/ DropStream(t, i)

Spec == Init /\ [][Next]_vars

(***************************************************************************)
(* MsQuic owes a SHUTDOWN_COMPLETE to every started stream whose two       *)
(* directions are closed, its worker returns from every callback, and a    *)
(* thread inside a call goes on.  Nobody is obliged to make a call.        *)
(***************************************************************************)
FairSpec == /\ Spec
            /\ WF_vars(CloseVictim)
            /\ \A h \in Handle : WF_vars(ShutdownComplete(h))
            /\ \A t \in Thread : WF_vars(CallStep(t))

-----------------------------------------------------------------------------
(* Properties                                                              *)

TypeOK == /\ connected \in BOOLEAN
          /\ link \in {"up", "lost", "down"}
          /\ quic \in [Handle -> QuicState]
          /\ aborted \subseteq Handle
          /\ DOMAIN streams \subseteq 1 .. nextId - 1
          /\ streams \in [DOMAIN streams -> Handle]
          /\ closing \subseteq Handle
          /\ nextId \in Nat \ {0}
          /\ ready \in BOOLEAN
          /\ unopened \in Nat
          /\ pc \in [Thread -> {"idle", "start", "register", "abort"}]
          /\ held \in [Thread -> Handle \cup {None}]
          /\ victim \in Handle \cup {None}

\* A handle that open_stream has obtained and not stored yet.
Opening(t, h) == pc[t] \in {"start", "register"} /\ held[t] = h

(***************************************************************************)
(* Whatever calls and callbacks interleave, a handle has one owner: one    *)
(* id of streams_, or closing_streams_, or the callback that detached it   *)
(* to close it, or the one open_stream call that has yet to store it.      *)
(* This is why StreamClose is never called twice.                          *)
(***************************************************************************)
OneOwner ==
    /\ \A i, j \in DOMAIN streams : streams[i] = streams[j] => i = j
    /\ Range(streams) \cap closing = {}
    /\ victim \notin Tables
    /\ \A t \in Thread, h \in Handle :
          Opening(t, h) => /\ h \notin Tables \cup {victim}
                           /\ \A u \in Thread : Opening(u, h) => u = t

(***************************************************************************)
(* send and set_stream_priority use what they find in streams_, and        *)
(* close_stream and disconnect call StreamShutdown on it: none of them     *)
(* ever gets a handle that StreamClose has been called on, because the     *)
(* callbacks erase it under mtx_ before they close it.  closing_streams_   *)
(* holds no freed handle either, or the address MsQuic gives to a later    *)
(* stream could be found in it.                                            *)
(***************************************************************************)
TablesHoldOpenHandles ==
    \A h \in Tables : quic[h] \notin {"absent", "opened", "freed"}

(***************************************************************************)
(* The two-step callbacks close only a handle MsQuic has finished with:    *)
(* its SHUTDOWN_COMPLETE, or its failed START_COMPLETE, has been           *)
(* delivered and no application call has closed it in between.             *)
(***************************************************************************)
ClosesOnlyFinished == victim # None => quic[victim] \in {"failed", "ended"}

(***************************************************************************)
(* A stream id means one stream for ever: while it is open it is never     *)
(* bound to another handle, and an id that enters streams_ is larger than  *)
(* every id issued before, so that an application that kept the id of a    *)
(* closed stream cannot send on somebody else's.                           *)
(***************************************************************************)
IdsNeverRebound ==
    [][\A i \in DOMAIN streams' : IF i \in DOMAIN streams
                                    THEN streams'[i] = streams[i]
                                    ELSE i >= nextId /\ i < nextId']_vars

(***************************************************************************)
(* A stream that is dropped, or whose connection is gone, is closed in the *)
(* end, whichever of close_stream, drop_stream and the callbacks got to it *)
(* first.  (A stream whose start MsQuic has not confirmed is another       *)
(* matter: see FailedStartsClosed.)                                        *)
(***************************************************************************)
Doomed(h) == \/ h \in aborted
             \/ link # "up"
             \/ \E t \in Thread : pc[t] = "abort" /\ held[t] = h

DoomedStreamFreed ==
    \A h \in Handle :
        (h \in Tables /\ quic[h] = "started" /\ Doomed(h)) ~> quic[h] = "freed"

(***************************************************************************)
(* The comment at lines 834-836 of the START_COMPLETE handler: a stream    *)
(* whose start failed must be closed there "to prevent handle leak &       *)
(* ConnectionClose hang".  Once the connection is down and every call and  *)
(* callback has returned, no such handle is left.                          *)
(***************************************************************************)
FailedStartsClosed ==
    link = "down" /\ WorkerIdle /\ (\A t \in Thread : pc[t] = "idle")
        => \A h \in Handle : quic[h] # "failed"

(***************************************************************************)
(* The transport keeps the promise of StreamLifecycle.                     *)
(***************************************************************************)
Phase(h) == IF quic[h] = "absent" THEN "unused"
            ELSE IF quic[h] = "freed" THEN "released"
            ELSE IF h \in Range(streams) THEN "usable"
            ELSE IF h \in closing \/ h = victim THEN "draining"
            ELSE "opening"

Lifecycle == INSTANCE StreamLifecycle
                 WITH phase <- [h \in Handle |-> Phase(h)], lastId <- nextId - 1

\* Every step of the transport is a step of the lifecycle, or none.
ImplementsLifecycle == Lifecycle!Spec
=============================================================================
