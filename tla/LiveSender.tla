----------------------------- MODULE LiveSender -----------------------------
(***************************************************************************)
(* The live client while it streams one video: live_streaming and          *)
(* process_video (src/python/live_streaming_client.py), with ReadyQueue    *)
(* and the objects of live_streaming_client_util.py.                       *)
(*                                                                         *)
(* Three threads: the source releases frames, the feature worker looks at  *)
(* each of them, and the gate takes objects from the queue and sends them, *)
(* as much at a time as the congestion window leaves room for.             *)
(*                                                                         *)
(* The timed waits (event.wait, the sleeps, the frame interval) are left   *)
(* out: they only decide how soon a loop comes round.                      *)
(***************************************************************************)
EXTENDS Naturals, Sequences

CONSTANTS NumSubpics,  \* len(sp_streams)
          NumConfigs,  \* the sub-pictures whose config data is not empty
          NumFrames,   \* frame_count
          Sent,        \* the <<frame, sub-picture>> whose data is not empty
          Size,        \* wire_size; the header alone is not empty
          MaxBudget,   \* bound: cwnd_bytes - bytes_in_flight
          None         \* active = None

Subpic == 0 .. NumSubpics - 1
Common == NumSubpics
Stream == 0 .. NumSubpics
Frame == 0 .. NumFrames - 1

\* An object is the n-th of its stream, a byte the one at an offset of it.
Object(s, n) == [stream |-> s, n |-> n]
Objects == [stream : Stream, n : Nat]
Byte == [n : Nat, at : 0 .. Size - 1]

ASSUME SenderAssumption ==
    /\ NumSubpics \in Nat \ {0}
    /\ NumConfigs \in 0 .. NumSubpics
    /\ NumFrames \in Nat \ {0}
    /\ Sent \subseteq Frame \X Subpic
    /\ Size \in Nat \ {0}
    /\ MaxBudget \in Nat \ {0}
    /\ None \notin Objects

VARIABLES
  src,       \* where the main thread is
  fid,       \* the frame it releases next
  sid,       \* the sub-picture it makes an object of next, ...
  objs,      \* ... and those it has made of this frame
  queue,     \* ReadyQueue
  finished,  \* the event finished
  gate,      \* where the gate thread is
  active,    \* the object it is sending
  offset,    \* that object's offset
  budget,    \* what it has computed from the network state
  jobs,      \* feature_queue; the worker stops at None
  unfinished,\* jobs put and not marked done
  worker,    \* where the feature worker is
  noJobs,    \* the event feature_finished
  lost,      \* the connection is gone
  open,      \* streams with is_active set
  wire       \* stream -> the bytes given to send_raw

vars == <<src, fid, sid, objs, queue, finished, gate, active, offset, budget, jobs,
          unfinished, worker, noJobs, lost, open, wire>>

building == <<sid, objs>>

source == <<src, fid, sid, objs, finished, noJobs>>
sending == <<gate, active, offset, budget, wire>>
features == <<jobs, unfinished, worker>>

Init == /\ src = "init"
        /\ fid = 0
        /\ sid = 0
        /\ objs = <<>>
        /\ queue = <<>>
        /\ finished = FALSE
        /\ gate = "loop"
        /\ active = None
        /\ offset = 0
        /\ budget = 0
        /\ jobs = <<>>
        /\ unfinished = 0
        /\ worker = "loop"
        /\ noJobs = FALSE
        /\ lost = FALSE
        /\ open = Stream
        /\ wire = [s \in Stream |-> <<>>]

-----------------------------------------------------------------------------
(* The main thread                                                         *)

InitObject == Object(Common, 0)

\* build_config_objects, for the sub-pictures that have config data, in order.
ConfigObjects == [i \in 1 .. NumConfigs |-> Object(Common, i)]

PushInit ==
    /\ src = "init"
    /\ queue' = Append(queue, InitObject)
    /\ src' = "configs"
    /\ UNCHANGED <<fid, building, finished, noJobs, sending, features, lost, open>>

PushConfigs ==
    /\ src = "configs"
    /\ queue' = queue \o ConfigObjects
    /\ src' = "wait queue"
    /\ UNCHANGED <<fid, building, finished, noJobs, sending, features, lost, open>>

\* The queue is empty; the gate may still have the last object at hand.
QueueEmpty ==
    /\ src = "wait queue"
    /\ queue = <<>>
    /\ src' = "release"
    /\ UNCHANGED <<fid, building, queue, finished, noJobs, sending, features, lost, open>>

\* A frame is released: its feature job is put ...
ReleaseFrame ==
    /\ src = "release"
    /\ fid < NumFrames
    /\ jobs' = Append(jobs, fid)
    /\ unfinished' = unfinished + 1
    /\ src' = "build"
    /\ UNCHANGED <<fid, building, queue, finished, noJobs, sending, worker, lost, open>>

\* ... build_frame_objects makes an object of each sub-picture, in their order,
\* but of those without data ...
BuildObject ==
    /\ src = "build"
    /\ sid < NumSubpics
    /\ objs' = IF sid \in open /\ <<fid, sid>> \in Sent
                 THEN Append(objs, Object(sid, fid))
                 ELSE objs
    /\ sid' = sid + 1
    /\ UNCHANGED <<src, fid, queue, finished, noJobs, sending, features, lost, open>>

\* ... and raises on a frame id that does not match; process_video closes the
\* streams on its way out.
SourceRaises ==
    /\ src = "build"
    /\ sid < NumSubpics
    /\ sid \in open
    /\ src' = "raised"
    /\ UNCHANGED <<fid, building, queue, finished, noJobs, sending, features, lost, open>>

\* The objects enter the sender's queue together.
PushFrame ==
    /\ src = "build"
    /\ sid = NumSubpics
    /\ queue' = queue \o objs
    /\ fid' = fid + 1
    /\ sid' = 0
    /\ objs' = <<>>
    /\ src' = "release"
    /\ UNCHANGED <<finished, noJobs, sending, features, lost, open>>

\* feature_queue.join() returns, and feature_finished is set.
FeaturesDone ==
    /\ src = "release"
    /\ fid = NumFrames
    /\ unfinished = 0
    /\ noJobs' = TRUE
    /\ src' = "stop worker"
    /\ UNCHANGED <<fid, building, queue, finished, sending, features, lost, open>>

\* feature_queue.put(None)
StopWorker ==
    /\ src = "stop worker"
    /\ jobs' = Append(jobs, None)
    /\ unfinished' = unfinished + 1
    /\ src' = "join worker"
    /\ UNCHANGED <<fid, building, queue, finished, noJobs, sending, worker, lost, open>>

\* feature_thread.join() returns; then finished.set().
FinishSender ==
    /\ src = "join worker"
    /\ worker = "ended"
    /\ finished' = TRUE
    /\ src' = "join gate"
    /\ UNCHANGED <<fid, building, queue, noJobs, sending, features, lost, open>>

\* sender_thread.join() returns.
JoinGate ==
    /\ src = "join gate"
    /\ gate = "ended"
    /\ src' = "close"
    /\ UNCHANGED <<fid, building, queue, finished, noJobs, sending, features, lost, open>>

\* process_video: the common stream is closed, then the others in their order.
CloseOrder(s) == IF s = Common THEN 0 ELSE s + 1

CloseStream ==
    /\ src \in {"close", "raised"}
    /\ \E s \in open : /\ \A r \in open : CloseOrder(s) <= CloseOrder(r)
                       /\ open' = open \ {s}
    /\ UNCHANGED <<source, queue, sending, features, lost>>

-----------------------------------------------------------------------------
(* The gate: sender_gate_thread_timed                                      *)

GateLoopForgettingActive ==
    /\ gate = "loop"
    /\ gate' = IF finished /\ queue = <<>> THEN "ended"
               ELSE IF active = None THEN "pop"
               ELSE "stats"
    /\ UNCHANGED <<source, queue, active, offset, budget, wire, features, lost, open>>

\* The condition of the loop.
GateLoop ==
    /\ gate = "loop"
    /\ gate' = IF finished /\ queue = <<>> /\ active = None THEN "ended"
               ELSE IF active = None THEN "pop"
               ELSE "stats"
    /\ UNCHANGED <<source, queue, active, offset, budget, wire, features, lost, open>>

\* queue.pop(), under its lock; with nothing to send the gate waits a little.
GatePop ==
    /\ gate = "pop"
    /\ IF queue = <<>>
         THEN gate' = "loop" /\ UNCHANGED <<queue, active, offset>>
         ELSE /\ active' = Head(queue)
              /\ queue' = Tail(queue)
              /\ offset' = 0
              /\ gate' = "stats"
    /\ UNCHANGED <<source, budget, wire, features, lost, open>>

\* get_network_state: the window has room ...
GateBudget ==
    /\ gate = "stats"
    /\ budget' \in 1 .. MaxBudget
    /\ gate' = "send"
    /\ UNCHANGED <<source, queue, active, offset, wire, features, lost, open>>

\* ... or none, or the statistics fail: the gate sleeps and tries again.
GateNoBudget ==
    /\ gate = "stats"
    /\ gate' = "loop"
    /\ UNCHANGED <<source, queue, active, offset, budget, wire, features, lost, open>>

ChunkLen == IF Size - offset < budget THEN Size - offset ELSE budget

Bytes(o, from, n) == [i \in 1 .. n |-> [n |-> o.n, at |-> from + i - 1]]

GateSendKeepingOffset ==
    /\ gate = "send"
    /\ ~lost /\ active.stream \in open
    /\ wire' = [wire EXCEPT ![active.stream] =
                   @ \o Bytes(active, offset, ChunkLen)]
    /\ active' = IF offset + ChunkLen = Size THEN None ELSE active
    /\ offset' = offset + ChunkLen
    /\ budget' = 0
    /\ gate' = "loop"
    /\ UNCHANGED <<source, queue, features, lost, open>>

GateSendOnce ==
    /\ gate = "send"
    /\ ~lost /\ active.stream \in open
    /\ wire' = [wire EXCEPT ![active.stream] =
                   @ \o Bytes(active, offset, ChunkLen)]
    /\ active' = None
    /\ offset' = 0
    /\ budget' = 0
    /\ gate' = "loop"
    /\ UNCHANGED <<source, queue, features, lost, open>>

\* send_chunk gives send_raw one chunk; when it was the last the object is done.
GateSend ==
    /\ gate = "send"
    /\ ~lost /\ active.stream \in open
    /\ wire' = [wire EXCEPT ![active.stream] =
                   @ \o Bytes(active, offset, ChunkLen)]
    /\ IF offset + ChunkLen = Size
         THEN active' = None /\ offset' = 0
         ELSE active' = active /\ offset' = offset + ChunkLen
    /\ budget' = 0
    /\ gate' = "loop"
    /\ UNCHANGED <<source, queue, features, lost, open>>

GateSendFailsSkipping ==
    /\ gate = "send"
    /\ budget' = 0
    /\ offset' = 0
    /\ active' = None
    /\ gate' = "loop"
    /\ UNCHANGED <<source, queue, wire, features, lost, open>>

\* send_chunk returns False: the chunk is tried again, from the same offset.
GateSendFails ==
    /\ gate = "send"
    /\ budget' = 0
    /\ gate' = "loop"
    /\ UNCHANGED <<source, queue, active, offset, wire, features, lost, open>>

-----------------------------------------------------------------------------
(* The feature worker                                                      *)

WorkerLoop ==
    /\ worker = "loop"
    /\ worker' = IF noJobs /\ jobs = <<>> THEN "ended" ELSE "get"
    /\ UNCHANGED <<source, queue, sending, jobs, unfinished, lost, open>>

\* feature_queue.get: a job, the end, or Empty after its timeout.
WorkerGet ==
    /\ worker = "get"
    /\ IF jobs = <<>>
         THEN worker' = "loop" /\ UNCHANGED <<jobs, unfinished>>
         ELSE /\ jobs' = Tail(jobs)
              /\ IF Head(jobs) = None
                   THEN worker' = "ended" /\ unfinished' = unfinished - 1
                   ELSE worker' = "extract" /\ UNCHANGED unfinished
    /\ UNCHANGED <<source, queue, sending, lost, open>>

WorkerDoneForgettingTask ==
    /\ worker = "extract"
    /\ worker' = "loop"
    /\ UNCHANGED <<source, queue, sending, jobs, unfinished, lost, open>>

\* Features are extracted and collected, and task_done is called.
WorkerDone ==
    /\ worker = "extract"
    /\ worker' = "loop"
    /\ unfinished' = unfinished - 1
    /\ UNCHANGED <<source, queue, sending, jobs, lost, open>>

\* reader.read or extract raises (a frame or a mask is missing).
WorkerRaises ==
    /\ worker = "extract"
    /\ worker' = "dead"
    /\ UNCHANGED <<source, queue, sending, jobs, unfinished, lost, open>>

LoseConnection ==
    /\ ~lost
    /\ lost' = TRUE
    /\ UNCHANGED <<source, queue, sending, features, open>>

-----------------------------------------------------------------------------
Source == \/ PushInit \/ PushConfigs \/ QueueEmpty \/ ReleaseFrame
          \/ BuildObject \/ PushFrame \/ FeaturesDone \/ StopWorker \/ FinishSender
          \/ JoinGate \/ CloseStream

Gate == GateLoop \/ GatePop \/ GateBudget \/ GateNoBudget \/ GateSend \/ GateSendFails

Worker == WorkerLoop \/ WorkerGet \/ WorkerDone \/ WorkerRaises

Next == Source \/ SourceRaises \/ Gate \/ Worker \/ LoseConnection

Spec == Init /\ [][Next]_vars

(***************************************************************************)
(* The threads run; acknowledgements make room in the window again and     *)
(* again, and a connection that is up takes the chunk in the end.          *)
(***************************************************************************)
FairSpec == /\ Spec
            /\ WF_vars(Source)
            /\ WF_vars(Gate) /\ SF_vars(GateBudget) /\ SF_vars(GateSend)
            /\ WF_vars(Worker)

-----------------------------------------------------------------------------
(* Properties                                                              *)

TypeOK ==
    /\ src \in {"init", "configs", "wait queue", "release", "build", "raised",
                "stop worker", "join worker", "join gate", "close"}
    /\ fid \in 0 .. NumFrames
    /\ sid \in 0 .. NumSubpics
    /\ queue \in Seq(Objects) /\ objs \in Seq(Objects)
    /\ gate \in {"loop", "pop", "stats", "send", "ended"}
    /\ active \in Objects \cup {None}
    /\ gate \in {"stats", "send"} => active # None
    /\ offset \in 0 .. Size - 1
    /\ budget \in 0 .. MaxBudget
    /\ jobs \in Seq(Frame \cup {None})
    /\ unfinished \in 0 .. NumFrames + 1
    /\ worker \in {"loop", "get", "extract", "ended", "dead"}
    /\ {finished, noJobs, lost} \subseteq BOOLEAN
    /\ open \subseteq Stream
    /\ wire \in [Stream -> Seq(Byte)]

\* The objects a stream is to carry: INIT and the CONFIGs, or the frames that
\* have data of the sub-picture.
Numbers(s) == IF s = Common THEN 0 .. NumConfigs
                            ELSE {f \in Frame : <<f, s>> \in Sent}

\* The byte after x is the next of its object, or the first of the next one.
Follows(s, x, y) ==
    IF x.at < Size - 1
      THEN y.n = x.n /\ y.at = x.at + 1
      ELSE y.at = 0 /\ x.n < y.n /\ ~\E n \in Numbers(s) : x.n < n /\ n < y.n

FirstByte(s, x) == x.at = 0 /\ \A n \in Numbers(s) : x.n <= n

LastByte(s) == wire[s][Len(wire[s])]

\* The stream has got the last byte of its last object.
Whole(s) == IF wire[s] = <<>>
              THEN Numbers(s) = {}
              ELSE LastByte(s).at = Size - 1 /\ \A n \in Numbers(s) : n <= LastByte(s).n

(***************************************************************************)
(* However the window cuts an object into chunks, and however often a      *)
(* chunk is refused and tried again, a stream gets the bytes of its        *)
(* objects in order, with none of them missing or sent twice: a receiver   *)
(* that reads headers and payloads from it never loses its place.          *)
(***************************************************************************)
WireInOrder == \A s \in Stream :
    /\ \A i \in DOMAIN wire[s] : wire[s][i].n \in Numbers(s)
    /\ wire[s] # <<>> => FirstByte(s, wire[s][1])
    /\ \A i \in 1 .. Len(wire[s]) - 1 : Follows(s, wire[s][i], wire[s][i + 1])

(***************************************************************************)
(* INIT and all CONFIGs have been given to QUIC, whole, before any byte of *)
(* a sub-picture: it is the one gate and its queue that order them, as the *)
(* source goes on when the queue is empty and the last object half sent.   *)
(***************************************************************************)
ControlFirst == (\E s \in Subpic : wire[s] # <<>>) => Whole(Common)

(***************************************************************************)
(* A stream that process_video closes has sent everything, unless the      *)
(* source has raised an exception: sender_thread.join() means drained.     *)
(***************************************************************************)
ClosedStreamsAreWhole == src = "close" => \A s \in Stream \ open : Whole(s)

(***************************************************************************)
(* The main thread comes to the end of the video and closes its streams,   *)
(* unless the connection is lost (the gate tries its chunk again for ever) *)
(* or the feature worker has died (its job is never marked done).  There   *)
(* is no other way to hang in the two queues, three joins and two events.  *)
(***************************************************************************)
VideoEnds == <>(open = {} \/ lost \/ worker = "dead")
=============================================================================
