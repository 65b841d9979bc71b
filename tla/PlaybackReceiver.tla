-------------------------- MODULE PlaybackReceiver --------------------------
(***************************************************************************)
(* The live receiver: src/python/run_vvc_server_live_decode.py             *)
(* (VVCReceiver) and playback_buffer.py (PlaybackBuffer).                  *)
(*                                                                         *)
(* Two threads share it.  MsQuic's worker calls on_receive for a packet    *)
(* and on_stream_close at the end of a stream; on_receive activates the    *)
(* stream's sub-picture under one lock and pushes the fragment under       *)
(* another.  The playback thread drains closed streams, takes a snapshot   *)
(* of the active sub-pictures, pops the next frame once every one of them  *)
(* has arrived, increments next_frame, without the lock, and decodes.      *)
(*                                                                         *)
(* The decoder (vvc_decoder.py, modelled in VvcDecoder) is here for the    *)
(* codecs it has, which both threads make without a lock, and for the      *)
(* exceptions that leave it: they end the thread that called it.           *)
(*                                                                         *)
(* The clock is left out: a started playback may find its next frame due   *)
(* or not yet due whenever it looks.                                       *)
(***************************************************************************)
EXTENDS Naturals, FiniteSets

CONSTANTS NumSubpics,  \* what INIT announces
          Stream,      \* the media streams; the common stream is apart
          Carries,     \* stream -> the sub-picture and the frames it carries
          NumFrags,    \* fragment_count
          Startup,     \* startup_frame_count()
          None

Subpic == 0 .. NumSubpics - 1

ASSUME ReceiverAssumption ==
    /\ NumSubpics \in Nat \ {0}
    /\ Carries \in [Stream -> [subpic : Subpic, first : Nat, last : Nat]]
    /\ \A s \in Stream : Carries[s].first <= Carries[s].last + 1
    /\ NumFrags \in Nat \ {0}
    /\ Startup \in Nat \ {0}
    /\ None \notin Stream \cup Subpic

VARIABLES
  control,   \* objects of the common stream received: INIT, then the CONFIGs
  arrived,   \* stream -> packets received
  input,     \* stream -> "open", "closed" once on_stream_close has been called
  handling,  \* the stream whose packet on_receive has yet to push
  raised,    \* on_receive raised an exception in MsQuic's thread
  setting,   \* how far set_config is with the last CONFIG received
  codecs,    \* decoder.codecs: the sub-pictures that have a codec
  active,    \* active_subpics
  streamOf,  \* subpic_to_stream
  subpicOf,  \* stream_to_subpic
  closing,   \* closing_streams
  closed,    \* closed_streams
  frames,    \* the fragments PlaybackBuffer.frames holds
  nextFrame, \* next_frame
  started,   \* started
  ppc,       \* where the playback thread is; "dead" once it has raised
  todo,      \* the rest of its snapshot of closing_streams
  draining,  \* the stream of it at hand
  expected,  \* its snapshot of active_subpics
  item       \* the sub-pictures of the frame it has popped

vars == <<control, arrived, input, handling, raised, setting, codecs, active,
          streamOf, subpicOf, closing, closed, frames, nextFrame, started, ppc,
          todo, draining, expected, item>>

network == <<control, arrived, input, handling, raised>>
decoder == <<setting, codecs>>
lifecycle == <<active, streamOf, subpicOf, closing, closed>>
buffer == <<frames, nextFrame, started>>
playback == <<ppc, todo, draining, expected, item>>

Init == /\ control = 0
        /\ arrived = [s \in Stream |-> 0]
        /\ input = [s \in Stream |-> "open"]
        /\ handling = None
        /\ raised = FALSE
        /\ setting = "no"
        /\ codecs = {}
        /\ active = {}
        /\ streamOf = [p \in Subpic |-> None]
        /\ subpicOf = [s \in Stream |-> None]
        /\ closing = {}
        /\ closed = {}
        /\ frames = {}
        /\ nextFrame = 0
        /\ started = FALSE
        /\ ppc = "drain"
        /\ todo = {}
        /\ draining = None
        /\ expected = {}
        /\ item = {}

-----------------------------------------------------------------------------
(* PlaybackBuffer                                                          *)

Parts(f, p) == {x \in frames : x.frame = f /\ x.subpic = p}

\* _subpic_complete
Complete(f, p) == Cardinality(Parts(f, p)) = NumFrags

SomeComplete(f, subpics) == \E p \in subpics : Complete(f, p)

\* frame_ready, for a set of sub-pictures that is not empty.
FrameReady(f, subpics) == \A p \in subpics : Complete(f, p)

\* The frames that pop_next_ready wants ready: at startup, a bufferful.
Wanted == IF started THEN {nextFrame} ELSE 0 .. Startup - 1

PendingAnyPart(s) == \E x \in frames : x.stream = s

\* pending_stream_count > 0: the stream has a complete sub-picture buffered.
Pending(s) == \E x \in frames : x.stream = s /\ Complete(x.frame, x.subpic)

-----------------------------------------------------------------------------
(* The worker: VVCReceiver.on_receive and on_stream_close                  *)

WorkerIdle == handling = None /\ setting = "no" /\ ~raised

\* OBJECT_INIT: every sub-picture announced becomes active; then set_fps
\* raises if playback has started.
ReceiveInit ==
    /\ WorkerIdle
    /\ control = 0
    /\ control' = 1
    /\ active' = Subpic
    /\ raised' = started
    /\ UNCHANGED <<arrived, input, handling, decoder, streamOf, subpicOf,
                   closing, closed, buffer, playback>>

\* OBJECT_CONFIG: set_config stores the next sub-picture's parameter sets ...
ReceiveConfig ==
    /\ WorkerIdle
    /\ control \in 1 .. NumSubpics
    /\ control' = control + 1
    /\ setting' = "stored"
    /\ UNCHANGED <<arrived, input, handling, raised, codecs, lifecycle, buffer,
                   playback>>

HasConfig(p) == control > p + 1

\* The sub-picture of the last CONFIG.
Configured == control - 2

\* ... makes it a codec, if the playback thread has not ...
MakeCodec ==
    /\ setting = "stored"
    /\ setting' = "made"
    /\ codecs' = codecs \cup {Configured}
    /\ UNCHANGED <<network, lifecycle, buffer, playback>>

\* ... and feeds it, which raises if it is no parameter set, or if the codec
\* has gone meanwhile.
FeedConfig ==
    /\ setting = "made"
    /\ setting' = "no"
    /\ raised' \in BOOLEAN
    /\ UNCHANGED <<control, arrived, input, handling, codecs, lifecycle, buffer,
                   playback>>

Total(s) == (Carries[s].last - Carries[s].first + 1) * NumFrags

\* OBJECT_SUBPIC: _activate_media_stream, under lifecycle_lock ...
Activate(s) ==
    /\ WorkerIdle
    /\ input[s] = "open"
    /\ arrived[s] < Total(s)
    /\ LET p == Carries[s].subpic
       IN  /\ subpicOf' = [subpicOf EXCEPT ![s] = p]
           /\ streamOf' = [streamOf EXCEPT ![p] = s]
           /\ active' = active \cup {p}
    /\ closing' = closing \ {s}
    /\ closed' = closed \ {s}
    /\ handling' = s
    /\ UNCHANGED <<control, arrived, input, raised, decoder, buffer, playback>>

\* Fragment n of a stream, as push stores it.
Fragment(s, n) == [frame  |-> Carries[s].first + n \div NumFrags,
                   subpic |-> Carries[s].subpic,
                   stream |-> s,
                   idx    |-> n % NumFrags]

\* ... then PlaybackBuffer.push, under the buffer's lock: too late a frame is
\* refused, and so is a sub-picture of which another stream has sent a part.
Push ==
    /\ handling # None
    /\ LET x == Fragment(handling, arrived[handling])
       IN  frames' = IF \/ x.frame < nextFrame
                        \/ \E y \in Parts(x.frame, x.subpic) : y.stream # x.stream
                       THEN frames
                       ELSE frames \cup {x}
    /\ arrived' = [arrived EXCEPT ![handling] = @ + 1]
    /\ handling' = None
    /\ UNCHANGED <<control, input, raised, decoder, lifecycle, nextFrame,
                   started, playback>>

\* on_stream_close, after the last packet of the stream.  The sender closes a
\* stream when it has sent everything, or drops it at any point.
OnStreamClose(s) ==
    /\ WorkerIdle
    /\ input[s] = "open"
    /\ input' = [input EXCEPT ![s] = "closed"]
    /\ closing' = IF s \in closed THEN closing ELSE closing \cup {s}
    /\ UNCHANGED <<control, arrived, handling, raised, decoder, active,
                   streamOf, subpicOf, closed, buffer, playback>>

-----------------------------------------------------------------------------
(* The playback thread: _playback_loop                                     *)

\* _try_drain_closed_streams: a snapshot of closing_streams ...
BeginDrain ==
    /\ ppc = "drain"
    /\ todo' = closing
    /\ ppc' = "check"
    /\ UNCHANGED <<network, decoder, lifecycle, buffer, draining, expected, item>>

CheckNothing(s) ==
    /\ ppc = "check"
    /\ s \in todo
    /\ todo' = todo \ {s}
    /\ ppc' = "drop"
    /\ draining' = s
    /\ UNCHANGED <<network, decoder, lifecycle, buffer, expected, item>>

\* ... then, stream by stream: a stream with something to play is left alone ...
CheckPending(s) ==
    /\ ppc = "check"
    /\ s \in todo
    /\ todo' = todo \ {s}
    /\ IF Pending(s) THEN UNCHANGED <<ppc, draining>>
                     ELSE ppc' = "drop" /\ draining' = s
    /\ UNCHANGED <<network, decoder, lifecycle, buffer, expected, item>>

\* The drain of its current stream ends a sub-picture.
Ends(s) == subpicOf[s] # None /\ streamOf[subpicOf[s]] = s

\* drop_incomplete_stream
DropIncomplete(s) ==
    frames' = {x \in frames : x.stream # s \/ Complete(x.frame, x.subpic)}

DropKeepingClosing ==
    /\ ppc = "drop"
    /\ DropIncomplete(draining)
    /\ closed' = closed \cup {draining}
    /\ subpicOf' = [subpicOf EXCEPT ![draining] = None]
    /\ ppc' = "check"
    /\ draining' = None
    /\ UNCHANGED <<network, decoder, active, streamOf, closing, nextFrame,
                   started, todo, expected, item>>

DropKeepingMap ==
    /\ ppc = "drop"
    /\ DropIncomplete(draining)
    /\ active' = IF Ends(draining) THEN active \ {subpicOf[draining]} ELSE active
    /\ closing' = closing \ {draining}
    /\ closed' = closed \cup {draining}
    /\ subpicOf' = [subpicOf EXCEPT ![draining] = None]
    /\ ppc' = "check"
    /\ draining' = None
    /\ UNCHANGED <<network, decoder, streamOf, nextFrame, started, todo,
                   expected, item>>

\* ... and the others are drained, under lifecycle_lock: incomplete parts are
\* dropped, and a sub-picture that no newer stream has taken over ends, its
\* codec flushed and deleted.
Drop ==
    /\ ppc = "drop"
    /\ LET s == draining
           p == subpicOf[s]
       IN  IF s \notin closing
             THEN UNCHANGED <<lifecycle, codecs, frames>>
             ELSE /\ DropIncomplete(s)
                  /\ codecs' = IF Ends(s) THEN codecs \ {p} ELSE codecs
                  /\ active' = IF Ends(s) THEN active \ {p} ELSE active
                  /\ streamOf' = IF Ends(s) THEN [streamOf EXCEPT ![p] = None]
                                            ELSE streamOf
                  /\ closing' = closing \ {s}
                  /\ closed' = closed \cup {s}
                  /\ subpicOf' = [subpicOf EXCEPT ![s] = None]
    /\ ppc' = "check"
    /\ draining' = None
    /\ UNCHANGED <<network, setting, nextFrame, started, todo, expected, item>>

\* flush_subpic raises if the codec hands out more frames than ids are pending:
\* the thread ends, and the stream and its sub-picture stay as they were.
FlushRaises ==
    /\ ppc = "drop"
    /\ draining \in closing
    /\ Ends(draining)
    /\ subpicOf[draining] \in codecs
    /\ DropIncomplete(draining)
    /\ ppc' = "dead"
    /\ UNCHANGED <<network, decoder, lifecycle, nextFrame, started, todo,
                   draining, expected, item>>

\* _get_active_subpics; with none of them active the loop starts over.
Expect ==
    /\ ppc = "check"
    /\ todo = {}
    /\ expected' = active
    /\ ppc' = IF active = {} THEN "drain" ELSE "ready"
    /\ UNCHANGED <<network, decoder, lifecycle, buffer, todo, draining, item>>

\* pop_next_ready: everything it wants has arrived, and the frame is due.
FindReady ==
    /\ ppc = "ready"
    /\ \A f \in Wanted : FrameReady(f, expected)
    /\ ppc' = "pop"
    /\ UNCHANGED <<network, decoder, lifecycle, buffer, todo, draining, expected, item>>

\* pop_next_ready returns None: not ready, or not due.
FindNothing ==
    /\ ppc = "ready"
    /\ started \/ \E f \in Wanted : ~FrameReady(f, expected)
    /\ ppc' = "drain"
    /\ UNCHANGED <<network, decoder, lifecycle, buffer, todo, draining, expected, item>>

\* pop_frame, under the buffer's lock: the frame goes, and what was not
\* complete of it with it ...
PopFrame ==
    /\ ppc = "pop"
    /\ item' = {p \in Subpic : Complete(nextFrame, p)}
    /\ frames' = {x \in frames : x.frame # nextFrame}
    /\ ppc' = IF \E x \in frames : x.frame = nextFrame THEN "advance" ELSE "drain"
    /\ UNCHANGED <<network, decoder, lifecycle, nextFrame, started, todo, draining,
                   expected>>

\* ... then next_frame += 1, with no lock, and started.
Advance ==
    /\ ppc = "advance"
    /\ nextFrame' = nextFrame + 1
    /\ started' = TRUE
    /\ ppc' = "decode"
    /\ UNCHANGED <<network, decoder, lifecycle, frames, todo, draining, expected, item>>

\* append_frame for each expected sub-picture: _ensure_codec makes a codec for
\* one that has none and feeds it the CONFIG again ...
Decode ==
    /\ ppc = "decode"
    /\ \A p \in expected \cap item : HasConfig(p)
    /\ ppc' = "drain"
    /\ codecs' = codecs \cup (expected \cap item)
    /\ item' = {}
    /\ UNCHANGED <<network, setting, lifecycle, buffer, todo, draining, expected>>

\* ... and raises, which ends the thread, if the CONFIG has not come, does not
\* feed, or finds the codec gone: set_config makes one at the same time.
DecodeRaises ==
    /\ ppc = "decode"
    /\ \E p \in expected \cap item : ~HasConfig(p) \/ p \notin codecs
    /\ ppc' = "dead"
    /\ item' = {}
    /\ UNCHANGED <<network, decoder, lifecycle, buffer, todo, draining, expected>>

-----------------------------------------------------------------------------
Worker == \/ ReceiveInit \/ ReceiveConfig \/ MakeCodec \/ FeedConfig \/ Push
          \/ \E s \in Stream : Activate(s) \/ OnStreamClose(s)

Playback == \/ BeginDrain \/ Drop \/ FlushRaises \/ Expect
            \/ FindReady \/ FindNothing \/ PopFrame \/ Advance
            \/ Decode \/ DecodeRaises
            \/ \E s \in Stream : CheckPending(s)

Next == Worker \/ Playback

Spec == Init /\ [][Next]_vars

(***************************************************************************)
(* The connection delivers what is sent, and the sender closes every       *)
(* stream in the end; the playback thread loops, and the time of a frame   *)
(* that stays ready comes.                                                 *)
(***************************************************************************)
FairSpec == Spec /\ WF_vars(Worker) /\ WF_vars(Playback) /\ SF_vars(FindReady)

-----------------------------------------------------------------------------
(* Properties                                                              *)

Position == [frame : Nat, subpic : Subpic, stream : Stream, idx : 0 .. NumFrags - 1]

TypeOK ==
    /\ control \in 0 .. NumSubpics + 1
    /\ \A s \in Stream : arrived[s] \in 0 .. Total(s)
    /\ input \in [Stream -> {"open", "closed"}]
    /\ handling \in Stream \cup {None}
    /\ {raised, started} \subseteq BOOLEAN
    /\ setting \in {"no", "stored", "made"}
    /\ setting # "no" => control > 1
    /\ codecs \subseteq Subpic
    /\ active \subseteq Subpic
    /\ streamOf \in [Subpic -> Stream \cup {None}]
    /\ subpicOf \in [Stream -> Subpic \cup {None}]
    /\ closing \subseteq Stream
    /\ closed \subseteq Stream \ closing
    /\ frames \subseteq Position
    /\ nextFrame \in Nat
    /\ ppc \in {"drain", "check", "drop", "ready", "pop", "advance", "decode",
                "dead"}
    /\ todo \subseteq Stream
    /\ draining \in Stream \cup {None}
    /\ expected \subseteq Subpic
    /\ item \subseteq Subpic

(***************************************************************************)
(* "missing after frame_ready=True" is never printed: what was complete    *)
(* when pop_next_ready looked is still there when pop_frame takes it,      *)
(* whatever the worker pushes, and whatever streams close, in between.     *)
(***************************************************************************)
NeverMissing == ppc \in {"advance", "decode"} => expected \subseteq item

(***************************************************************************)
(* A drained stream has left nothing behind that could be played: between  *)
(* the check of what is pending, under one lock, and the drain, under      *)
(* another, no complete sub-picture of the stream comes in.                *)
(***************************************************************************)
DrainedHoldsNothing == \A x \in frames : x.stream \notin closed

(***************************************************************************)
(* The lifecycle maps agree: the current stream of a sub-picture, the one  *)
(* whose packet came last, is known to carry it and is not drained, and    *)
(* the sub-picture is active.  So the late drain of an old stream takes a  *)
(* reopened sub-picture down only in the case TakenDown below.             *)
(***************************************************************************)
CurrentStreamServes ==
    \A p \in Subpic : streamOf[p] # None => /\ p \in active
                                            /\ subpicOf[streamOf[p]] = p
                                            /\ streamOf[p] \notin closed

-----------------------------------------------------------------------------
(* How playback can end before the last frame.                             *)

\* Every fragment has been pushed, played or refused, every stream drained.
Finished == frames = {} /\ closed = Stream

\* An exception ended on_receive: INIT came after playback had begun, or
\* set_config failed; or the playback thread: a CONFIG came after a frame was
\* popped, a codec could not be made again, or a flush raised.
Crashed == raised \/ ppc = "dead"

\* The sub-picture's part of the frame is not there and no stream brings it.
Hopeless(f, p) ==
    /\ ~Complete(f, p)
    /\ \A s \in Stream :
          \/ Carries[s].subpic # p
          \/ input[s] = "closed"
          \/ \A n \in arrived[s] .. Total(s) - 1 : Fragment(s, n).frame # f

\* An active sub-picture lacks a frame for good, and has a later one pending.
Gap == \E p \in active, f \in Wanted :
          Hopeless(f, p) /\ \E x \in frames : x.subpic = p /\ Complete(x.frame, p)

\* A sub-picture of INIT that no stream serves: its stream closed before its
\* first packet came, or was drained before INIT came.
Unserved == \E p \in active : /\ streamOf[p] = None
                              /\ \A f \in Wanted : Hopeless(f, p)

\* A fragment pushed after its frame was popped and before next_frame += 1.
LeftBehind == ppc # "advance" /\ \E x \in frames : x.frame < nextFrame

\* Packets of a reopened sub-picture were overtaken by those of its old stream,
\* which made that one current again, and its drain took the sub-picture down.
TakenDown == \E x \in frames : /\ x.subpic \notin active
                              /\ Complete(x.frame, x.subpic)

(***************************************************************************)
(* Everything that arrives is played and every closed stream drained in    *)
(* the end, except in these cases: these are all the ways in which the     *)
(* receiver hangs.                                                         *)
(***************************************************************************)
PlaysToTheEnd == 
    <>[](Finished \/ Crashed \/ Gap \/ Unserved \/ LeftBehind \/ TakenDown)

(***************************************************************************)
(* vvc_decoder.py, 258-260: "After lifecycle flush the old codec is        *)
(* deleted.  Reopen automatically creates a fresh decoder and restores     *)
(* VPS/SPS/PPS."  Once a sub-picture has been played and its stream        *)
(* drained, a complete frame of the stream that reopens it, and is its     *)
(* current one, comes to the decoder.                                      *)
(***************************************************************************)
Reopens(s, r) == /\ Carries[r].subpic = Carries[s].subpic
                 /\ Carries[r].last < Carries[s].first

ReopenedIsDecoded ==
    \A s, r \in Stream : Reopens(s, r) =>
        (/\ r \in closed
         /\ nextFrame > Carries[r].last
         /\ streamOf[Carries[s].subpic] = s
         /\ \E x \in frames : x.stream = s /\ Complete(x.frame, x.subpic))
            ~> \/ Crashed
               \/ /\ ppc = "decode"
                  /\ Carries[s].subpic \in expected
                  /\ nextFrame > Carries[s].first
=============================================================================
