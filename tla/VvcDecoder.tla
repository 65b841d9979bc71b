----------------------------- MODULE VvcDecoder -----------------------------
(***************************************************************************)
(* VVCDecoder (src/python/vvc_decoder.py), as the live receiver uses it:   *)
(* set_config is called on MsQuic's thread, append_frame and flush_subpic  *)
(* on the playback thread, without a lock between them.  All its state is  *)
(* kept by sub-picture, so that one sub-picture is enough.                 *)
(*                                                                         *)
(* A step is what the GIL keeps together: one access to configs, codecs or *)
(* pending_frame_ids, or one use of the codec.  The codec is PyAV's: its   *)
(* parser holds a picture back until the next begins, its decoder delays   *)
(* pictures by up to Delay, and each packet it is given may be an error.   *)
(* That two threads may be inside one codec at once is left out.           *)
(***************************************************************************)
EXTENDS Naturals, Sequences

CONSTANTS NumFrames,   \* bound: frames appended
          MaxConfigs,  \* bound: CONFIG objects received
          Delay,       \* pictures the decoder holds back
          None

Frame == 0 .. NumFrames - 1
Thread == {"net", "play"}

ASSUME DecoderAssumption == /\ NumFrames \in Nat
                            /\ MaxConfigs \in Nat
                            /\ Delay \in Nat

VARIABLES
  config,    \* configs has the sub-picture
  codec,     \* codecs[spid]
  pending,   \* pending_frame_ids[spid]
  pc,        \* where each thread is in the decoder
  frames,    \* the playback thread's local variable: pictures decoded
  out,       \* the items returned to the receiver: an id and a picture
  fid,       \* frames appended so far
  calls,     \* CONFIGs received so far
  life,      \* picture -> how many flushes came before it
  flushes,   \* flushes so far
  upset      \* what has gone wrong so far

vars == <<config, codec, pending, pc, frames, out, fid, calls, life, flushes,
          upset>>

inputs == <<fid, calls, life, flushes>>

\* What a codec holds, and a fresh one.
Codecs == [ready : BOOLEAN, held : Seq(Frame), dpb : Seq(Frame)]
NewCodec == [ready |-> FALSE, held |-> <<>>, dpb |-> <<>>]

ASSUME NoneAssumption == None \notin Codecs

Init == /\ config = FALSE
        /\ codec = None
        /\ pending = <<>>
        /\ pc = [t \in Thread |-> "idle"]
        /\ frames = <<>>
        /\ out = <<>>
        /\ fid = 0
        /\ calls = 0
        /\ life = [f \in Frame |-> 0]
        /\ flushes = 0
        /\ upset = {}

Goto(t, l) == pc' = [pc EXCEPT ![t] = l]
Upset(what, p) == upset' = IF p THEN upset \cup {what} ELSE upset

Take(s, n) == SubSeq(s, 1, n)
Rest(s, n) == SubSeq(s, n + 1, Len(s))

-----------------------------------------------------------------------------
(* _new_codec, on either thread                                            *)

CheckCodec(t) ==
    /\ pc[t] = "check"
    /\ Goto(t, IF codec = None THEN "new pop"
               ELSE IF t = "net" THEN "feed config"
               ELSE "track")
    /\ UNCHANGED <<config, codec, pending, frames, out, inputs, upset>>

\* The old codec is popped and closed; there is one only if the other thread
\* has created it since the check.
NewPop(t) ==
    /\ pc[t] = "new pop"
    /\ codec' = None
    /\ Upset("two codecs", codec # None)
    /\ Goto(t, "new clear")
    /\ UNCHANGED <<config, pending, frames, out, inputs>>

KeepPending(s) == s

\* pending_frame_ids[spid].clear()
ClearPending(s) == <<>>

NewClear(t) ==
    /\ pc[t] = "new clear"
    /\ pending' = ClearPending(pending)
    /\ Upset("two codecs", codec # None)
    /\ Goto(t, "new store")
    /\ UNCHANGED <<config, codec, frames, out, inputs>>

NewStore(t) ==
    /\ pc[t] = "new store"
    /\ codec' = NewCodec
    /\ Upset("two codecs", codec # None)
    /\ Goto(t, "feed config")
    /\ UNCHANGED <<config, pending, frames, out, inputs>>

\* The parameter sets are fed: set_config, or _ensure_codec.  They end the
\* picture the parser holds; what is decoded then is counted and dropped.
FeedConfig(t) ==
    /\ pc[t] = "feed config"
    /\ \/ /\ codec = None                  \* popped by the other thread: KeyError
          /\ UNCHANGED codec
          /\ Goto(t, "dead")
       \/ /\ codec # None                  \* the held picture is an error: it raises
          /\ codec.held # <<>>
          /\ codec' = [codec EXCEPT !.ready = TRUE, !.held = <<>>]
          /\ Goto(t, "dead")
       \/ /\ codec # None
          /\ LET all == codec.dpb \o codec.held
             IN  \E n \in 0 .. Len(all) :
                    /\ Len(all) - n <= Delay
                    /\ codec' = [codec EXCEPT !.ready = TRUE,
                                              !.held = <<>>,
                                              !.dpb = Rest(all, n)]
          /\ Goto(t, IF t = "net" THEN "idle" ELSE "track")
    /\ Upset("config between frames", codec # None /\ pending # <<>>)
    /\ UNCHANGED <<config, pending, frames, out, inputs>>

-----------------------------------------------------------------------------
(* set_config                                                              *)

SetConfig ==
    /\ pc["net"] = "idle"
    /\ calls < MaxConfigs
    /\ calls' = calls + 1
    /\ config' = TRUE
    /\ Goto("net", "check")
    /\ UNCHANGED <<codec, pending, frames, out, fid, life, flushes, upset>>

-----------------------------------------------------------------------------
(* append_frame                                                            *)

\* Without a CONFIG it raises, outside its try.
AppendFrame ==
    /\ pc["play"] = "idle"
    /\ fid < NumFrames
    /\ Goto("play", IF config THEN "check" ELSE "dead")
    /\ UNCHANGED <<config, codec, pending, frames, out, inputs, upset>>

\* The id is tracked, ...
Track ==
    /\ pc["play"] = "track"
    /\ pending' = Append(pending, fid)
    /\ life' = [life EXCEPT ![fid] = flushes]
    /\ Goto("play", "feed")
    /\ UNCHANGED <<config, codec, frames, out, fid, calls, flushes, upset>>

\* ... the parser lets go of what it held, or of this picture too, and the
\* decoder of what it has decoded ...
Feed ==
    /\ pc["play"] = "feed"
    /\ codec # None /\ codec.ready
    /\ \E k \in 0 .. 1 :
          LET parsed == codec.held \o <<fid>>
              all == codec.dpb \o Take(parsed, Len(parsed) - k)
          IN  \E n \in 0 .. Len(all) :
                 /\ Len(all) - n <= Delay
                 /\ frames' = Take(all, n)
                 /\ codec' = [codec EXCEPT !.held = Rest(parsed, Len(parsed) - k),
                                           !.dpb = Rest(all, n)]
    /\ Goto("play", "bind")
    /\ UNCHANGED <<config, pending, out, inputs, upset>>

\* ... or a packet is an error: it and those after it are lost, and what the
\* ones before it had yielded is dropped ...
FeedFails ==
    /\ pc["play"] = "feed"
    /\ IF codec = None
         THEN UNCHANGED codec
         ELSE \E k \in 0 .. 1 :
                 LET parsed == codec.held \o <<fid>>
                     packets == Take(parsed, Len(parsed) - k)
                 IN  \E e \in DOMAIN packets :
                        LET all == codec.dpb \o Take(packets, e - 1)
                        IN  \E n \in 0 .. Len(all) :
                               /\ Len(all) - n <= Delay
                               /\ codec' = [codec EXCEPT
                                              !.held = Rest(parsed, Len(parsed) - k),
                                              !.dpb = Rest(all, n)]
    /\ Upset("decode error", TRUE)
    /\ Goto("play", "failed")
    /\ UNCHANGED <<config, pending, frames, out, inputs>>

\* ... and the handler takes the newest pending id for the one that failed.
RemoveNewest ==
    /\ pc["play"] = "failed"
    /\ pending' = IF pending # <<>> /\ pending[Len(pending)] = fid
                    THEN Take(pending, Len(pending) - 1)
                    ELSE pending
    /\ fid' = fid + 1
    /\ Goto("play", "idle")
    /\ UNCHANGED <<config, codec, frames, out, calls, life, flushes, upset>>

\* popleft for each picture; the deque must not run empty (Enough).
Items(ids, fs) == [i \in DOMAIN fs |->
                      [id    |-> IF i <= Len(ids) THEN ids[i] ELSE None,
                       frame |-> fs[i]]]

BindNewest(fs) ==
    /\ pending' = Take(pending, Len(pending) - Len(fs))
    /\ out' = out \o Items(Rest(pending, Len(pending) - Len(fs)), fs)

BindPeeking(fs) ==
    /\ pending' = pending
    /\ out' = out \o Items(pending, fs)

\* _bind_frame_ids: the oldest pending ids are given to the pictures.
Bind(fs) ==
    /\ pending' = Rest(pending, Len(fs))
    /\ out' = out \o Items(pending, fs)

EnoughAlways(fs) == TRUE

Enough(fs) == Len(fs) <= Len(pending)

BindFrames ==
    /\ pc["play"] = "bind"
    /\ Enough(frames)
    /\ Bind(frames)
    /\ frames' = <<>>
    /\ fid' = fid + 1
    /\ Goto("play", "idle")
    /\ UNCHANGED <<config, codec, calls, life, flushes, upset>>

\* A picture without a pending id raises: the others are lost with it.
BindFails ==
    /\ pc["play"] = "bind"
    /\ ~Enough(frames)
    /\ pending' = <<>>
    /\ frames' = <<>>
    /\ Goto("play", "failed")
    /\ UNCHANGED <<config, codec, out, inputs, upset>>

-----------------------------------------------------------------------------
(* flush_subpic                                                            *)

\* The parser gives up what it holds, unless that is an error, and the decoder
\* everything; without a codec nothing happens.
FlushDrain ==
    /\ pc["play"] = "idle"
    /\ codec # None
    /\ \/ frames' = codec.dpb \o codec.held /\ UNCHANGED upset
       \/ /\ codec.held # <<>>
          /\ frames' = codec.dpb
          /\ Upset("decode error", TRUE)
    /\ codec' = [codec EXCEPT !.held = <<>>, !.dpb = <<>>]
    /\ Goto("play", "flush bind")
    /\ UNCHANGED <<config, pending, out, inputs>>

\* A picture without a pending id raises, here outside any try.
FlushBind ==
    /\ pc["play"] = "flush bind"
    /\ IF Enough(frames)
         THEN Bind(frames) /\ Goto("play", "flush pop")
         ELSE pending' = <<>> /\ UNCHANGED out /\ Goto("play", "dead")
    /\ frames' = <<>>
    /\ UNCHANGED <<config, codec, inputs, upset>>

\* codecs.pop and codec.close ...
FlushPop ==
    /\ pc["play"] = "flush pop"
    /\ codec' = None
    /\ Goto("play", "flush clear")
    /\ UNCHANGED <<config, pending, frames, out, inputs, upset>>

\* ... and the ids that remain are dropped.
FlushClear ==
    /\ pc["play"] = "flush clear"
    /\ pending' = ClearPending(pending)
    /\ flushes' = flushes + 1
    /\ Goto("play", "idle")
    /\ UNCHANGED <<config, codec, frames, out, fid, calls, life, upset>>

-----------------------------------------------------------------------------
AppendStep == \/ AppendFrame \/ Track \/ Feed \/ FeedFails
              \/ RemoveNewest \/ BindFrames \/ BindFails

FlushStep == FlushDrain \/ FlushBind \/ FlushPop \/ FlushClear

Create(t) == CheckCodec(t) \/ NewPop(t) \/ NewClear(t) \/ NewStore(t) \/ FeedConfig(t)

Next == SetConfig \/ AppendStep \/ FlushStep \/ \E t \in Thread : Create(t)

Spec == Init /\ [][Next]_vars

-----------------------------------------------------------------------------
(* Properties                                                              *)

TypeOK ==
    /\ config \in BOOLEAN
    /\ codec # None => /\ codec \in Codecs
                       /\ Len(codec.held) <= 1
                       /\ Len(codec.dpb) <= Delay
    /\ pending \in Seq(Frame)
    /\ pc \in [Thread -> {"idle", "dead", "check", "new pop", "new clear",
                          "new store", "feed config", "track", "feed", "bind",
                          "failed", "flush bind", "flush pop", "flush clear"}]
    /\ frames \in Seq(Frame)
    /\ out \in Seq([id : Frame, frame : Frame])
    /\ fid \in 0 .. NumFrames
    /\ calls \in 0 .. MaxConfigs
    /\ life \in [Frame -> Nat]
    /\ flushes \in Nat
    /\ upset \subseteq {"two codecs", "config between frames", "decode error"}

(***************************************************************************)
(* The ids come out in the order in which frames went in, each at most     *)
(* once, whatever is delayed, fails or races: the receiver's frame writer  *)
(* never writes a frame of a sub-picture twice.                            *)
(***************************************************************************)
IdsAscend == \A i \in 1 .. Len(out) - 1 : out[i].id < out[i + 1].id

(***************************************************************************)
(* "New decoder lifecycle -> old pending IDs must not leak" (line 53) and  *)
(* "Old lifecycle must not leak IDs into reopen" (line 451): a picture of  *)
(* one life of the codec never gets an id from another.                    *)
(***************************************************************************)
LivesApart == \A i \in DOMAIN out : life[out[i].id] = life[out[i].frame]

(***************************************************************************)
(* A picture gets its own id, however it is delayed, unless one of three   *)
(* things has happened: the decoder has refused a packet, a CONFIG has     *)
(* been fed while ids were pending, or both threads have created a codec.  *)
(***************************************************************************)
RightIdsUnlessUpset ==
    upset = {} => \A i \in DOMAIN out : out[i].id = out[i].frame
=============================================================================
