-------------------------- MODULE VvcDecoderProofs --------------------------
(***************************************************************************)
(* Proofs about VvcDecoder, for every number of frames and CONFIGs and     *)
(* every delay of the decoder.                                             *)
(*                                                                         *)
(* That ids ascend needs that the ids still pending are above all given    *)
(* out and not above the frame at hand (Tracking); that lives stay apart,  *)
(* that neither an id nor a picture outlives the flush that ends its life  *)
(* (OneLife); that ids are right, that pending is the queue of pictures    *)
(* inside the codec, in order, as long as nothing has gone wrong (InStep). *)
(***************************************************************************)
EXTENDS VvcDecoder, SequenceTheorems, TLAPS

Elems(s) == {s[i] : i \in DOMAIN s}

\* The pictures in the codec and on their way out of it.
Pictures == Elems(frames) \cup (IF codec = None THEN {}
                                ELSE Elems(codec.dpb) \cup Elems(codec.held))

Play == pc["play"]

\* append_frame is at a frame; there are decoded pictures only to bind them.
Busy == /\ Play \in {"check", "new pop", "new clear", "new store", "feed config",
                     "track", "feed", "bind", "failed"} => fid < NumFrames
        /\ frames # <<>> => Play \in {"bind", "flush bind"}

\* Pending ids ascend, from above those given out up to the frame at hand.
Tracking ==
    /\ \A i, j \in DOMAIN pending : i < j => pending[i] < pending[j]
    /\ \A i \in DOMAIN out, j \in DOMAIN pending : out[i].id < pending[j]
    /\ \A j \in DOMAIN pending :
          pending[j] < fid \/ (pending[j] = fid /\ Play \in {"feed", "bind", "failed"})

\* No picture is ahead of its frame.
Below ==
    /\ \A f \in Pictures : f < fid \/ (f = fid /\ Play \in {"bind", "failed"})
    /\ \A i \in DOMAIN out : out[i].id < fid /\ out[i].frame < fid

\* Whatever is pending or in the codec is of the present life.
OneLife ==
    /\ \A f \in Elems(pending) \cup Pictures : life[f] = flushes
    /\ Play = "feed" => life[fid] = flushes

\* From flush_subpic's drain on the codec is empty, if it is there.
Drained == Play \in {"flush bind", "flush pop", "flush clear"} /\ codec # None
           => codec.dpb = <<>> /\ codec.held = <<>>

\* As long as nothing has gone wrong the pending ids are those of the
\* pictures in the codec, in their order.
Inside == frames \o codec.dpb \o codec.held

Queue == IF Play = "feed" THEN Append(Inside, fid) ELSE Inside

InStep == upset = {} =>
    /\ Play # "failed"
    /\ Play \in {"feed config", "track", "feed", "bind", "flush bind", "flush pop"}
       => codec # None
    /\ pending = IF codec = None THEN <<>> ELSE Queue

IInv == /\ TypeOK
        /\ Busy
        /\ Tracking
        /\ Below
        /\ OneLife
        /\ Drained
        /\ InStep
        /\ IdsAscend
        /\ LivesApart
        /\ RightIdsUnlessUpset

-----------------------------------------------------------------------------
(* Sequences                                                                *)

(***************************************************************************)
(* Take and Rest cut a sequence in two.                                    *)
(***************************************************************************)
LEMMA CutFacts ==
    ASSUME NEW S, NEW s \in Seq(S), NEW n \in 0 .. Len(s)
    PROVE  /\ Take(s, n) \in Seq(S) /\ Len(Take(s, n)) = n
           /\ Rest(s, n) \in Seq(S) /\ Len(Rest(s, n)) = Len(s) - n
           /\ \A i \in 1 .. n : Take(s, n)[i] = s[i]
           /\ \A i \in 1 .. Len(s) - n : Rest(s, n)[i] = s[i + n]
           /\ Take(s, n) \o Rest(s, n) = s
           /\ Elems(Take(s, n)) \subseteq Elems(s)
           /\ Elems(Rest(s, n)) \subseteq Elems(s)
<1>1. Len(s) \in Nat /\ n \in Nat /\ n <= Len(s) /\ \A i \in 1 .. Len(s) : s[i] \in S
    OBVIOUS
<1>2. /\ Take(s, n) \in Seq(S) /\ Len(Take(s, n)) = n
      /\ \A i \in 1 .. n : Take(s, n)[i] = s[i]
  <2>1. \A i \in 1 .. n : s[i] \in S
    BY <1>1
  <2>2. /\ SubSeq(s, 1, n) \in Seq(S)
        /\ Len(SubSeq(s, 1, n)) = IF 1 <= n THEN n - 1 + 1 ELSE 0
        /\ \A i \in 1 .. n - 1 + 1 : SubSeq(s, 1, n)[i] = s[1 + i - 1]
    BY <1>1, <2>1, SubSeqProperties
  <2> QED
    BY <1>1, <2>2 DEF Take
<1>3. /\ Rest(s, n) \in Seq(S) /\ Len(Rest(s, n)) = Len(s) - n
      /\ \A i \in 1 .. Len(s) - n : Rest(s, n)[i] = s[i + n]
  <2>1. \A i \in n + 1 .. Len(s) : s[i] \in S
    BY <1>1
  <2>2. /\ SubSeq(s, n + 1, Len(s)) \in Seq(S)
        /\ Len(SubSeq(s, n + 1, Len(s))) = IF n + 1 <= Len(s) THEN Len(s) - (n + 1) + 1 ELSE 0
        /\ \A i \in 1 .. Len(s) - (n + 1) + 1 :
              SubSeq(s, n + 1, Len(s))[i] = s[n + 1 + i - 1]
    BY <1>1, <2>1, SubSeqProperties
  <2> QED
    BY <1>1, <2>2 DEF Rest
<1> DEFINE t == Take(s, n)
           r == Rest(s, n)
<1>4. t \o r = s
  <2>1. t \in Seq(S) /\ r \in Seq(S) /\ Len(t) = n /\ Len(r) = Len(s) - n
    BY <1>2, <1>3
  <2>2. t \o r \in Seq(S) /\ Len(t \o r) = Len(s)
    BY <1>1, <2>1, ConcatProperties
  <2>3. ASSUME NEW i \in 1 .. Len(s) PROVE (t \o r)[i] = s[i]
    <3>1. (t \o r)[i] = IF i <= n THEN t[i] ELSE r[i - n]
      BY <1>1, <2>1, ConcatProperties
    <3>2. CASE i <= n
      BY <1>1, <1>2, <3>1, <3>2
    <3>3. CASE ~(i <= n)
      <4>1. i - n \in 1 .. Len(s) - n /\ (i - n) + n = i
        BY <1>1, <3>3
      <4>2. r[i - n] = s[(i - n) + n]
        BY <1>3, <4>1
      <4> QED
        BY <3>1, <3>3, <4>1, <4>2
    <3> QED
      BY <3>2, <3>3
  <2> QED
    BY <2>2, <2>3, SeqEqual
<1>5. Elems(t) \subseteq Elems(s)
    BY <1>1, <1>2 DEF Elems
<1>6. Elems(r) \subseteq Elems(s)
    BY <1>1, <1>3 DEF Elems
<1> QED
    BY <1>2, <1>3, <1>4, <1>5, <1>6

(***************************************************************************)
(* What is in sequences put together.                                      *)
(***************************************************************************)
LEMMA ElemsFacts ==
    ASSUME NEW S, NEW s \in Seq(S), NEW t \in Seq(S)
    PROVE  /\ Elems(s) \subseteq S
           /\ Elems(s \o t) = Elems(s) \cup Elems(t)
           /\ Elems(<<>>) = {}
<1>1. Len(s) \in Nat /\ Len(t) \in Nat /\ DOMAIN s = 1 .. Len(s) /\ DOMAIN t = 1 .. Len(t)
    OBVIOUS
<1>2. /\ s \o t \in Seq(S) /\ DOMAIN (s \o t) = 1 .. Len(s) + Len(t)
      /\ \A i \in 1 .. Len(s) + Len(t) :
            (s \o t)[i] = IF i <= Len(s) THEN s[i] ELSE t[i - Len(s)]
    BY <1>1, ConcatProperties
<1>3. Elems(s \o t) \subseteq Elems(s) \cup Elems(t)
  <2> SUFFICES ASSUME NEW i \in 1 .. Len(s) + Len(t)
               PROVE  (s \o t)[i] \in Elems(s) \cup Elems(t)
    BY <1>2 DEF Elems
  <2>1. CASE i <= Len(s)
    BY <1>1, <1>2, <2>1 DEF Elems
  <2>2. CASE ~(i <= Len(s))
    <3>1. i - Len(s) \in DOMAIN t
      BY <1>1, <2>2
    <3> QED
      BY <1>2, <2>2, <3>1 DEF Elems
  <2> QED
    BY <2>1, <2>2
<1>4. Elems(s) \subseteq Elems(s \o t)
    BY <1>1, <1>2 DEF Elems
<1>5. Elems(t) \subseteq Elems(s \o t)
  <2> SUFFICES ASSUME NEW i \in 1 .. Len(t) PROVE t[i] \in Elems(s \o t)
    BY <1>1 DEF Elems
  <2>1. Len(s) + i \in 1 .. Len(s) + Len(t) /\ ~(Len(s) + i <= Len(s)) /\ (Len(s) + i) - Len(s) = i
    BY <1>1
  <2>2. (s \o t)[Len(s) + i] = t[i]
    BY <1>2, <2>1
  <2> QED
    BY <1>2, <2>1, <2>2 DEF Elems
<1>6. Elems(s) \subseteq S
    BY DEF Elems
<1>7. Elems(<<>>) = {}
    BY DEF Elems
<1> QED
    BY <1>3, <1>4, <1>5, <1>6, <1>7

(***************************************************************************)
(* What _bind_frame_ids does: the oldest ids go to the pictures.           *)
(***************************************************************************)
LEMMA BindFacts ==
    ASSUME TypeOK, Enough(frames), Bind(frames)
    PROVE  /\ out' \in Seq([id : Frame, frame : Frame])
           /\ Len(out') = Len(out) + Len(frames)
           /\ \A i \in 1 .. Len(out) : out'[i] = out[i]
           /\ \A i \in 1 .. Len(frames) :
                 /\ out'[Len(out) + i].id = pending[i]
                 /\ out'[Len(out) + i].frame = frames[i]
           /\ pending' \in Seq(Frame)
           /\ Len(pending') = Len(pending) - Len(frames)
           /\ \A i \in 1 .. Len(pending') : pending'[i] = pending[i + Len(frames)]
           /\ Elems(pending') \subseteq Elems(pending)
<1> DEFINE Item == [id : Frame, frame : Frame]
<1>1. /\ pending \in Seq(Frame) /\ frames \in Seq(Frame)
      /\ out \in Seq(Item)
    BY DEF TypeOK
<1>2. /\ Len(frames) \in 0 .. Len(pending) /\ Len(pending) \in Nat /\ Len(frames) \in Nat
      /\ Len(out) \in Nat
    BY <1>1 DEF Enough
<1> DEFINE new == Items(pending, frames)
<1>3. /\ new \in Seq(Item)
      /\ Len(new) = Len(frames)
      /\ \A i \in 1 .. Len(frames) : new[i].id = pending[i] /\ new[i].frame = frames[i]
  <2>1. new = [i \in 1 .. Len(frames) |-> [id |-> pending[i], frame |-> frames[i]]]
    BY <1>1, <1>2 DEF Items
  <2>2. \A i \in 1 .. Len(frames) : pending[i] \in Frame /\ frames[i] \in Frame
    BY <1>1, <1>2
  <2> QED
    BY <1>2, <2>1, <2>2
<1>4. out' = out \o new /\ pending' = Rest(pending, Len(frames))
    BY DEF Bind
<1> HIDE DEF new, Item
<1>5. /\ out \o new \in Seq(Item)
      /\ Len(out \o new) = Len(out) + Len(new)
      /\ \A i \in 1 .. Len(out) + Len(new) :
            (out \o new)[i] = IF i <= Len(out) THEN out[i] ELSE new[i - Len(out)]
  <2>1. out \in Seq(Item) /\ new \in Seq(Item)
    BY <1>1, <1>3
  <2> QED
    BY <2>1, ConcatProperties
<1>6. \A i \in 1 .. Len(out) : out'[i] = out[i]
    BY <1>2, <1>3, <1>4, <1>5
<1>7. ASSUME NEW i \in 1 .. Len(frames)
      PROVE  out'[Len(out) + i].id = pending[i] /\ out'[Len(out) + i].frame = frames[i]
  <2>1. /\ Len(out) + i \in 1 .. Len(out) + Len(new) /\ ~(Len(out) + i <= Len(out))
        /\ (Len(out) + i) - Len(out) = i
    BY <1>2, <1>3
  <2> QED
    BY <1>3, <1>4, <1>5, <2>1
<1>8. /\ pending' \in Seq(Frame) /\ Len(pending') = Len(pending) - Len(frames)
      /\ \A i \in 1 .. Len(pending) - Len(frames) : pending'[i] = pending[i + Len(frames)]
      /\ Elems(pending') \subseteq Elems(pending)
    BY <1>1, <1>2, <1>4, CutFacts
<1> QED
    BY <1>3, <1>4, <1>5, <1>6, <1>7, <1>8 DEF Item

(***************************************************************************)
(* One picture more goes into the codec, and some come out: none is lost   *)
(* and their order is kept, unless a packet is an error.                   *)
(***************************************************************************)
LEMMA FeedFacts ==
    ASSUME TypeOK, Busy, Play = "feed", codec # None, NEW k \in 0 .. 1
    PROVE  LET parsed == codec.held \o <<fid>>
               packets == Take(parsed, Len(parsed) - k)
               kept == Rest(parsed, Len(parsed) - k)
           IN  /\ parsed \in Seq(Frame) /\ packets \in Seq(Frame) /\ kept \in Seq(Frame)
               /\ codec \in Codecs /\ codec.dpb \in Seq(Frame) /\ codec.held \in Seq(Frame)
               /\ Len(kept) <= 1 /\ packets \o kept = parsed
               /\ Elems(packets) \subseteq Elems(codec.held) \cup {fid}
               /\ Elems(kept) \subseteq Elems(codec.held) \cup {fid}
               /\ fid \in Frame
<1> DEFINE parsed == codec.held \o <<fid>>
           m == Len(parsed) - k
<1>1. codec \in Codecs /\ codec.dpb \in Seq(Frame) /\ codec.held \in Seq(Frame)
    BY DEF TypeOK, Codecs
<1>2. fid \in Frame
  <2>1. fid \in 0 .. NumFrames /\ fid < NumFrames /\ NumFrames \in Nat
    BY DecoderAssumption DEF TypeOK, Busy
  <2> QED
    BY <2>1 DEF Frame
<1>3. <<fid>> \in Seq(Frame) /\ Elems(<<fid>>) = {fid} /\ Len(<<fid>>) = 1
    BY <1>2 DEF Elems
<1>4. parsed \in Seq(Frame) /\ Len(parsed) = Len(codec.held) + 1 /\ Len(codec.held) \in Nat
    BY <1>1, <1>3, ConcatProperties
<1>5. m \in 0 .. Len(parsed) /\ Len(parsed) - m = k
    BY <1>4
<1>6. Elems(parsed) = Elems(codec.held) \cup {fid}
  <2> DEFINE x == codec.held
             y == <<fid>>
  <2>0. x \in Seq(Frame) /\ y \in Seq(Frame)
    BY <1>1, <1>3
  <2> HIDE DEF x, y
  <2>1. Elems(x \o y) = Elems(x) \cup Elems(y)
    BY <2>0, ElemsFacts
  <2> USE DEF x, y
  <2> QED
    BY <1>3, <2>1
<1>7. /\ Take(parsed, m) \in Seq(Frame) /\ Rest(parsed, m) \in Seq(Frame)
      /\ Len(Rest(parsed, m)) = Len(parsed) - m
      /\ Take(parsed, m) \o Rest(parsed, m) = parsed
      /\ Elems(Take(parsed, m)) \subseteq Elems(parsed)
      /\ Elems(Rest(parsed, m)) \subseteq Elems(parsed)
    BY <1>4, <1>5, CutFacts
<1>8. Elems(Take(parsed, m)) \subseteq Elems(codec.held) \cup {fid}
    BY <1>6, <1>7
<1>9. Elems(Rest(parsed, m)) \subseteq Elems(codec.held) \cup {fid}
    BY <1>6, <1>7
<1>10. Len(Rest(parsed, m)) <= 1
    BY <1>5, <1>7
<1> HIDE DEF parsed
<1>11. /\ parsed \in Seq(Frame) /\ Take(parsed, m) \in Seq(Frame) /\ Rest(parsed, m) \in Seq(Frame)
       /\ Take(parsed, m) \o Rest(parsed, m) = parsed
    BY <1>4, <1>7
<1> QED
    BY <1>1, <1>2, <1>8, <1>9, <1>10, <1>11 DEF parsed

\* Sequences of pictures, and two of them put together: opaque, so that lemmas
\* about them can be applied.
Pics == Seq(Frame)

Cat(s, t) == s \o t

(***************************************************************************)
(* It does not matter in which order sequences are put together.           *)
(***************************************************************************)
LEMMA AssocFacts ==
    ASSUME NEW s \in Pics, NEW t \in Pics, NEW u \in Pics
    PROVE  Cat(s, t) \in Pics /\ Cat(Cat(s, t), u) = Cat(s, Cat(t, u))
<1>0. s \in Seq(Frame) /\ t \in Seq(Frame) /\ u \in Seq(Frame)
    BY DEF Pics
<1> DEFINE w == t \o u
           st == s \o t
           l == st \o u
           r == s \o w
<1>1. /\ Len(s) \in Nat /\ Len(t) \in Nat /\ Len(u) \in Nat
      /\ w \in Seq(Frame) /\ Len(w) = Len(t) + Len(u)
      /\ \A i \in 1 .. Len(t) + Len(u) : w[i] = IF i <= Len(t) THEN t[i] ELSE u[i - Len(t)]
    BY <1>0, ConcatProperties
<1> HIDE DEF w
<1>2. /\ st \in Seq(Frame) /\ Len(st) = Len(s) + Len(t)
      /\ \A i \in 1 .. Len(s) + Len(t) : st[i] = IF i <= Len(s) THEN s[i] ELSE t[i - Len(s)]
    BY <1>0, ConcatProperties
<1>3. /\ r \in Seq(Frame) /\ Len(r) = Len(s) + Len(w)
      /\ \A i \in 1 .. Len(s) + Len(w) : r[i] = IF i <= Len(s) THEN s[i] ELSE w[i - Len(s)]
  <2>1. s \in Seq(Frame) /\ w \in Seq(Frame)
    BY <1>0, <1>1
  <2> QED
    BY <2>1, ConcatProperties
<1> HIDE DEF st
<1>4. /\ l \in Seq(Frame) /\ Len(l) = Len(st) + Len(u)
      /\ \A i \in 1 .. Len(st) + Len(u) : l[i] = IF i <= Len(st) THEN st[i] ELSE u[i - Len(st)]
  <2>1. st \in Seq(Frame) /\ u \in Seq(Frame)
    BY <1>0, <1>2
  <2> QED
    BY <2>1, ConcatProperties
<1> HIDE DEF l, r
<1>5. ASSUME NEW i \in 1 .. Len(l) PROVE l[i] = r[i]
  <2>0. i \in Nat /\ 1 <= i /\ i <= Len(s) + Len(t) + Len(u)
    BY <1>1, <1>2, <1>4
  <2>1. CASE i <= Len(s)
    <3>1. /\ i \in 1 .. Len(s) + Len(t) /\ i \in 1 .. Len(s) + Len(w)
          /\ i \in 1 .. Len(st) + Len(u) /\ i <= Len(st)
      BY <1>1, <1>2, <2>0, <2>1
    <3>2. l[i] = st[i] /\ st[i] = s[i] /\ r[i] = s[i]
      BY <1>2, <1>3, <1>4, <2>1, <3>1
    <3> QED
      BY <3>2
  <2>2. CASE Len(s) < i /\ i <= Len(s) + Len(t)
    <3>1. i - Len(s) \in 1 .. Len(t) + Len(u) /\ i - Len(s) <= Len(t)
      BY <1>1, <2>0, <2>2
    <3>2. l[i] = t[i - Len(s)]
      <4>1. /\ i \in 1 .. Len(s) + Len(t) /\ ~(i <= Len(s))
            /\ i \in 1 .. Len(st) + Len(u) /\ i <= Len(st)
        BY <1>1, <1>2, <2>0, <2>2
      <4>2. l[i] = st[i] /\ st[i] = t[i - Len(s)]
        BY <1>2, <1>4, <4>1
      <4> QED
        BY <4>2
    <3>3. r[i] = w[i - Len(s)]
      BY <1>1, <1>3, <2>0, <2>2
    <3> QED
      BY <1>1, <3>1, <3>2, <3>3
  <2>3. CASE Len(s) + Len(t) < i
    <3>1. /\ i - Len(s) \in 1 .. Len(t) + Len(u) /\ ~(i - Len(s) <= Len(t))
          /\ (i - Len(s)) - Len(t) = i - Len(st)
      BY <1>1, <1>2, <2>0, <2>3
    <3>2. l[i] = u[i - Len(st)]
      BY <1>1, <1>2, <1>4, <2>0, <2>3
    <3>3. r[i] = w[i - Len(s)]
      BY <1>1, <1>3, <2>0, <2>3
    <3> QED
      BY <1>1, <3>1, <3>2, <3>3
  <2> QED
    BY <1>1, <2>0, <2>1, <2>2, <2>3
<1>6. Len(l) = Len(r)
    BY <1>1, <1>2, <1>3, <1>4
<1>7. l = r
    BY <1>3, <1>4, <1>5, <1>6, SeqEqual
<1> QED
    BY <1>2, <1>7 DEF l, r, st, w, Cat, Pics

(***************************************************************************)
(* A sequence of pictures may be cut in another place.                     *)
(***************************************************************************)
LEMMA RegroupFacts ==
    ASSUME NEW dpb \in Pics, NEW held \in Pics, NEW f \in Frame, NEW packets \in Pics,
           NEW kept \in Pics, Cat(packets, kept) = Cat(held, <<f>>)
    PROVE  Cat(Cat(dpb, packets), kept) = Append(<<>> \o dpb \o held, f)
<1> DEFINE z == <<f>>
           v == Cat(dpb, held)
<1>1. z \in Pics
    BY DEF Pics
<1> HIDE DEF z
<1>2. Cat(packets, kept) = Cat(held, z)
    BY DEF z
<1>3. v \in Pics /\ Cat(v, z) = Cat(dpb, Cat(held, z))
    BY <1>1, AssocFacts
<1>4. Cat(Cat(dpb, packets), kept) = Cat(dpb, Cat(packets, kept))
    BY AssocFacts
<1> HIDE DEF v
<1>5. Append(v, f) = v \o z
  <2>1. v \in Seq(Frame)
    BY <1>3 DEF Pics
  <2> QED
    BY <2>1 DEF z
<1>6. Append(v, f) = Cat(v, z)
    BY <1>5 DEF Cat
<1>7. v = <<>> \o dpb \o held
  <2>1. <<>> \o dpb = dpb
    BY ConcatEmptySeq DEF Pics
  <2> QED
    BY <2>1 DEF v, Cat
<1> QED
    BY <1>2, <1>3, <1>4, <1>6, <1>7

(***************************************************************************)
(* The sequences are put together from the left; a front can be taken      *)
(* away.                                                                   *)
(***************************************************************************)
LEMMA FrontFacts ==
    ASSUME NEW S, NEW s \in Seq(S), NEW t \in Seq(S)
    PROVE  /\ Rest(s \o t, Len(s)) = t
           /\ Len(s) <= Len(s \o t)
           /\ \A i \in 1 .. Len(s) : (s \o t)[i] = s[i]
<1>1. /\ s \o t \in Seq(S) /\ Len(s \o t) = Len(s) + Len(t)
      /\ \A i \in 1 .. Len(s) + Len(t) :
            (s \o t)[i] = IF i <= Len(s) THEN s[i] ELSE t[i - Len(s)]
      /\ Len(s) \in Nat /\ Len(t) \in Nat
    BY ConcatProperties
<1>2. Len(s) \in 0 .. Len(s \o t) /\ Len(s \o t) - Len(s) = Len(t)
    BY <1>1
<1>3. /\ Rest(s \o t, Len(s)) \in Seq(S) /\ Len(Rest(s \o t, Len(s))) = Len(s \o t) - Len(s)
      /\ \A i \in 1 .. Len(s \o t) - Len(s) : Rest(s \o t, Len(s))[i] = (s \o t)[i + Len(s)]
    BY <1>1, <1>2, CutFacts
<1>4. ASSUME NEW i \in 1 .. Len(t) PROVE Rest(s \o t, Len(s))[i] = t[i]
  <2>1. Rest(s \o t, Len(s))[i] = (s \o t)[i + Len(s)]
    BY <1>2, <1>3
  <2>2. /\ i + Len(s) \in 1 .. Len(s) + Len(t) /\ ~(i + Len(s) <= Len(s))
        /\ (i + Len(s)) - Len(s) = i
    BY <1>1
  <2> QED
    BY <1>1, <2>1, <2>2
<1>5. Rest(s \o t, Len(s)) = t
    BY <1>2, <1>3, <1>4, SeqEqual
<1> QED
    BY <1>1, <1>5

-----------------------------------------------------------------------------
(* Steps that touch no picture                                              *)

Labels == {"idle", "dead", "check", "new pop", "new clear", "new store", "feed config",
           "track", "feed", "bind", "failed", "flush bind", "flush pop", "flush clear"}

\* Where no frame is in the codec's hands.
Quiet == {"idle", "dead", "check", "new pop", "new clear", "new store", "feed config",
          "track", "flush pop", "flush clear"}

(***************************************************************************)
(* A thread goes where it goes; the other stays.                           *)
(***************************************************************************)
LEMMA GotoFacts ==
    ASSUME TypeOK, NEW t \in Thread, NEW l \in Labels, Goto(t, l)
    PROVE  /\ pc' \in [Thread -> Labels]
           /\ t = "play" => Play' = l
           /\ t = "net" => Play' = Play
    BY DEF TypeOK, Labels, Goto, Play, Thread

(***************************************************************************)
(* configs only ever gains the sub-picture.                                *)
(***************************************************************************)
LEMMA ConfigKeeps == TypeOK /\ [Next]_vars => config' \in BOOLEAN
<1>1. TypeOK => config \in BOOLEAN
    BY DEF TypeOK
<1> QED
    BY <1>1, ZenonT(60)
       DEF Next, SetConfig, AppendStep, FlushStep, Create, CheckCodec, NewPop, NewClear,
           NewStore, FeedConfig, AppendFrame, Track, Feed, FeedFails, RemoveNewest,
           BindFrames, BindFails, FlushDrain, FlushBind, FlushPop, FlushClear, inputs, vars

(***************************************************************************)
(* Outside the codec's use nothing is lost by pictures or ids going away.  *)
(***************************************************************************)
LEMMA QuietKeeps ==
    ASSUME IInv, UNCHANGED <<frames, out, fid, life, flushes>>,
           Pictures' \subseteq Pictures, pending' \in {pending, <<>>},
           upset \subseteq upset',
           Play' = Play \/ (Play \in Quiet /\ Play' \in Quiet)
    PROVE  /\ Tracking' /\ Below' /\ OneLife'
           /\ IdsAscend' /\ LivesApart' /\ RightIdsUnlessUpset'
<1> USE DEF IInv
<1>1. Elems(pending') \subseteq Elems(pending) /\ DOMAIN pending' \subseteq DOMAIN pending
      /\ \A j \in DOMAIN pending' : pending'[j] = pending[j]
    BY DEF Elems
<1>2. Tracking'
    BY <1>1 DEF Tracking, Quiet
<1>3. Below'
    BY DEF Below, Quiet
<1>4. OneLife'
    BY <1>1 DEF OneLife, Quiet
<1>5. IdsAscend' /\ LivesApart' /\ RightIdsUnlessUpset'
    BY DEF IdsAscend, LivesApart, RightIdsUnlessUpset
<1> QED
    BY <1>2, <1>3, <1>4, <1>5

(***************************************************************************)
(* SetConfig, AppendFrame and CheckCodec only move a thread.               *)
(***************************************************************************)
LEMMA ControlKeeps ==
    ASSUME IInv, config' \in BOOLEAN,
           \/ SetConfig \/ AppendFrame
           \/ \E t \in Thread : CheckCodec(t)
           \/ UNCHANGED vars
    PROVE  IInv'
<1> USE DecoderAssumption DEF IInv
<1>1. /\ UNCHANGED <<codec, pending, frames, out, fid, life, flushes, upset>>
      /\ Pictures' = Pictures
    BY DEF SetConfig, AppendFrame, CheckCodec, vars, inputs, Pictures
<1>2. /\ pc' \in [Thread -> Labels] /\ calls' \in 0 .. MaxConfigs
      /\ \/ Play' = Play
         \/ Play = "idle" /\ Play' \in {"check", "dead"} /\ fid < NumFrames
         \/ Play = "check" /\ Play' = "new pop"
         \/ Play = "check" /\ Play' = "track" /\ codec # None
  <2>1. CASE SetConfig
    <3>1. calls' \in 0 .. MaxConfigs
      <4>1. calls \in 0 .. MaxConfigs /\ MaxConfigs \in Nat
        BY DEF TypeOK
      <4>2. calls < MaxConfigs /\ calls' = calls + 1
        BY <2>1 DEF SetConfig
      <4> QED
        BY <4>1, <4>2
    <3>2. "net" \in Thread /\ "check" \in Labels /\ Goto("net", "check")
      BY <2>1 DEF SetConfig, Thread, Labels
    <3> QED
      BY <3>1, <3>2, GotoFacts
  <2>2. CASE AppendFrame
    <3>1. /\ "play" \in Thread /\ Play = "idle" /\ fid < NumFrames
          /\ calls' \in 0 .. MaxConfigs
      BY <2>2 DEF AppendFrame, Thread, Play, inputs, TypeOK
    <3>2. PICK l \in {"check", "dead"} : Goto("play", l)
      BY <2>2 DEF AppendFrame
    <3>3. l \in Labels
      BY DEF Labels
    <3> QED
      BY <3>1, <3>2, <3>3, GotoFacts
  <2>3. CASE \E t \in Thread : CheckCodec(t)
    <3>1. PICK t \in Thread : CheckCodec(t)
      BY <2>3
    <3>2. /\ pc[t] = "check" /\ calls' \in 0 .. MaxConfigs
          /\ Goto(t, IF codec = None THEN "new pop"
                     ELSE IF t = "net" THEN "feed config" ELSE "track")
      BY <3>1 DEF CheckCodec, inputs, TypeOK
    <3>3. PICK l \in {"new pop", "feed config", "track"} :
             /\ Goto(t, l)
             /\ t = "play" => (l = "new pop" \/ (l = "track" /\ codec # None))
      BY <3>2
    <3>4. l \in Labels /\ t \in {"net", "play"}
      BY DEF Labels, Thread
    <3> QED
      BY <3>2, <3>3, <3>4, GotoFacts DEF Play
  <2>4. CASE UNCHANGED vars
    BY <2>4 DEF vars, TypeOK, Labels, Play
  <2> QED
    BY <2>1, <2>2, <2>3, <2>4
<1>3. TypeOK'
    BY <1>1, <1>2 DEF TypeOK, Labels
<1>4. Busy' /\ Drained'
    BY <1>1, <1>2 DEF Busy, Drained
<1>5. InStep'
    BY <1>1, <1>2 DEF InStep, Queue, Inside
<1>6. Play' = Play \/ (Play \in Quiet /\ Play' \in Quiet)
    BY <1>2 DEF Quiet
<1> QED
    BY <1>1, <1>3, <1>4, <1>5, <1>6, QuietKeeps

(***************************************************************************)
(* _new_codec pops, clears and stores: a codec that is new is empty.       *)
(***************************************************************************)
LEMMA CreateKeeps ==
    ASSUME IInv, config' \in BOOLEAN, NEW t \in Thread, NewPop(t) \/ NewClear(t) \/ NewStore(t)
    PROVE  IInv'
<1> USE DecoderAssumption DEF IInv
<1>1. /\ UNCHANGED <<frames, out, fid, calls, life, flushes>>
      /\ upset' = IF codec # None THEN upset \cup {"two codecs"} ELSE upset
    BY DEF NewPop, NewClear, NewStore, inputs, Upset
<1>2. /\ pc' \in [Thread -> Labels]
      /\ \/ Play' = Play
         \/ /\ Play \in {"new pop", "new clear", "new store"}
            /\ Play' \in {"new clear", "new store", "feed config"}
            /\ Play' = "feed config" => NewStore(t)
  <2>1. PICK l \in {"new clear", "new store", "feed config"} :
           Goto(t, l) /\ pc[t] \in {"new pop", "new clear", "new store"}
                      /\ (l = "feed config" => NewStore(t))
    BY DEF NewPop, NewClear, NewStore
  <2>2. l \in Labels /\ t \in {"net", "play"}
    BY DEF Labels, Thread
  <2> QED
    BY <2>1, <2>2, GotoFacts DEF Play
<1>3. NewCodec \in Codecs /\ NewCodec.held = <<>> /\ NewCodec.dpb = <<>>
  <2>1. FALSE \in BOOLEAN /\ <<>> \in Seq(Frame)
    OBVIOUS
  <2> QED
    BY <2>1 DEF NewCodec, Codecs
<1>4. NewCodec # None /\ Elems(<<>>) = {} /\ Len(<<>>) = 0 /\ <<>> \in Seq(Frame)
    BY <1>3, NoneAssumption DEF Elems
<1>5. /\ codec' \in {codec, None, NewCodec}
      /\ NewStore(t) => codec' = NewCodec
      /\ codec' = codec \/ pending' = pending
      /\ pending' \in {pending, <<>>}
      /\ codec' = NewCodec => codec' = codec \/ NewStore(t)
      /\ codec' # codec /\ ~NewStore(t) => codec' = None
    BY <1>4 DEF NewPop, NewClear, NewStore, ClearPending
<1>6. TypeOK'
  <2>0. codec # None => codec \in Codecs /\ Len(codec.held) <= 1 /\ Len(codec.dpb) <= Delay
    BY DEF TypeOK
  <2>1. codec' # None => codec' \in Codecs /\ Len(codec'.held) <= 1 /\ Len(codec'.dpb) <= Delay
    <3>1. Len(NewCodec.held) <= 1 /\ Len(NewCodec.dpb) <= Delay
      BY <1>3, <1>4
    <3> QED
      BY <1>3, <1>5, <2>0, <3>1
  <2>2. upset' \subseteq {"two codecs", "config between frames", "decode error"}
    BY <1>1 DEF TypeOK
  <2>3. pending' \in Seq(Frame)
    BY <1>4, <1>5 DEF TypeOK
  <2> QED
    BY <1>1, <1>2, <2>1, <2>2, <2>3 DEF TypeOK, Labels
<1>7. Pictures' \subseteq Pictures
    BY <1>1, <1>3, <1>4, <1>5 DEF Pictures
<1>8. Busy' /\ Drained'
    BY <1>1, <1>2, <1>3, <1>5 DEF Busy, Drained
<1>9. InStep'
  <2> SUFFICES ASSUME upset' = {}
               PROVE  /\ Play' # "failed"
                      /\ Play' \in {"feed config", "track", "feed", "bind", "flush bind",
                                    "flush pop"} => codec' # None
                      /\ pending' = IF codec' = None THEN <<>> ELSE Queue'
    BY DEF InStep
  <2>1. upset = {} /\ codec = None
    BY <1>1
  <2>2. /\ Play \notin {"failed", "feed config", "track", "feed", "bind", "flush bind", "flush pop"}
        /\ pending = <<>> /\ frames = <<>>
    BY <2>1 DEF InStep, Busy
  <2>3. CASE NewStore(t)
    <3>1. codec' = NewCodec /\ pending' = <<>>
      BY <1>4, <1>5, <2>2, <2>3
    <3>2. Inside' = <<>>
      <4>1. Inside' = <<>> \o <<>> \o <<>>
        BY <1>1, <1>3, <2>2, <3>1 DEF Inside
      <4> QED
        BY <4>1
    <3>3. Queue' = <<>>
      BY <1>2, <2>2, <3>2 DEF Queue
    <3> QED
      BY <1>2, <1>4, <2>2, <3>1, <3>3
  <2>4. CASE ~NewStore(t)
    <3>1. codec' = None /\ pending' = <<>>
      BY <1>5, <2>1, <2>2, <2>4
    <3> QED
      BY <1>2, <2>2, <2>4, <3>1
  <2> QED
    BY <2>3, <2>4
<1>10. Play' = Play \/ (Play \in Quiet /\ Play' \in Quiet)
    BY <1>2 DEF Quiet
<1> QED
    BY <1>1, <1>5, <1>6, <1>7, <1>8, <1>9, <1>10, QuietKeeps

(***************************************************************************)
(* The parameter sets end the picture the parser holds; with an id pending *)
(* that is noted.                                                          *)
(***************************************************************************)
LEMMA FeedConfigKeeps ==
    ASSUME IInv, config' \in BOOLEAN, NEW t \in Thread, FeedConfig(t)
    PROVE  IInv'
<1> USE DecoderAssumption DEF IInv
<1>1. /\ UNCHANGED <<pending, frames, out, fid, calls, life, flushes>>
      /\ upset' = IF codec # None /\ pending # <<>> THEN upset \cup {"config between frames"}
                                                   ELSE upset
    BY DEF FeedConfig, inputs, Upset
<1>2. /\ pc' \in [Thread -> Labels]
      /\ \/ Play' = Play
         \/ Play = "feed config" /\ Play' \in {"dead", "track"} /\ (codec # None \/ Play' = "dead")
  <2>1. PICK l \in {"dead", "idle", "track"} :
           /\ Goto(t, l) /\ pc[t] = "feed config"
           /\ t = "play" => l \in {"dead", "track"} /\ (codec # None \/ l = "dead")
    BY DEF FeedConfig
  <2>2. l \in Labels /\ t \in {"net", "play"}
    BY DEF Labels, Thread
  <2> QED
    BY <2>1, <2>2, GotoFacts DEF Play
<1>3. codec # None => codec \in Codecs /\ codec.held \in Seq(Frame) /\ codec.dpb \in Seq(Frame)
    BY DEF TypeOK, Codecs
<1>4. /\ codec = None => codec' = None
      /\ codec # None => /\ codec' \in Codecs /\ codec' # None
                         /\ codec'.held = <<>> /\ Len(codec'.dpb) <= Delay
                         /\ Elems(codec'.dpb) \subseteq Elems(codec.dpb) \cup Elems(codec.held)
                         /\ codec.dpb = <<>> /\ codec.held = <<>> => codec'.dpb = <<>>
  <2>1. CASE codec = None
    BY <2>1 DEF FeedConfig
  <2>2. CASE codec # None /\ codec' = [codec EXCEPT !.ready = TRUE, !.held = <<>>]
    <3>1. <<>> \in Seq(Frame)
      OBVIOUS
    <3>2. codec' \in Codecs /\ codec' # None /\ codec'.held = <<>> /\ codec'.dpb = codec.dpb
      <4>1. codec' \in Codecs
        BY <1>3, <2>2, <3>1, Zenon DEF Codecs
      <4>2. codec'.held = <<>> /\ codec'.dpb = codec.dpb
        BY <1>3, <2>2, <3>1 DEF Codecs
      <4> QED
        BY <4>1, <4>2, NoneAssumption
    <3> QED
      BY <2>2, <3>2 DEF TypeOK
  <2>3. CASE /\ codec # None
             /\ LET all == codec.dpb \o codec.held
                IN  \E n \in 0 .. Len(all) :
                       /\ Len(all) - n <= Delay
                       /\ codec' = [codec EXCEPT !.ready = TRUE, !.held = <<>>,
                                                 !.dpb = Rest(all, n)]
    <3> DEFINE all == codec.dpb \o codec.held
    <3>1. PICK n \in 0 .. Len(all) :
             /\ Len(all) - n <= Delay
             /\ codec' = [codec EXCEPT !.ready = TRUE, !.held = <<>>, !.dpb = Rest(all, n)]
      BY <2>3
    <3>2. all \in Seq(Frame) /\ Elems(all) = Elems(codec.dpb) \cup Elems(codec.held)
      BY <1>3, <2>3, ConcatProperties, ElemsFacts
    <3>3. /\ Rest(all, n) \in Seq(Frame) /\ Len(Rest(all, n)) = Len(all) - n
          /\ Elems(Rest(all, n)) \subseteq Elems(all)
      BY <3>2, CutFacts
    <3>4. <<>> \in Seq(Frame)
      OBVIOUS
    <3>5. codec' \in Codecs /\ codec' # None /\ codec'.held = <<>> /\ codec'.dpb = Rest(all, n)
      <4> DEFINE y == Rest(all, n)
                 x == <<>>
      <4>1. codec \in Codecs /\ x \in Seq(Frame) /\ y \in Seq(Frame)
        BY <1>3, <2>3, <3>3, <3>4
      <4>2. codec' = [codec EXCEPT !.ready = TRUE, !.held = x, !.dpb = y]
        BY <3>1
      <4> HIDE DEF x, y
      <4>3. codec' \in Codecs /\ codec' # None /\ codec'.held = x /\ codec'.dpb = y
        <5>1. codec' \in Codecs
          BY <4>1, <4>2, Zenon DEF Codecs
        <5>2. codec'.held = x /\ codec'.dpb = y
          BY <4>1, <4>2 DEF Codecs
        <5> QED
          BY <5>1, <5>2, NoneAssumption
      <4> QED
        BY <4>3 DEF x, y
    <3>6. ASSUME codec.dpb = <<>>, codec.held = <<>> PROVE codec'.dpb = <<>>
      <4>1. Len(all) = 0
        BY <3>6
      <4>2. Len(codec'.dpb) = 0
        BY <3>3, <3>5, <4>1
      <4> QED
        BY <3>3, <3>5, <4>2
    <3> QED
      BY <2>3, <3>1, <3>2, <3>3, <3>5, <3>6
  <2> QED
    BY <2>1, <2>2, <2>3 DEF FeedConfig
<1>5. Elems(<<>>) = {} /\ Len(<<>>) = 0
    BY DEF Elems
<1>6. TypeOK'
  <2>1. codec' # None => codec' \in Codecs /\ Len(codec'.held) <= 1 /\ Len(codec'.dpb) <= Delay
    BY <1>4, <1>5
  <2>2. upset' \subseteq {"two codecs", "config between frames", "decode error"}
    BY <1>1 DEF TypeOK
  <2> QED
    BY <1>1, <1>2, <2>1, <2>2 DEF TypeOK, Labels
<1>7. Pictures' \subseteq Pictures
    BY <1>1, <1>4, <1>5 DEF Pictures
<1>8. Busy' /\ Drained'
    BY <1>1, <1>2, <1>4 DEF Busy, Drained
<1>9. InStep'
  <2> SUFFICES ASSUME upset' = {}
               PROVE  /\ Play' # "failed"
                      /\ Play' \in {"feed config", "track", "feed", "bind", "flush bind",
                                    "flush pop"} => codec' # None
                      /\ pending' = IF codec' = None THEN <<>> ELSE Queue'
    BY DEF InStep
  <2>1. upset = {} /\ (codec = None \/ pending = <<>>)
    BY <1>1
  <2>2. CASE codec = None
    BY <1>1, <1>2, <1>4, <2>1, <2>2 DEF InStep
  <2>3. CASE codec # None
    <3>1. Queue = <<>> /\ pending = <<>>
      BY <2>1, <2>3 DEF InStep
    <3>2. frames \in Seq(Frame) /\ codec.dpb \in Seq(Frame) /\ codec.held \in Seq(Frame)
      BY <1>3, <2>3 DEF TypeOK
    <3>3. Play # "feed" /\ Inside = <<>>
      <4>1. Inside \in Seq(Frame)
        BY <3>2, ConcatProperties DEF Inside
      <4>2. Append(Inside, fid) # <<>>
        BY <4>1
      <4> QED
        BY <3>1, <4>2 DEF Queue
    <3>4. frames = <<>> /\ codec.dpb = <<>> /\ codec.held = <<>>
      <4>1. frames \o codec.dpb \in Seq(Frame)
        BY <3>2, ConcatProperties
      <4>2. frames \o codec.dpb = <<>> /\ codec.held = <<>>
        BY <3>2, <3>3, <4>1, ConcatEqualIffEmpty DEF Inside
      <4> QED
        BY <3>2, <4>2, ConcatEqualIffEmpty
    <3>5. Inside' = <<>>
      <4>1. Inside' = <<>> \o <<>> \o <<>>
        BY <1>1, <1>4, <2>3, <3>4 DEF Inside
      <4> QED
        BY <4>1
    <3>6. Queue' = <<>>
      BY <1>2, <3>3, <3>5 DEF Queue
    <3> QED
      BY <1>1, <1>2, <1>4, <2>1, <2>3, <3>1, <3>6 DEF InStep
  <2> QED
    BY <2>2, <2>3
<1>10. Play' = Play \/ (Play \in Quiet /\ Play' \in Quiet)
    BY <1>2 DEF Quiet
<1> QED
    BY <1>1, <1>6, <1>7, <1>8, <1>9, <1>10, QuietKeeps

-----------------------------------------------------------------------------
(* append_frame                                                             *)

(***************************************************************************)
(* Track: the frame's id is above every id before it.                      *)
(***************************************************************************)
LEMMA TrackKeeps ==
    ASSUME IInv, config' \in BOOLEAN, Track
    PROVE  IInv'
<1> USE DecoderAssumption DEF IInv
<1>1. /\ UNCHANGED <<codec, frames, out, fid, calls, flushes, upset>>
      /\ pending' = Append(pending, fid) /\ life' = [life EXCEPT ![fid] = flushes]
      /\ Play = "track"
    BY DEF Track, Play
<1>2. pc' \in [Thread -> Labels] /\ Play' = "feed"
  <2>1. "play" \in Thread /\ "feed" \in Labels /\ Goto("play", "feed")
    BY DEF Track, Thread, Labels
  <2> QED
    BY <2>1, GotoFacts
<1>3. fid \in Frame /\ fid < NumFrames
  <2>1. fid \in 0 .. NumFrames /\ fid < NumFrames
    BY <1>1 DEF TypeOK, Busy
  <2> QED
    BY <2>1 DEF Frame
<1>4. /\ pending \in Seq(Frame) /\ pending' \in Seq(Frame)
      /\ life \in [Frame -> Nat] /\ flushes \in Nat
  <2>1. pending \in Seq(Frame) /\ life \in [Frame -> Nat] /\ flushes \in Nat
    BY DEF TypeOK
  <2> QED
    BY <1>1, <1>3, <2>1
<1>5. TypeOK'
  <2>1. life' \in [Frame -> Nat]
    BY <1>1, <1>4
  <2> QED
    BY <1>1, <1>2, <1>4, <2>1 DEF TypeOK, Labels
<1>6. Busy' /\ Drained'
    BY <1>1, <1>2, <1>3 DEF Busy, Drained
<1>7. Pictures' = Pictures
    BY <1>1 DEF Pictures
<1>8. /\ Len(pending') = Len(pending) + 1 /\ pending'[Len(pending) + 1] = fid
      /\ \A i \in 1 .. Len(pending) : pending'[i] = pending[i]
      /\ DOMAIN pending = 1 .. Len(pending) /\ DOMAIN pending' = 1 .. Len(pending) + 1
      /\ Len(pending) \in Nat
    BY <1>1, <1>4
<1>9. \A j \in DOMAIN pending : pending[j] < fid /\ pending[j] \in Nat
    BY <1>1, <1>4 DEF Tracking, Frame
<1>10. Tracking'
  <2>1. \A i, j \in DOMAIN pending' : i < j => pending'[i] < pending'[j]
    BY <1>8, <1>9 DEF Tracking
  <2>2. \A i \in DOMAIN out, j \in DOMAIN pending' : out[i].id < pending'[j]
    BY <1>8 DEF Tracking, Below
  <2>3. \A j \in DOMAIN pending' : pending'[j] < fid \/ pending'[j] = fid
    BY <1>8, <1>9
  <2> QED
    BY <1>1, <1>2, <2>1, <2>2, <2>3 DEF Tracking
<1>11. Below'
    BY <1>1, <1>2, <1>7 DEF Below
<1>12. \A f \in Frame : f # fid => life'[f] = life[f]
    BY <1>1, <1>4
<1>13. Elems(pending') = Elems(pending) \cup {fid}
  <2>1. Elems(pending') \subseteq Elems(pending) \cup {fid}
    BY <1>8 DEF Elems
  <2>2. Elems(pending) \subseteq Elems(pending') /\ fid \in Elems(pending')
    BY <1>8 DEF Elems
  <2> QED
    BY <2>1, <2>2
<1>14. Pictures \subseteq Frame /\ Elems(pending) \subseteq Frame
  <2>1. Elems(frames) \subseteq Frame /\ Elems(pending) \subseteq Frame
    BY <1>4, ElemsFacts DEF TypeOK
  <2>2. codec # None => Elems(codec.dpb) \subseteq Frame /\ Elems(codec.held) \subseteq Frame
    <3>1. codec # None => codec.dpb \in Seq(Frame) /\ codec.held \in Seq(Frame)
      BY DEF TypeOK, Codecs
    <3> QED
      BY <3>1, ElemsFacts
  <2> QED
    BY <2>1, <2>2 DEF Pictures
<1>15. OneLife'
  <2>1. \A f \in Elems(pending) \cup Pictures : life[f] = flushes
    BY DEF OneLife
  <2>2. life'[fid] = flushes
    BY <1>1, <1>3, <1>4
  <2>3. \A f \in Elems(pending') \cup Pictures' : life'[f] = flushes
    BY <1>7, <1>12, <1>13, <1>14, <2>1, <2>2
  <2> QED
    BY <1>1, <2>2, <2>3 DEF OneLife
<1>16. \A i \in DOMAIN out : /\ out[i].id \in Frame /\ out[i].frame \in Frame
                            /\ out[i].id # fid /\ out[i].frame # fid
  <2>1. \A i \in DOMAIN out : out[i] \in [id : Frame, frame : Frame]
    <3> DEFINE Item == [id : Frame, frame : Frame]
    <3>1. out \in Seq(Item)
      BY DEF TypeOK
    <3> HIDE DEF Item
    <3>2. \A i \in DOMAIN out : out[i] \in Item
      BY <3>1
    <3> QED
      BY <3>2 DEF Item
  <2>2. \A i \in DOMAIN out : out[i].id < fid /\ out[i].frame < fid
    BY DEF Below
  <2> QED
    BY <1>3, <2>1, <2>2 DEF Frame
<1>17. LivesApart'
    BY <1>1, <1>12, <1>16 DEF LivesApart
<1>18. IdsAscend' /\ RightIdsUnlessUpset'
    BY <1>1 DEF IdsAscend, RightIdsUnlessUpset
<1>19. InStep'
    BY <1>1, <1>2 DEF InStep, Queue, Inside
<1> QED
    BY <1>5, <1>6, <1>10, <1>11, <1>15, <1>17, <1>18, <1>19

(***************************************************************************)
(* When a picture has gone into the codec, what is in it is not ahead of   *)
(* the frame at hand, and of its life.                                     *)
(***************************************************************************)
LEMMA AfterFeed ==
    ASSUME IInv, Play = "feed", Play' \in {"bind", "failed"},
           UNCHANGED <<pending, out, fid, life, flushes>>,
           Pictures' \subseteq Pictures \cup {fid}, upset \subseteq upset'
    PROVE  /\ Tracking' /\ Below' /\ OneLife'
           /\ IdsAscend' /\ LivesApart' /\ RightIdsUnlessUpset'
<1> USE DEF IInv
<1>1. Tracking'
    BY DEF Tracking
<1>2. Below'
    BY DEF Below
<1>3. OneLife'
    BY DEF OneLife
<1>4. IdsAscend' /\ LivesApart' /\ RightIdsUnlessUpset'
    BY DEF IdsAscend, LivesApart, RightIdsUnlessUpset
<1> QED
    BY <1>1, <1>2, <1>3, <1>4

(***************************************************************************)
(* Feed: what comes out, what stays, and what is held are what was there   *)
(* and the new picture, in order.                                          *)
(***************************************************************************)
LEMMA FeedKeeps ==
    ASSUME IInv, config' \in BOOLEAN, Feed
    PROVE  IInv'
<1> USE DecoderAssumption DEF IInv
<1>1. /\ UNCHANGED <<pending, out, fid, calls, life, flushes, upset>>
      /\ Play = "feed" /\ codec # None
    BY DEF Feed, inputs, Play
<1>2. pc' \in [Thread -> Labels] /\ Play' = "bind"
  <2>1. "play" \in Thread /\ "bind" \in Labels /\ Goto("play", "bind")
    BY DEF Feed, Thread, Labels
  <2> QED
    BY <2>1, GotoFacts
<1>3. frames = <<>> /\ fid < NumFrames
    BY <1>1 DEF Busy
<1> DEFINE parsed == codec.held \o <<fid>>
<1>4. PICK k \in 0 .. 1 :
         LET all == codec.dpb \o Take(parsed, Len(parsed) - k)
         IN  \E n \in 0 .. Len(all) :
                /\ Len(all) - n <= Delay
                /\ frames' = Take(all, n)
                /\ codec' = [codec EXCEPT !.held = Rest(parsed, Len(parsed) - k),
                                          !.dpb = Rest(all, n)]
    BY DEF Feed
<1> DEFINE packets == Take(parsed, Len(parsed) - k)
           kept == Rest(parsed, Len(parsed) - k)
           all == codec.dpb \o packets
<1>5. PICK n \in 0 .. Len(all) :
         /\ Len(all) - n <= Delay
         /\ frames' = Take(all, n)
         /\ codec' = [codec EXCEPT !.held = kept, !.dpb = Rest(all, n)]
    BY <1>4
<1>6. /\ parsed \in Seq(Frame) /\ packets \in Seq(Frame) /\ kept \in Seq(Frame)
      /\ codec \in Codecs /\ codec.dpb \in Seq(Frame) /\ codec.held \in Seq(Frame)
      /\ Len(kept) <= 1 /\ packets \o kept = parsed
      /\ Elems(packets) \subseteq Elems(codec.held) \cup {fid}
      /\ Elems(kept) \subseteq Elems(codec.held) \cup {fid}
      /\ fid \in Frame
    BY <1>1, FeedFacts
<1> HIDE DEF packets, kept, parsed
<1>7. all \in Seq(Frame) /\ Elems(all) = Elems(codec.dpb) \cup Elems(packets)
    BY <1>6, ConcatProperties, ElemsFacts
<1> HIDE DEF all
<1> DEFINE y == Rest(all, n)
<1>8. /\ frames' \in Seq(Frame) /\ y \in Seq(Frame) /\ Len(y) = Len(all) - n
      /\ frames' \o y = all
      /\ Elems(frames') \subseteq Elems(all) /\ Elems(y) \subseteq Elems(all)
    BY <1>5, <1>7, CutFacts
<1>9. codec' = [codec EXCEPT !.held = kept, !.dpb = y]
    BY <1>5
<1>10. Len(y) <= Delay
    BY <1>5, <1>8
<1> HIDE DEF y
<1>11. codec' \in Codecs /\ codec' # None /\ codec'.held = kept /\ codec'.dpb = y
  <2>1. codec' \in Codecs
    BY <1>6, <1>8, <1>9, Zenon DEF Codecs
  <2>2. codec'.held = kept /\ codec'.dpb = y
    BY <1>6, <1>8, <1>9 DEF Codecs
  <2> QED
    BY <2>1, <2>2, NoneAssumption
<1>12. TypeOK'
  <2>1. codec' # None => codec' \in Codecs /\ Len(codec'.held) <= 1 /\ Len(codec'.dpb) <= Delay
    BY <1>6, <1>10, <1>11
  <2> QED
    BY <1>1, <1>2, <1>8, <2>1 DEF TypeOK, Labels
<1>13. Pictures' \subseteq Pictures \cup {fid}
    BY <1>1, <1>6, <1>7, <1>8, <1>11 DEF Pictures
<1>14. Busy' /\ Drained'
    BY <1>1, <1>2, <1>3 DEF Busy, Drained
<1>15. InStep'
  <2> SUFFICES ASSUME upset = {} PROVE pending = Queue'
    BY <1>1, <1>2, <1>11 DEF InStep
  <2>1. pending = Append(<<>> \o codec.dpb \o codec.held, fid)
    BY <1>1, <1>3 DEF InStep, Queue, Inside
  <2>2. (codec.dpb \o packets) \o kept = Append(<<>> \o codec.dpb \o codec.held, fid)
    <3> DEFINE dpb == codec.dpb
               held == codec.held
    <3>1. /\ dpb \in Pics /\ held \in Pics /\ packets \in Pics /\ kept \in Pics
          /\ Cat(packets, kept) = Cat(held, <<fid>>) /\ fid \in Frame
      BY <1>6 DEF parsed, Pics, Cat
    <3> HIDE DEF dpb, held
    <3>2. Cat(Cat(dpb, packets), kept) = Append(<<>> \o dpb \o held, fid)
      BY <3>1, RegroupFacts
    <3> QED
      BY <3>2 DEF dpb, held, Cat
  <2>3. Queue' = (frames' \o y) \o kept
    BY <1>2, <1>11 DEF Queue, Inside
  <2> QED
    BY <1>8, <2>1, <2>2, <2>3 DEF all
<1> QED
    BY <1>1, <1>2, <1>12, <1>13, <1>14, <1>15, AfterFeed

(***************************************************************************)
(* FeedFails: pictures are lost, and that is noted.                        *)
(***************************************************************************)
LEMMA FeedFailsKeeps ==
    ASSUME IInv, config' \in BOOLEAN, FeedFails
    PROVE  IInv'
<1> USE DecoderAssumption DEF IInv
<1>1. /\ UNCHANGED <<pending, frames, out, fid, calls, life, flushes>>
      /\ Play = "feed" /\ upset' = upset \cup {"decode error"}
    BY DEF FeedFails, inputs, Play, Upset
<1>2. pc' \in [Thread -> Labels] /\ Play' = "failed"
  <2>1. "play" \in Thread /\ "failed" \in Labels /\ Goto("play", "failed")
    BY DEF FeedFails, Thread, Labels
  <2> QED
    BY <2>1, GotoFacts
<1>3. frames = <<>> /\ fid < NumFrames
    BY <1>1 DEF Busy
<1>4. /\ codec = None => codec' = None
      /\ codec # None => /\ codec' \in Codecs /\ codec' # None
                         /\ Len(codec'.held) <= 1 /\ Len(codec'.dpb) <= Delay
                         /\ Elems(codec'.dpb) \cup Elems(codec'.held)
                              \subseteq Elems(codec.dpb) \cup Elems(codec.held) \cup {fid}
  <2>1. CASE codec = None
    BY <2>1 DEF FeedFails
  <2>2. CASE codec # None
    <3> DEFINE parsed == codec.held \o <<fid>>
    <3>1. PICK k \in 0 .. 1 :
             LET packets == Take(parsed, Len(parsed) - k)
             IN  \E e \in DOMAIN packets :
                    LET all == codec.dpb \o Take(packets, e - 1)
                    IN  \E n \in 0 .. Len(all) :
                           /\ Len(all) - n <= Delay
                           /\ codec' = [codec EXCEPT !.held = Rest(parsed, Len(parsed) - k),
                                                     !.dpb = Rest(all, n)]
      BY <2>2 DEF FeedFails
    <3> DEFINE packets == Take(parsed, Len(parsed) - k)
               kept == Rest(parsed, Len(parsed) - k)
    <3>2. /\ packets \in Seq(Frame) /\ kept \in Seq(Frame)
          /\ codec \in Codecs /\ codec.dpb \in Seq(Frame) /\ codec.held \in Seq(Frame)
          /\ Len(kept) <= 1
          /\ Elems(packets) \subseteq Elems(codec.held) \cup {fid}
          /\ Elems(kept) \subseteq Elems(codec.held) \cup {fid}
      BY <1>1, <2>2, FeedFacts
    <3>3. PICK e \in DOMAIN packets :
             LET all == codec.dpb \o Take(packets, e - 1)
             IN  \E n \in 0 .. Len(all) :
                    /\ Len(all) - n <= Delay
                    /\ codec' = [codec EXCEPT !.held = kept, !.dpb = Rest(all, n)]
      BY <3>1
    <3> HIDE DEF packets, kept
    <3> DEFINE good == Take(packets, e - 1)
    <3>4. good \in Seq(Frame) /\ Elems(good) \subseteq Elems(packets)
      <4>1. e - 1 \in 0 .. Len(packets)
        BY <3>2
      <4> QED
        BY <3>2, <4>1, CutFacts
    <3> DEFINE all == codec.dpb \o good
    <3>5. PICK n \in 0 .. Len(all) :
             /\ Len(all) - n <= Delay
             /\ codec' = [codec EXCEPT !.held = kept, !.dpb = Rest(all, n)]
      BY <3>3
    <3> HIDE DEF good
    <3>6. all \in Seq(Frame) /\ Elems(all) = Elems(codec.dpb) \cup Elems(good)
      BY <3>2, <3>4, ConcatProperties, ElemsFacts
    <3> HIDE DEF all
    <3> DEFINE y == Rest(all, n)
    <3>7. y \in Seq(Frame) /\ Len(y) <= Delay /\ Elems(y) \subseteq Elems(all)
      BY <3>5, <3>6, CutFacts
    <3>8. codec' = [codec EXCEPT !.held = kept, !.dpb = y]
      BY <3>5
    <3> HIDE DEF y
    <3>9. codec' \in Codecs /\ codec' # None /\ codec'.held = kept /\ codec'.dpb = y
      <4>1. codec' \in Codecs
        BY <3>2, <3>7, <3>8, Zenon DEF Codecs
      <4>2. codec'.held = kept /\ codec'.dpb = y
        BY <3>2, <3>7, <3>8 DEF Codecs
      <4> QED
        BY <4>1, <4>2, NoneAssumption
    <3> QED
      BY <2>2, <3>2, <3>4, <3>6, <3>7, <3>9
  <2> QED
    BY <2>1, <2>2
<1>5. TypeOK'
  <2>1. codec' # None => codec' \in Codecs /\ Len(codec'.held) <= 1 /\ Len(codec'.dpb) <= Delay
    BY <1>4
  <2>2. upset' \subseteq {"two codecs", "config between frames", "decode error"}
    BY <1>1 DEF TypeOK
  <2> QED
    BY <1>1, <1>2, <2>1, <2>2 DEF TypeOK, Labels
<1>6. Pictures' \subseteq Pictures \cup {fid}
    BY <1>1, <1>4 DEF Pictures
<1>7. Busy' /\ Drained' /\ InStep'
    BY <1>1, <1>2, <1>3 DEF Busy, Drained, InStep
<1> QED
    BY <1>1, <1>2, <1>5, <1>6, <1>7, AfterFeed

(***************************************************************************)
(* Ids and pictures are frames.                                            *)
(***************************************************************************)
LEMMA WhereFacts ==
    TypeOK => /\ Pictures \subseteq Frame /\ Elems(pending) \subseteq Frame
              /\ DOMAIN out = 1 .. Len(out) /\ Len(out) \in Nat
              /\ \A i \in DOMAIN out : out[i].id \in Frame /\ out[i].frame \in Frame
              /\ pending \in Seq(Frame) /\ frames \in Seq(Frame) /\ fid \in Nat
              /\ Frame \subseteq Nat
<1> SUFFICES ASSUME TypeOK
             PROVE  /\ Pictures \subseteq Frame /\ Elems(pending) \subseteq Frame
                    /\ DOMAIN out = 1 .. Len(out) /\ Len(out) \in Nat
                    /\ \A i \in DOMAIN out : out[i].id \in Frame /\ out[i].frame \in Frame
                    /\ pending \in Seq(Frame) /\ frames \in Seq(Frame) /\ fid \in Nat
                    /\ Frame \subseteq Nat
    OBVIOUS
<1>1. pending \in Seq(Frame) /\ frames \in Seq(Frame) /\ fid \in Nat
  <2>1. pending \in Seq(Frame) /\ frames \in Seq(Frame) /\ fid \in 0 .. NumFrames
    BY DEF TypeOK
  <2>2. fid \in Nat
    BY <2>1, DecoderAssumption
  <2> QED
    BY <2>1, <2>2
<1>2. codec # None => codec.dpb \in Seq(Frame) /\ codec.held \in Seq(Frame)
    BY DEF TypeOK, Codecs
<1>3. Pictures \subseteq Frame /\ Elems(pending) \subseteq Frame
  <2>1. Elems(frames) \subseteq Frame /\ Elems(pending) \subseteq Frame
    BY <1>1, ElemsFacts
  <2>2. codec # None => Elems(codec.dpb) \subseteq Frame /\ Elems(codec.held) \subseteq Frame
    BY <1>2, ElemsFacts
  <2> QED
    BY <2>1, <2>2 DEF Pictures
<1> DEFINE Item == [id : Frame, frame : Frame]
<1>4. out \in Seq(Item)
    BY DEF TypeOK
<1> HIDE DEF Item
<1>5. DOMAIN out = 1 .. Len(out) /\ Len(out) \in Nat /\ \A i \in DOMAIN out : out[i] \in Item
    BY <1>4
<1>6. \A i \in DOMAIN out : out[i].id \in Frame /\ out[i].frame \in Frame
    BY <1>5 DEF Item
<1>7. Frame \subseteq Nat
    BY DecoderAssumption DEF Frame
<1> QED
    BY <1>1, <1>3, <1>5, <1>6, <1>7

IsEmpty(s) == s = <<>>

(***************************************************************************)
(* An empty sequence has nothing in it.                                    *)
(***************************************************************************)
LEMMA EmptyFacts ==
    ASSUME NEW s, IsEmpty(s)
    PROVE  Elems(s) = {} /\ DOMAIN s = {}
<1> QED
    BY DEF Elems, IsEmpty

(***************************************************************************)
(* RemoveNewest: whether the id goes or stays, the next frame is above it. *)
(***************************************************************************)
LEMMA RemoveNewestKeeps ==
    ASSUME IInv, config' \in BOOLEAN, RemoveNewest
    PROVE  IInv'
<1> USE DecoderAssumption DEF IInv
<1>1. /\ UNCHANGED <<codec, frames, out, calls, life, flushes, upset>>
      /\ Play = "failed" /\ fid' = fid + 1
      /\ pending' \in {pending, Take(pending, Len(pending) - 1)}
      /\ pending' # pending => pending # <<>>
    BY DEF RemoveNewest, Play
<1>2. pc' \in [Thread -> Labels] /\ Play' = "idle"
  <2>1. "play" \in Thread /\ "idle" \in Labels /\ Goto("play", "idle")
    BY DEF RemoveNewest, Thread, Labels
  <2> QED
    BY <2>1, GotoFacts
<1>3. frames = <<>> /\ fid < NumFrames /\ upset # {}
    BY <1>1 DEF Busy, InStep
<1>4. /\ Pictures \subseteq Frame /\ Elems(pending) \subseteq Frame
      /\ \A i \in DOMAIN out : out[i].id \in Frame /\ out[i].frame \in Frame
      /\ pending \in Seq(Frame) /\ fid \in Nat /\ Frame \subseteq Nat
    BY WhereFacts
<1>5. /\ pending' \in Seq(Frame) /\ DOMAIN pending' \subseteq DOMAIN pending
      /\ \A j \in DOMAIN pending' : pending'[j] = pending[j]
  <2>1. CASE pending' = pending
    BY <1>4, <2>1
  <2>2. CASE pending' # pending
    <3> DEFINE n == Len(pending) - 1
    <3>1. pending' = Take(pending, n)
      BY <1>1, <2>2
    <3>2. n \in 0 .. Len(pending) /\ Len(pending) \in Nat /\ DOMAIN pending = 1 .. Len(pending)
      BY <1>1, <1>4, <2>2
    <3> HIDE DEF n
    <3>3. /\ pending' \in Seq(Frame) /\ Len(pending') = n
          /\ \A i \in 1 .. n : pending'[i] = pending[i]
      BY <1>4, <3>1, <3>2, CutFacts
    <3>4. DOMAIN pending' = 1 .. n
      BY <3>3
    <3> QED
      BY <3>2, <3>3, <3>4
  <2> QED
    BY <2>1, <2>2
<1>6. Elems(pending') \subseteq Elems(pending) /\ Pictures' = Pictures
    BY <1>1, <1>5 DEF Elems, Pictures
<1>7. TypeOK'
  <2>1. fid' \in 0 .. NumFrames
    BY <1>1, <1>3, <1>4
  <2> QED
    BY <1>1, <1>2, <1>5, <2>1 DEF TypeOK, Labels
<1>8. Busy' /\ Drained' /\ InStep'
    BY <1>1, <1>2, <1>3 DEF Busy, Drained, InStep
<1>9. fid \in Nat /\ fid' = fid + 1 /\ \A j \in DOMAIN pending' : pending[j] \in Nat
  <2>1. \A j \in DOMAIN pending : pending[j] \in Frame
    BY <1>4
  <2> QED
    BY <1>1, <1>4, <1>5, <2>1
<1>10. Tracking'
  <2>1. \A j \in DOMAIN pending' : pending'[j] < fid'
    <3>1. \A j \in DOMAIN pending' : pending[j] < fid \/ pending[j] = fid
      BY <1>5 DEF Tracking
    <3>2. \A j \in DOMAIN pending' : pending[j] < fid'
      BY <1>9, <3>1
    <3> QED
      BY <1>5, <3>2
  <2> QED
    BY <1>1, <1>5, <2>1 DEF Tracking
<1>11. Below'
  <2>1. \A f \in Pictures : f < fid'
    <3>1. \A f \in Pictures : f < fid \/ f = fid
      BY DEF Below
    <3>2. \A f \in Pictures : f \in Nat
      BY <1>4
    <3> QED
      BY <1>9, <3>1, <3>2
  <2>2. \A i \in DOMAIN out : out[i].id < fid' /\ out[i].frame < fid'
    <3>1. \A i \in DOMAIN out : out[i].id < fid /\ out[i].frame < fid
      BY DEF Below
    <3>2. \A i \in DOMAIN out : out[i].id \in Nat /\ out[i].frame \in Nat
      BY <1>4
    <3> QED
      BY <1>9, <3>1, <3>2
  <2> QED
    BY <1>1, <1>6, <2>1, <2>2 DEF Below
<1>12. OneLife'
    BY <1>1, <1>2, <1>6 DEF OneLife
<1>13. IdsAscend' /\ LivesApart' /\ RightIdsUnlessUpset'
    BY <1>1 DEF IdsAscend, LivesApart, RightIdsUnlessUpset
<1> QED
    BY <1>7, <1>8, <1>10, <1>11, <1>12, <1>13

(***************************************************************************)
(* As long as nothing has gone wrong the pictures that have come out have  *)
(* the oldest pending ids, which are their own.                            *)
(***************************************************************************)
LEMMA OrderFacts ==
    ASSUME IInv, upset = {}, Play \in {"bind", "flush bind"}
    PROVE  /\ codec # None
           /\ Enough(frames)
           /\ Rest(pending, Len(frames)) = <<>> \o codec.dpb \o codec.held
           /\ \A i \in 1 .. Len(frames) : pending[i] = frames[i]
<1> USE DEF IInv
<1>1. codec # None /\ pending = (frames \o codec.dpb) \o codec.held
    BY DEF InStep, Queue, Inside
<1> DEFINE d == codec.dpb
           h == codec.held
<1>2. d \in Pics /\ h \in Pics /\ frames \in Pics
    BY <1>1 DEF TypeOK, Codecs, Pics
<1>3. pending = Cat(Cat(frames, d), h)
    BY <1>1 DEF Cat
<1> HIDE DEF d, h
<1>4. pending = Cat(frames, Cat(d, h)) /\ Cat(d, h) \in Pics
    BY <1>2, <1>3, AssocFacts
<1> DEFINE t == Cat(d, h)
<1>5. t \in Seq(Frame) /\ frames \in Seq(Frame) /\ pending = frames \o t
    BY <1>2, <1>4 DEF Pics, Cat
<1>6. t = <<>> \o codec.dpb \o codec.held
  <2>1. <<>> \o codec.dpb = codec.dpb
    BY <1>2, ConcatEmptySeq DEF Pics, d
  <2> QED
    BY <2>1 DEF d, h, Cat
<1> HIDE DEF t
<1>7. /\ Rest(frames \o t, Len(frames)) = t
      /\ Len(frames) <= Len(frames \o t)
      /\ \A i \in 1 .. Len(frames) : (frames \o t)[i] = frames[i]
    BY <1>5, FrontFacts
<1> QED
    BY <1>1, <1>5, <1>6, <1>7 DEF Enough

\* The pictures that came out have been given ids.
Bound == /\ Play \in {"bind", "flush bind"}
         /\ Enough(frames)
         /\ Bind(frames)
         /\ IsEmpty(frames')
         /\ UNCHANGED <<codec, life, flushes, upset>>
         /\ \/ Play = "bind" /\ fid' = fid + 1 /\ Play' = "idle"
            \/ Play = "flush bind" /\ fid' = fid /\ Play' = "flush pop"

(***************************************************************************)
(* _bind_frame_ids: the ids given out are the oldest pending, of the life  *)
(* of the pictures, and their own unless something has gone wrong.         *)
(***************************************************************************)
LEMMA BoundKeeps ==
    ASSUME IInv, Bound
    PROVE  /\ out' \in Seq([id : Frame, frame : Frame]) /\ pending' \in Seq(Frame)
           /\ Tracking' /\ Below' /\ OneLife' /\ InStep'
           /\ IdsAscend' /\ LivesApart' /\ RightIdsUnlessUpset'
<1> USE DEF IInv
<1> DEFINE n == Len(frames)
           l == Len(out)
           Item == [id : Frame, frame : Frame]
<1>1. /\ out' \in Seq(Item) /\ Len(out') = l + n
      /\ \A i \in 1 .. l : out'[i] = out[i]
      /\ \A i \in 1 .. n : out'[l + i].id = pending[i] /\ out'[l + i].frame = frames[i]
      /\ pending' \in Seq(Frame) /\ Len(pending') = Len(pending) - n
      /\ \A i \in 1 .. Len(pending') : pending'[i] = pending[i + n]
      /\ Elems(pending') \subseteq Elems(pending)
    BY BindFacts DEF Bound
<1>2. /\ Pictures \subseteq Frame /\ Elems(pending) \subseteq Frame
      /\ DOMAIN out = 1 .. l /\ l \in Nat
      /\ \A i \in DOMAIN out : out[i].id \in Frame /\ out[i].frame \in Frame
      /\ pending \in Seq(Frame) /\ frames \in Seq(Frame) /\ fid \in Nat
      /\ Frame \subseteq Nat
    BY WhereFacts
<1>3. /\ n \in Nat /\ Len(pending) \in Nat /\ n <= Len(pending) /\ l \in Nat
      /\ DOMAIN pending = 1 .. Len(pending) /\ DOMAIN frames = 1 .. n
      /\ DOMAIN pending' = 1 .. Len(pending) - n
      /\ DOMAIN out' = 1 .. l + n
  <2>1. DOMAIN pending' = 1 .. Len(pending) - n
    <3>1. pending' \in Seq(Frame) /\ Len(pending') = Len(pending) - n
      BY <1>1
    <3> QED
      BY <3>1
  <2>2. DOMAIN out' = 1 .. l + n
    <3>1. out' \in Seq(Item) /\ Len(out') = l + n
      BY <1>1
    <3> HIDE DEF Item
    <3> QED
      BY <3>1
  <2>3. pending \in Seq(Frame) /\ frames \in Seq(Frame) /\ l \in Nat
    BY <1>2
  <2>4. /\ n \in Nat /\ Len(pending) \in Nat /\ n <= Len(pending) /\ DOMAIN frames = 1 .. n
        /\ DOMAIN pending = 1 .. Len(pending)
    <3>1. n <= Len(pending)
      BY DEF Enough, Bound
    <3> QED
      BY <2>3, <3>1
  <2> QED
    BY <2>1, <2>2, <2>3, <2>4
<1> HIDE DEF n, l, Item
<1>nat. /\ n \in Nat /\ Len(pending) \in Nat /\ n <= Len(pending) /\ l \in Nat /\ fid \in Nat
      /\ Len(pending') = Len(pending) - n /\ Len(out') = l + n
      /\ fid' \in {fid, fid + 1} /\ (Play = "bind" => fid' = fid + 1)
    BY <1>1, <1>2, <1>3 DEF Bound
<1>4. \A j \in 1 .. Len(pending) : pending[j] \in Nat /\ pending[j] < fid'
  <2>1. \A j \in 1 .. Len(pending) : pending[j] \in Nat
    <3>1. \A j \in 1 .. Len(pending) : pending[j] \in Frame
      BY <1>2
    <3> QED
      BY <1>2, <3>1
  <2>2. \A j \in 1 .. Len(pending) : pending[j] < fid \/ (pending[j] = fid /\ Play = "bind")
    BY <1>3 DEF Tracking, Bound
  <2> QED
    BY <1>nat, <2>1, <2>2
<1>5. \A f \in Pictures : f < fid'
  <2>1. \A f \in Pictures : f < fid \/ (f = fid /\ Play = "bind")
    BY DEF Below, Bound
  <2>2. \A f \in Pictures : f \in Nat
    BY <1>2
  <2> QED
    BY <1>nat, <2>1, <2>2
<1>6. \A i \in 1 .. n : frames[i] \in Pictures /\ pending[i] \in Elems(pending)
                        /\ i \in 1 .. Len(pending)
  <2>1. \A i \in 1 .. n : i \in 1 .. Len(pending)
    BY <1>nat
  <2> QED
    BY <1>3, <2>1 DEF Pictures, Elems
<1>7. ASSUME NEW i \in 1 .. l + n
      PROVE  \/ i \in 1 .. l
             \/ i - l \in 1 .. n /\ out'[i].id = pending[i - l] /\ out'[i].frame = frames[i - l]
  <2>1. CASE i <= l
    BY <1>nat, <2>1
  <2>2. CASE ~(i <= l)
    <3>1. i - l \in 1 .. n /\ l + (i - l) = i
      BY <1>nat, <2>2
    <3> QED
      BY <1>1, <3>1
  <2> QED
    BY <2>1, <2>2
<1>8. \A i, j \in 1 .. Len(pending) : i < j => pending[i] < pending[j]
    BY <1>3 DEF Tracking
<1>9. \A i \in 1 .. l, j \in 1 .. Len(pending) : out[i].id < pending[j]
    BY <1>2, <1>3 DEF Tracking
<1>10. Tracking'
  <2>1. ASSUME NEW j \in DOMAIN pending'
        PROVE  pending'[j] = pending[j + n] /\ j + n \in 1 .. Len(pending) /\ j \in Nat /\ j >= 1
    <3>1. j \in 1 .. Len(pending')
      BY <1>3, <1>nat
    <3> QED
      BY <1>1, <1>nat, <3>1
  <2>2. \A i, j \in DOMAIN pending' : i < j => pending'[i] < pending'[j]
    <3> SUFFICES ASSUME NEW i \in DOMAIN pending', NEW j \in DOMAIN pending', i < j
                 PROVE  pending'[i] < pending'[j]
      OBVIOUS
    <3>1. i + n < j + n
      <4>1. i \in Nat /\ j \in Nat
        BY <2>1
      <4> QED
        BY <1>nat, <4>1
    <3> QED
      BY <1>8, <2>1, <3>1
  <2>3. \A i \in DOMAIN out', j \in DOMAIN pending' : out'[i].id < pending'[j]
    <3> SUFFICES ASSUME NEW i \in DOMAIN out', NEW j \in DOMAIN pending'
                 PROVE  out'[i].id < pending'[j]
      OBVIOUS
    <3>1. CASE i \in 1 .. l
      BY <1>1, <1>9, <2>1, <3>1
    <3>2. CASE i \notin 1 .. l
      <4>1. i - l \in 1 .. n /\ out'[i].id = pending[i - l]
        BY <1>3, <1>7, <3>2
      <4>2. i - l < j + n /\ i - l \in 1 .. Len(pending)
        <5>1. j \in Nat /\ j >= 1
          BY <2>1
        <5> QED
          BY <1>nat, <4>1, <5>1
      <4> QED
        BY <1>8, <2>1, <4>1, <4>2
    <3> QED
      BY <3>1, <3>2
  <2>4. \A j \in DOMAIN pending' : pending'[j] < fid'
    BY <1>4, <2>1
  <2> QED
    BY <2>2, <2>3, <2>4 DEF Tracking
<1>11. Pictures' \subseteq Pictures
  <2>1. Elems(frames') = {}
    BY EmptyFacts DEF Bound
  <2> QED
    BY <2>1 DEF Pictures, Bound
<1>12. \A i \in 1 .. l : out'[i].id < fid' /\ out'[i].frame < fid'
  <2>1. \A i \in 1 .. l : out[i].id \in Nat /\ out[i].frame \in Nat
    BY <1>2
  <2>2. \A i \in 1 .. l : out[i].id < fid /\ out[i].frame < fid
    BY <1>2 DEF Below
  <2>3. \A i \in 1 .. l : out[i].id < fid' /\ out[i].frame < fid'
    BY <1>nat, <2>1, <2>2
  <2> QED
    BY <1>1, <2>3
<1>13. Below'
  <2>1. \A i \in DOMAIN out' : out'[i].id < fid' /\ out'[i].frame < fid'
    <3> SUFFICES ASSUME NEW i \in DOMAIN out' PROVE out'[i].id < fid' /\ out'[i].frame < fid'
      OBVIOUS
    <3>1. CASE i \in 1 .. l
      BY <1>12, <3>1
    <3>2. CASE i \notin 1 .. l
      BY <1>3, <1>4, <1>5, <1>6, <1>7, <3>2
    <3> QED
      BY <3>1, <3>2
  <2> QED
    BY <1>5, <1>11, <2>1 DEF Below
<1>14. OneLife'
    BY <1>1, <1>11 DEF OneLife, Bound
<1>15. IdsAscend'
  <2> SUFFICES ASSUME NEW i \in 1 .. Len(out') - 1 PROVE out'[i].id < out'[i + 1].id
    BY DEF IdsAscend
  <2>0. i \in 1 .. l + n /\ i + 1 \in 1 .. l + n /\ i \in Nat
    BY <1>nat
  <2>1. CASE i + 1 \in 1 .. l
    <3>1. i \in 1 .. l /\ i \in 1 .. l - 1
      BY <1>nat, <2>0, <2>1
    <3> QED
      BY <1>1, <2>1, <3>1 DEF IdsAscend, l
  <2>2. CASE i + 1 \notin 1 .. l
    <3>0. PICK k \in 1 .. l + n : k = i + 1
      BY <2>0
    <3> SUFFICES out'[i].id < out'[k].id
      BY <3>0
    <3>1. k - l \in 1 .. n /\ out'[k].id = pending[k - l]
      BY <1>7, <2>2, <3>0
    <3>2. CASE i \in 1 .. l
      BY <1>1, <1>6, <1>9, <3>1, <3>2
    <3>3. CASE i \notin 1 .. l
      <4>1. i - l \in 1 .. n /\ out'[i].id = pending[i - l]
        BY <1>7, <2>0, <3>3
      <4>2. i - l < k - l
        BY <1>nat, <2>0, <3>0
      <4> QED
        BY <1>6, <1>8, <3>1, <4>1, <4>2
    <3> QED
      BY <3>2, <3>3
  <2> QED
    BY <2>1, <2>2
<1>16. LivesApart'
  <2> SUFFICES ASSUME NEW i \in 1 .. l + n PROVE life[out'[i].id] = life[out'[i].frame]
    BY <1>3 DEF LivesApart, Bound
  <2>1. CASE i \in 1 .. l
    BY <1>1, <1>2, <2>1 DEF LivesApart
  <2>2. CASE i \notin 1 .. l
    <3>1. i - l \in 1 .. n /\ out'[i].id = pending[i - l] /\ out'[i].frame = frames[i - l]
      BY <1>7, <2>2
    <3>2. life[pending[i - l]] = flushes /\ life[frames[i - l]] = flushes
      BY <1>6, <3>1 DEF OneLife
    <3> QED
      BY <3>1, <3>2
  <2> QED
    BY <2>1, <2>2
<1>17. RightIdsUnlessUpset'
  <2> SUFFICES ASSUME upset = {}, NEW i \in 1 .. l + n PROVE out'[i].id = out'[i].frame
    BY <1>3 DEF RightIdsUnlessUpset, Bound
  <2>1. CASE i \in 1 .. l
    BY <1>1, <1>2, <2>1 DEF RightIdsUnlessUpset
  <2>2. CASE i \notin 1 .. l
    <3>1. \A j \in 1 .. n : pending[j] = frames[j]
      BY OrderFacts DEF n, Bound
    <3> QED
      BY <1>7, <2>2, <3>1
  <2> QED
    BY <2>1, <2>2
<1>18. InStep'
  <2> SUFFICES ASSUME upset = {} PROVE codec # None /\ pending' = Queue'
    BY DEF InStep, Bound
  <2>1. codec # None /\ Rest(pending, Len(frames)) = <<>> \o codec.dpb \o codec.held
    BY OrderFacts DEF Bound
  <2>2. pending' = Rest(pending, Len(frames))
    BY DEF Bind, Bound
  <2>3. Queue' = <<>> \o codec.dpb \o codec.held
    BY DEF Queue, Inside, IsEmpty, Bound
  <2> QED
    BY <2>1, <2>2, <2>3
<1> QED
    BY <1>1, <1>10, <1>13, <1>14, <1>15, <1>16, <1>17, <1>18 DEF Item

(***************************************************************************)
(* BindFrames: the frame is done with.                                     *)
(***************************************************************************)
LEMMA BindFramesKeeps ==
    ASSUME IInv, config' \in BOOLEAN, BindFrames
    PROVE  IInv'
<1> USE DecoderAssumption DEF IInv
<1>1. /\ UNCHANGED <<codec, calls, life, flushes, upset>>
      /\ Play = "bind" /\ fid' = fid + 1 /\ frames' = <<>>
      /\ Enough(frames) /\ Bind(frames)
    BY DEF BindFrames, Play
<1>2. pc' \in [Thread -> Labels] /\ Play' = "idle"
  <2>1. "play" \in Thread /\ "idle" \in Labels /\ Goto("play", "idle")
    BY DEF BindFrames, Thread, Labels
  <2> QED
    BY <2>1, GotoFacts
<1>3. /\ out' \in Seq([id : Frame, frame : Frame]) /\ pending' \in Seq(Frame)
      /\ Tracking' /\ Below' /\ OneLife' /\ InStep'
      /\ IdsAscend' /\ LivesApart' /\ RightIdsUnlessUpset'
    BY <1>1, <1>2, BoundKeeps DEF IsEmpty, Bound
<1>4. TypeOK'
  <2>1. fid' \in 0 .. NumFrames
    <3>1. fid \in 0 .. NumFrames
      BY DEF TypeOK
    <3>2. fid < NumFrames
      BY <1>1 DEF Busy
    <3> QED
      BY <1>1, <3>1, <3>2
  <2>2. frames' \in Seq(Frame)
    BY <1>1
  <2> QED
    BY <1>1, <1>2, <1>3, <2>1, <2>2 DEF TypeOK, Labels
<1>5. Busy' /\ Drained'
    BY <1>1, <1>2 DEF Busy, Drained
<1> QED
    BY <1>3, <1>4, <1>5

(***************************************************************************)
(* BindFails: something has gone wrong before.                             *)
(***************************************************************************)
LEMMA BindFailsKeeps ==
    ASSUME IInv, config' \in BOOLEAN, BindFails
    PROVE  IInv'
<1> USE DecoderAssumption DEF IInv
<1>1. /\ UNCHANGED <<codec, out, fid, calls, life, flushes, upset>>
      /\ Play = "bind" /\ frames' = <<>> /\ pending' = <<>> /\ ~Enough(frames)
    BY DEF BindFails, inputs, Play
<1>2. pc' \in [Thread -> Labels] /\ Play' = "failed"
  <2>1. "play" \in Thread /\ "failed" \in Labels /\ Goto("play", "failed")
    BY DEF BindFails, Thread, Labels
  <2> QED
    BY <2>1, GotoFacts
<1>3. upset # {} /\ fid < NumFrames
    BY <1>1, OrderFacts DEF Busy
<1>4. /\ Elems(pending') = {} /\ Elems(frames') = {} /\ <<>> \in Seq(Frame)
      /\ DOMAIN pending' = {}
    BY <1>1 DEF Elems
<1>5. Pictures' \subseteq Pictures
    BY <1>1, <1>4 DEF Pictures
<1>6. TypeOK'
    BY <1>1, <1>2, <1>4 DEF TypeOK, Labels
<1>7. Busy' /\ Drained' /\ InStep'
    BY <1>1, <1>2, <1>3 DEF Busy, Drained, InStep
<1>8. Tracking' /\ Below' /\ OneLife'
    BY <1>1, <1>2, <1>4, <1>5 DEF Tracking, Below, OneLife
<1>9. IdsAscend' /\ LivesApart' /\ RightIdsUnlessUpset'
    BY <1>1 DEF IdsAscend, LivesApart, RightIdsUnlessUpset
<1> QED
    BY <1>6, <1>7, <1>8, <1>9

-----------------------------------------------------------------------------
(* flush_subpic                                                             *)

(***************************************************************************)
(* FlushDrain: all that is in the codec comes out, in order, or an error   *)
(* is noted.                                                               *)
(***************************************************************************)
LEMMA FlushDrainKeeps ==
    ASSUME IInv, config' \in BOOLEAN, FlushDrain
    PROVE  IInv'
<1> USE DecoderAssumption DEF IInv
<1>1. /\ UNCHANGED <<pending, out, fid, calls, life, flushes>>
      /\ Play = "idle" /\ codec # None
      /\ codec' = [codec EXCEPT !.held = <<>>, !.dpb = <<>>]
      /\ \/ frames' = codec.dpb \o codec.held /\ upset' = upset
         \/ frames' = codec.dpb /\ upset' = upset \cup {"decode error"}
    BY DEF FlushDrain, inputs, Play, Upset
<1>2. pc' \in [Thread -> Labels] /\ Play' = "flush bind"
  <2>1. "play" \in Thread /\ "flush bind" \in Labels /\ Goto("play", "flush bind")
    BY DEF FlushDrain, Thread, Labels
  <2> QED
    BY <2>1, GotoFacts
<1>3. frames = <<>>
    BY <1>1 DEF Busy
<1>4. codec \in Codecs /\ codec.dpb \in Seq(Frame) /\ codec.held \in Seq(Frame)
    BY <1>1 DEF TypeOK, Codecs
<1>5. <<>> \in Seq(Frame) /\ Elems(<<>>) = {} /\ Len(<<>>) = 0
    BY DEF Elems
<1>6. codec' \in Codecs /\ codec' # None /\ codec'.held = <<>> /\ codec'.dpb = <<>>
  <2>1. codec' \in Codecs
    BY <1>1, <1>4, <1>5, Zenon DEF Codecs
  <2>2. codec'.held = <<>> /\ codec'.dpb = <<>>
    BY <1>1, <1>4 DEF Codecs
  <2> QED
    BY <2>1, <2>2, NoneAssumption
<1>7. /\ frames' \in Seq(Frame)
      /\ Elems(frames') \subseteq Elems(codec.dpb) \cup Elems(codec.held)
  <2> DEFINE d == codec.dpb
             h == codec.held
  <2>1. d \in Seq(Frame) /\ h \in Seq(Frame)
    BY <1>4
  <2>2. frames' = d \o h \/ frames' = d
    BY <1>1
  <2> HIDE DEF d, h
  <2>3. d \o h \in Seq(Frame) /\ Elems(d \o h) = Elems(d) \cup Elems(h)
    BY <2>1, ConcatProperties, ElemsFacts
  <2>4. frames' \in Seq(Frame) /\ Elems(frames') \subseteq Elems(d) \cup Elems(h)
    BY <2>1, <2>2, <2>3
  <2> QED
    BY <2>4 DEF d, h
<1>8. TypeOK'
  <2>1. codec' # None => codec' \in Codecs /\ Len(codec'.held) <= 1 /\ Len(codec'.dpb) <= Delay
    BY <1>5, <1>6
  <2>2. upset' \subseteq {"two codecs", "config between frames", "decode error"}
    BY <1>1 DEF TypeOK
  <2> QED
    BY <1>1, <1>2, <1>7, <2>1, <2>2 DEF TypeOK, Labels
<1>9. Pictures' \subseteq Pictures
    BY <1>1, <1>5, <1>6, <1>7 DEF Pictures
<1>10. Busy' /\ Drained'
    BY <1>2, <1>6 DEF Busy, Drained
<1>11. InStep'
  <2> SUFFICES ASSUME upset' = {} PROVE pending = Queue'
    BY <1>1, <1>2, <1>6 DEF InStep
  <2>1. upset = {} /\ frames' = codec.dpb \o codec.held
    BY <1>1
  <2>2. pending = <<>> \o codec.dpb \o codec.held
    BY <1>1, <1>3, <2>1 DEF InStep, Queue, Inside
  <2>3. pending = codec.dpb \o codec.held
    BY <1>4, <2>2, ConcatEmptySeq
  <2>4. Queue' = frames' \o <<>> \o <<>>
    BY <1>2, <1>6 DEF Queue, Inside
  <2>5. frames' \o <<>> = frames'
    BY <1>7, ConcatEmptySeq
  <2> QED
    BY <2>1, <2>3, <2>4, <2>5
<1>12. Tracking' /\ Below' /\ OneLife'
    BY <1>1, <1>2, <1>9 DEF Tracking, Below, OneLife
<1>13. IdsAscend' /\ LivesApart' /\ RightIdsUnlessUpset'
    BY <1>1 DEF IdsAscend, LivesApart, RightIdsUnlessUpset
<1> QED
    BY <1>8, <1>10, <1>11, <1>12, <1>13

(***************************************************************************)
(* FlushBind: the pictures get their ids, or it raises and something has   *)
(* gone wrong before.                                                      *)
(***************************************************************************)
LEMMA FlushBindKeeps ==
    ASSUME IInv, config' \in BOOLEAN, FlushBind
    PROVE  IInv'
<1> USE DecoderAssumption DEF IInv
<1>1. /\ UNCHANGED <<codec, fid, calls, life, flushes, upset>>
      /\ Play = "flush bind" /\ frames' = <<>>
    BY DEF FlushBind, inputs, Play
<1>2. "play" \in Thread /\ "flush pop" \in Labels /\ "dead" \in Labels
    BY DEF Thread, Labels
<1>3. <<>> \in Seq(Frame) /\ Elems(<<>>) = {}
    BY DEF Elems
<1>4. CASE Enough(frames)
  <2>1. Bind(frames) /\ Goto("play", "flush pop")
    BY <1>4 DEF FlushBind
  <2>2. pc' \in [Thread -> Labels] /\ Play' = "flush pop"
    BY <1>2, <2>1, GotoFacts
  <2>3. /\ out' \in Seq([id : Frame, frame : Frame]) /\ pending' \in Seq(Frame)
        /\ Tracking' /\ Below' /\ OneLife' /\ InStep'
        /\ IdsAscend' /\ LivesApart' /\ RightIdsUnlessUpset'
    BY <1>1, <1>4, <2>1, <2>2, BoundKeeps DEF IsEmpty, Bound
  <2>4. TypeOK'
    BY <1>1, <1>3, <2>2, <2>3 DEF TypeOK, Labels
  <2>5. Busy' /\ Drained'
    BY <1>1, <2>2 DEF Busy, Drained
  <2> QED
    BY <2>3, <2>4, <2>5
<1>5. CASE ~Enough(frames)
  <2>1. pending' = <<>> /\ out' = out /\ Goto("play", "dead")
    BY <1>5 DEF FlushBind
  <2>2. pc' \in [Thread -> Labels] /\ Play' = "dead"
    BY <1>2, <2>1, GotoFacts
  <2>3. upset # {}
    BY <1>1, <1>5, OrderFacts
  <2>4. Elems(pending') = {} /\ Elems(frames') = {} /\ DOMAIN pending' = {}
    BY <1>1, <2>1, EmptyFacts DEF IsEmpty
  <2>5. Pictures' \subseteq Pictures
    BY <1>1, <2>4 DEF Pictures
  <2>6. TypeOK'
    BY <1>1, <1>3, <2>1, <2>2 DEF TypeOK, Labels
  <2>7. Busy' /\ Drained' /\ InStep'
    BY <1>1, <2>2, <2>3 DEF Busy, Drained, InStep
  <2>8. Tracking' /\ Below' /\ OneLife'
    BY <1>1, <2>1, <2>2, <2>4, <2>5 DEF Tracking, Below, OneLife
  <2>9. IdsAscend' /\ LivesApart' /\ RightIdsUnlessUpset'
    BY <1>1, <2>1 DEF IdsAscend, LivesApart, RightIdsUnlessUpset
  <2> QED
    BY <2>6, <2>7, <2>8, <2>9
<1> QED
    BY <1>4, <1>5

(***************************************************************************)
(* FlushPop: the codec it takes away was drained.                          *)
(***************************************************************************)
LEMMA FlushPopKeeps ==
    ASSUME IInv, config' \in BOOLEAN, FlushPop
    PROVE  IInv'
<1> USE DecoderAssumption DEF IInv
<1>1. /\ UNCHANGED <<pending, frames, out, fid, calls, life, flushes, upset>>
      /\ Play = "flush pop" /\ codec' = None
    BY DEF FlushPop, inputs, Play
<1>2. pc' \in [Thread -> Labels] /\ Play' = "flush clear"
  <2>1. "play" \in Thread /\ "flush clear" \in Labels /\ Goto("play", "flush clear")
    BY DEF FlushPop, Thread, Labels
  <2> QED
    BY <2>1, GotoFacts
<1>3. TypeOK'
    BY <1>1, <1>2 DEF TypeOK, Labels
<1>4. Busy' /\ Drained'
    BY <1>1, <1>2 DEF Busy, Drained
<1>5. Pictures' \subseteq Pictures
    BY <1>1 DEF Pictures
<1>6. InStep'
  <2> SUFFICES ASSUME upset = {} PROVE pending = <<>>
    BY <1>1, <1>2 DEF InStep
  <2>1. codec # None /\ frames = <<>> /\ codec.dpb = <<>> /\ codec.held = <<>>
    BY <1>1 DEF InStep, Busy, Drained
  <2>2. pending = <<>> \o <<>> \o <<>>
    BY <1>1, <2>1 DEF InStep, Queue, Inside
  <2> QED
    BY <2>2
<1>7. Play' = Play \/ (Play \in Quiet /\ Play' \in Quiet)
    BY <1>1, <1>2 DEF Quiet
<1> QED
    BY <1>1, <1>3, <1>4, <1>5, <1>6, <1>7, QuietKeeps

(***************************************************************************)
(* FlushClear: with the ids that remain the life ends; no picture is left  *)
(* of it.                                                                  *)
(***************************************************************************)
LEMMA FlushClearKeeps ==
    ASSUME IInv, config' \in BOOLEAN, FlushClear
    PROVE  IInv'
<1> USE DecoderAssumption DEF IInv
<1>1. /\ UNCHANGED <<codec, frames, out, fid, calls, life, upset>>
      /\ Play = "flush clear" /\ pending' = <<>> /\ flushes' = flushes + 1
    BY DEF FlushClear, ClearPending, Play
<1>2. pc' \in [Thread -> Labels] /\ Play' = "idle"
  <2>1. "play" \in Thread /\ "idle" \in Labels /\ Goto("play", "idle")
    BY DEF FlushClear, Thread, Labels
  <2> QED
    BY <2>1, GotoFacts
<1>3. /\ frames = <<>>
      /\ codec # None => codec.dpb = <<>> /\ codec.held = <<>>
    BY <1>1 DEF Busy, Drained
<1>4. <<>> \in Seq(Frame) /\ Elems(<<>>) = {} /\ DOMAIN pending' = {}
  <2>1. IsEmpty(pending')
    BY <1>1 DEF IsEmpty
  <2>2. DOMAIN pending' = {}
    BY <2>1, EmptyFacts
  <2> QED
    BY <2>2 DEF Elems
<1>5. Pictures = {} /\ Pictures' = {}
    BY <1>1, <1>3, <1>4 DEF Pictures
<1>6. TypeOK'
  <2>1. flushes' \in Nat
    <3>1. flushes \in Nat
      BY DEF TypeOK
    <3>2. flushes' = flushes + 1
      BY <1>1
    <3> QED
      BY <3>1, <3>2
  <2> QED
    BY <1>1, <1>2, <1>4, <2>1 DEF TypeOK, Labels
<1>7. Busy' /\ Drained'
    BY <1>1, <1>2, <1>3 DEF Busy, Drained
<1>8. InStep'
  <2>1. codec # None => Inside' = <<>>
    <3>1. codec # None => Inside' = <<>> \o <<>> \o <<>>
      BY <1>1, <1>3 DEF Inside
    <3> QED
      BY <3>1
  <2> QED
    BY <1>1, <1>2, <2>1 DEF InStep, Queue
<1>9. Tracking' /\ Below' /\ OneLife'
    BY <1>1, <1>2, <1>4, <1>5 DEF Tracking, Below, OneLife
<1>10. IdsAscend' /\ LivesApart' /\ RightIdsUnlessUpset'
    BY <1>1 DEF IdsAscend, LivesApart, RightIdsUnlessUpset
<1> QED
    BY <1>6, <1>7, <1>8, <1>9, <1>10

-----------------------------------------------------------------------------
(* The theorems                                                             *)

(***************************************************************************)
(* The invariant holds at first.                                           *)
(***************************************************************************)
LEMMA InitIInv == Init => IInv
<1> SUFFICES ASSUME Init PROVE IInv
    OBVIOUS
<1> USE DecoderAssumption DEF Init
<1>1. <<>> \in Seq(Frame) /\ <<>> \in Seq([id : Frame, frame : Frame]) /\ Elems(<<>>) = {}
    BY DEF Elems
<1>2. Play = "idle" /\ pc \in [Thread -> Labels]
    BY DEF Play, Thread, Labels
<1>3. TypeOK
  <2>1. fid \in 0 .. NumFrames /\ calls \in 0 .. MaxConfigs /\ flushes \in Nat
    OBVIOUS
  <2>2. life \in [Frame -> Nat]
    OBVIOUS
  <2> QED
    BY <1>1, <1>2, <2>1, <2>2 DEF TypeOK, Labels
<1>4. Busy /\ Drained /\ InStep
    BY <1>2 DEF Busy, Drained, InStep
<1>5. Tracking /\ Below /\ OneLife
    BY <1>1, <1>2 DEF Tracking, Below, OneLife, Pictures
<1>6. IdsAscend /\ LivesApart /\ RightIdsUnlessUpset
    BY DEF IdsAscend, LivesApart, RightIdsUnlessUpset
<1> QED
    BY <1>3, <1>4, <1>5, <1>6 DEF IInv

(***************************************************************************)
(* Every step keeps the invariant.                                         *)
(***************************************************************************)
LEMMA NextIInv == IInv /\ [Next]_vars => IInv'
<1> SUFFICES ASSUME IInv, [Next]_vars PROVE IInv'
    OBVIOUS
<1>1. config' \in BOOLEAN
    BY ConfigKeeps DEF IInv
<1>2. CASE SetConfig \/ AppendFrame \/ UNCHANGED vars
    BY <1>1, <1>2, ControlKeeps
<1>3. ASSUME NEW t \in Thread, Create(t) PROVE IInv'
  <2>1. CASE CheckCodec(t)
    BY <1>1, <2>1, ControlKeeps
  <2>2. CASE NewPop(t) \/ NewClear(t) \/ NewStore(t)
    BY <1>1, <2>2, CreateKeeps
  <2>3. CASE FeedConfig(t)
    BY <1>1, <2>3, FeedConfigKeeps
  <2> QED
    BY <1>3, <2>1, <2>2, <2>3 DEF Create
<1>4. CASE Track
    BY <1>1, <1>4, TrackKeeps
<1>5. CASE Feed
    BY <1>1, <1>5, FeedKeeps
<1>6. CASE FeedFails
    BY <1>1, <1>6, FeedFailsKeeps
<1>7. CASE RemoveNewest
    BY <1>1, <1>7, RemoveNewestKeeps
<1>8. CASE BindFrames
    BY <1>1, <1>8, BindFramesKeeps
<1>9. CASE BindFails
    BY <1>1, <1>9, BindFailsKeeps
<1>10. CASE FlushDrain
    BY <1>1, <1>10, FlushDrainKeeps
<1>11. CASE FlushBind
    BY <1>1, <1>11, FlushBindKeeps
<1>12. CASE FlushPop
    BY <1>1, <1>12, FlushPopKeeps
<1>13. CASE FlushClear
    BY <1>1, <1>13, FlushClearKeeps
<1> QED
    BY <1>2, <1>3, <1>4, <1>5, <1>6, <1>7, <1>8, <1>9, <1>10, <1>11, <1>12, <1>13
       DEF Next, AppendStep, FlushStep

(***************************************************************************)
(* The inductive invariant.                                                *)
(***************************************************************************)
LEMMA Invariance == Spec => []IInv
<1> QED
    BY InitIInv, NextIInv, PTL DEF Spec

(***************************************************************************)
(* The decoder's state is what the code can have: a codec holds at most    *)
(* one picture in its parser and Delay in its decoder, and every item      *)
(* returned is an id and a picture of frames that were appended.           *)
(***************************************************************************)
THEOREM DecoderTypeCorrect == Spec => []TypeOK
<1>1. IInv => TypeOK
    BY DEF IInv
<1> QED
    BY <1>1, Invariance, PTL

(***************************************************************************)
(* The ids that append_frame and flush_subpic return ascend, for any       *)
(* number of frames and CONFIGs, whatever the codec delays or refuses and  *)
(* however set_config on MsQuic's thread comes between.                    *)
(***************************************************************************)
THEOREM IdsAlwaysAscend == Spec => []IdsAscend
<1>1. IInv => IdsAscend
    BY DEF IInv
<1> QED
    BY <1>1, Invariance, PTL

(***************************************************************************)
(* A picture never gets an id of another life of the codec: no id outlives *)
(* flush_subpic, nor a picture.                                            *)
(***************************************************************************)
THEOREM LivesStayApart == Spec => []LivesApart
<1>1. IInv => LivesApart
    BY DEF IInv
<1> QED
    BY <1>1, Invariance, PTL

(***************************************************************************)
(* A picture gets its own id unless a packet was refused, a CONFIG was fed *)
(* while ids were pending, or both threads created a codec.                *)
(***************************************************************************)
THEOREM RightIds == Spec => []RightIdsUnlessUpset
<1>1. IInv => RightIdsUnlessUpset
    BY DEF IInv
<1> QED
    BY <1>1, Invariance, PTL
=============================================================================
