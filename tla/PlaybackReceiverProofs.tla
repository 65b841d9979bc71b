----------------------- MODULE PlaybackReceiverProofs -----------------------
(***************************************************************************)
(* Proofs about PlaybackReceiver, for any number of sub-pictures, of       *)
(* streams and the frames they carry, of fragments and of frames to start  *)
(* with.                                                                   *)
(*                                                                         *)
(* Each property is about two threads that look at one thing under two     *)
(* locks; what makes it hold is what cannot happen in between.  A stream   *)
(* that is being drained is closed, so that no packet of it is at hand     *)
(* (Handled, ClosedAreClosed), and no other stream adds to what it has     *)
(* sent a part of (OneSource): what was incomplete stays so (Incomplete).  *)
(* A sub-picture that is complete has all its fragments, so that no push   *)
(* can add to it (FoundStays).                                             *)
(***************************************************************************)
EXTENDS PlaybackReceiver, FunctionTheorems, FiniteSetTheorems, TLAPS

\* The packet at hand is one of an open stream, and not beyond its last.
Handled == handling # None => /\ input[handling] = "open"
                              /\ arrived[handling] < Total(handling)

\* The lifecycle knows a stream to be closed only when it is.
ClosedAreClosed == \A s \in closing \cup closed \cup todo : input[s] = "closed"

\* What the drain at hand is going to drop is not complete.
Incomplete == ppc = "drop" =>
    /\ draining \in Stream
    /\ input[draining] = "closed"
    /\ \A x \in frames : x.stream = draining => ~Complete(x.frame, x.subpic)

\* The buffered fragments of a frame's sub-picture are of one stream.
OneSource == \A x, y \in frames :
    x.frame = y.frame /\ x.subpic = y.subpic => x.stream = y.stream

\* What FindReady has found is there until it is popped.
FoundStays == ppc = "pop" => FrameReady(nextFrame, expected)

\* Playback starts with frame 0.
Start == ~started => nextFrame = 0

\* A stream is only ever known to carry the sub-picture it carries.
KnownByItsSubpic == \A s \in Stream : subpicOf[s] \in {None, Carries[s].subpic}

\* The flags and the decoder, which no property here is about.
SideTyped == /\ raised \in BOOLEAN /\ started \in BOOLEAN
             /\ setting \in {"no", "stored", "made"}
             /\ setting # "no" => control > 1
             /\ codecs \subseteq Subpic

IInv == /\ TypeOK
        /\ arrived \in [Stream -> Nat]
        /\ Handled
        /\ ClosedAreClosed
        /\ Incomplete
        /\ OneSource
        /\ FoundStays
        /\ Start
        /\ KnownByItsSubpic
        /\ NeverMissing
        /\ DrainedHoldsNothing
        /\ CurrentStreamServes

-----------------------------------------------------------------------------
(* Fragments                                                                *)

(***************************************************************************)
(* A sub-picture of a frame with as many fragments as fragment_count, all  *)
(* of one stream, has every fragment of that stream's.                     *)
(***************************************************************************)
LEMMA CompleteIsWhole ==
    ASSUME frames \subseteq Position, NEW x \in Position, Complete(x.frame, x.subpic),
           \A y \in Parts(x.frame, x.subpic) : y.stream = x.stream
    PROVE  x \in frames
<1> DEFINE S == Parts(x.frame, x.subpic)
           T == 0 .. NumFrags - 1
           g == [y \in S |-> y.idx]
<1>1. /\ S \subseteq frames
      /\ \A y \in S : /\ y \in Position /\ y.frame = x.frame
                      /\ y.subpic = x.subpic /\ y.stream = x.stream
    BY DEF Parts
<1>2. IsFiniteSet(T) /\ Cardinality(T) = NumFrags
  <2>1. NumFrags \in Nat /\ NumFrags >= 1
    BY ReceiverAssumption
  <2>2. 0 \in Int /\ NumFrags - 1 \in Int /\ ~(0 > NumFrags - 1) /\ NumFrags - 1 - 0 + 1 = NumFrags
    BY <2>1
  <2>3. IsFiniteSet(T) /\ Cardinality(T) = NumFrags - 1 - 0 + 1
    BY <2>2, FS_Interval
  <2> QED
    BY <2>2, <2>3
<1>3. \A y, z \in S : y.idx = z.idx => y = z
  <2> SUFFICES ASSUME NEW y \in S, NEW z \in S, y.idx = z.idx PROVE y = z
    OBVIOUS
  <2>1. /\ y \in [frame : Nat, subpic : Subpic, stream : Stream, idx : T]
        /\ z \in [frame : Nat, subpic : Subpic, stream : Stream, idx : T]
        /\ y.frame = z.frame /\ y.subpic = z.subpic /\ y.stream = z.stream
    BY <1>1 DEF Position
  <2> QED
    BY <2>1
<1>4. g \in Injection(S, T)
  <2>1. \A y \in S : y.idx \in T
    BY <1>1 DEF Position
  <2>2. g \in [S -> T]
    BY <2>1
  <2>3. \A y, z \in S : g[y] = g[z] => y = z
    BY <1>3
  <2> HIDE DEF g
  <2> QED
    BY <2>2, <2>3 DEF Injection, IsInjective
<1>5. Cardinality(S) = NumFrags
    BY DEF Complete
<1> HIDE DEF g, T
<1>6. g \in Surjection(S, T)
    BY <1>2, <1>4, <1>5, FS_Injection
<1>7. \E y \in S : g[y] = x.idx
  <2>1. x.idx \in T
    BY DEF Position, T
  <2> HIDE DEF S
  <2> QED
    BY <1>6, <2>1 DEF Surjection
<1>8. PICK y \in S : y.idx = x.idx
    BY <1>7 DEF g
<1>9. y = x
  <2>1. /\ y \in [frame : Nat, subpic : Subpic, stream : Stream, idx : T]
        /\ x \in [frame : Nat, subpic : Subpic, stream : Stream, idx : T]
        /\ y.frame = x.frame /\ y.subpic = x.subpic /\ y.stream = x.stream
    BY <1>1 DEF Position, T
  <2> QED
    BY <1>8, <2>1
<1> QED
    BY <1>1, <1>9

(***************************************************************************)
(* What a stream sends are fragments.                                      *)
(***************************************************************************)
LEMMA FragmentType ==
    ASSUME NEW s \in Stream, NEW n \in Nat
    PROVE  Fragment(s, n) \in Position /\ Fragment(s, n).stream = s
<1>1. /\ Carries[s] \in [subpic : Subpic, first : Nat, last : Nat]
      /\ NumFrags \in Nat /\ NumFrags >= 1
    BY ReceiverAssumption
<1>2. Carries[s].first \in Nat /\ Carries[s].subpic \in Subpic
    BY <1>1
<1>3. n \div NumFrags \in Nat /\ n % NumFrags \in 0 .. NumFrags - 1
    BY <1>1
<1>4. Carries[s].first + n \div NumFrags \in Nat
    BY <1>2, <1>3
<1> QED
    BY <1>2, <1>3, <1>4 DEF Fragment, Position

(***************************************************************************)
(* A stream has some packets, or none.                                     *)
(***************************************************************************)
LEMMA TotalType == \A s \in Stream : Total(s) \in Nat
<1> TAKE s \in Stream
<1>1. /\ Carries[s] \in [subpic : Subpic, first : Nat, last : Nat]
      /\ Carries[s].first <= Carries[s].last + 1
      /\ NumFrags \in Nat
    BY ReceiverAssumption
<1>2. Carries[s].first \in Nat /\ Carries[s].last \in Nat
    BY <1>1
<1> DEFINE n == Carries[s].last - Carries[s].first + 1
<1>3. n \in Nat
    BY <1>1, <1>2
<1> HIDE DEF n
<1>4. n * NumFrags \in Nat
    BY <1>1, <1>3
<1> QED
    BY <1>4 DEF Total, n

(***************************************************************************)
(* The flags are flags, and the decoder's codecs are of sub-pictures.      *)
(***************************************************************************)
LEMMA SideKeeps == TypeOK /\ [Next]_vars => SideTyped'
<1> SUFFICES ASSUME TypeOK, [Next]_vars PROVE SideTyped'
    OBVIOUS
<1>1. SideTyped /\ expected \subseteq Subpic /\ control \in 0 .. NumSubpics + 1
    BY DEF TypeOK, SideTyped
<1>2. raised' \in BOOLEAN /\ started' \in BOOLEAN
  <2>1. raised \in BOOLEAN /\ started \in BOOLEAN
    BY <1>1 DEF SideTyped
  <2> QED
    BY <2>1, ZenonT(60)
       DEF Next, Worker, Playback, ReceiveInit, ReceiveConfig, MakeCodec, FeedConfig, Push,
           Activate, OnStreamClose, BeginDrain, Drop, FlushRaises, Expect, FindReady,
           FindNothing, PopFrame, Advance, Decode, DecodeRaises, CheckPending, network,
           decoder, lifecycle, buffer, playback, vars
<1>3. CASE ReceiveInit
    BY <1>1, <1>2, <1>3 DEF SideTyped, ReceiveInit, WorkerIdle, decoder
<1>4. CASE ReceiveConfig
  <2>1. control \in 1 .. NumSubpics /\ control' = control + 1 /\ NumSubpics \in Nat
    BY <1>4, ReceiverAssumption DEF ReceiveConfig
  <2>2. control' > 1
    BY <2>1
  <2> QED
    BY <1>1, <1>2, <1>4, <2>2 DEF SideTyped, ReceiveConfig
<1>5. CASE MakeCodec
  <2>1. setting = "stored" /\ setting' = "made" /\ control' = control
        /\ codecs' = codecs \cup {control - 2}
    BY <1>5 DEF MakeCodec, Configured, network
  <2>2. control > 1 /\ control \in 0 .. NumSubpics + 1 /\ NumSubpics \in Nat
    BY <1>1, <2>1, ReceiverAssumption DEF SideTyped
  <2>3. control - 2 \in Subpic
    BY <2>2 DEF Subpic
  <2> QED
    BY <1>1, <1>2, <2>1, <2>2, <2>3 DEF SideTyped
<1>6. CASE FeedConfig
    BY <1>1, <1>2, <1>6 DEF SideTyped, FeedConfig
<1>7. CASE Drop
  <2>1. codecs' \subseteq codecs /\ UNCHANGED <<setting, control>>
    BY <1>7 DEF Drop, network
  <2> QED
    BY <1>1, <1>2, <2>1 DEF SideTyped
<1>8. CASE Decode
  <2>1. codecs' \subseteq codecs \cup expected /\ UNCHANGED <<setting, control>>
    BY <1>8 DEF Decode, network
  <2> QED
    BY <1>1, <1>2, <2>1 DEF SideTyped
<1>9. CASE UNCHANGED <<setting, codecs, control>>
    BY <1>1, <1>2, <1>9 DEF SideTyped
<1>10. \/ ReceiveInit \/ ReceiveConfig \/ MakeCodec \/ FeedConfig \/ Drop \/ Decode
       \/ UNCHANGED <<setting, codecs, control>>
    BY DEF Next, Worker, Playback, Push, Activate, OnStreamClose, BeginDrain, FlushRaises,
           Expect, FindReady, FindNothing, PopFrame, Advance, DecodeRaises, CheckPending,
           network, decoder, vars
<1> QED
    BY <1>3, <1>4, <1>5, <1>6, <1>7, <1>8, <1>9, <1>10

(***************************************************************************)
(* What a step does to the buffer's fragments, it does to the sub-pictures *)
(* that are complete.                                                      *)
(***************************************************************************)
LEMMA SameFrames ==
    frames' = frames => /\ \A f, p : Complete(f, p)' = Complete(f, p)
                        /\ OneSource' = OneSource
<1> QED
    BY DEF Complete, Parts, OneSource

-----------------------------------------------------------------------------
(* The worker                                                               *)

(***************************************************************************)
(* INIT makes every sub-picture active.                                    *)
(***************************************************************************)
LEMMA ReceiveInitKeeps ==
    ASSUME IInv, SideTyped', ReceiveInit
    PROVE  IInv'
<1> USE ReceiverAssumption DEF IInv
<1>1. /\ UNCHANGED <<arrived, input, handling, streamOf, subpicOf, closing, closed, frames,
                     nextFrame, started, ppc, todo, draining, expected, item>>
      /\ control' = 1 /\ active' = Subpic
    BY DEF ReceiveInit, buffer, playback
<1>2. TypeOK' /\ arrived' \in [Stream -> Nat]
  <2>1. control' \in 0 .. NumSubpics + 1
    <3>1. NumSubpics \in Nat /\ control' = 1
      BY <1>1
    <3> QED
      BY <3>1
  <2> QED
    BY <1>1, <2>1 DEF TypeOK, SideTyped
<1>3. Handled' /\ ClosedAreClosed' /\ Start' /\ NeverMissing' /\ DrainedHoldsNothing'
    BY <1>1 DEF Handled, ClosedAreClosed, Start, NeverMissing, DrainedHoldsNothing
<1>4. Incomplete' /\ OneSource' /\ FoundStays'
    BY <1>1, SameFrames DEF Incomplete, FoundStays, FrameReady
<1>5. CurrentStreamServes'
    BY <1>1 DEF CurrentStreamServes
<1>6. KnownByItsSubpic'
    BY <1>1 DEF KnownByItsSubpic
<1> QED
    BY <1>2, <1>3, <1>4, <1>5, <1>6

(***************************************************************************)
(* CONFIG is counted, and is the decoder's.                                *)
(***************************************************************************)
LEMMA ConfigKeeps ==
    ASSUME IInv, SideTyped', ReceiveConfig \/ MakeCodec \/ FeedConfig
    PROVE  IInv'
<1> USE ReceiverAssumption DEF IInv
<1>1. /\ UNCHANGED <<arrived, input, handling, active, streamOf, subpicOf, closing, closed,
                     frames, nextFrame, started, ppc, todo, draining, expected, item>>
      /\ \/ control \in 1 .. NumSubpics /\ control' = control + 1
         \/ control' = control
    BY DEF ReceiveConfig, MakeCodec, FeedConfig, network, buffer, playback, lifecycle
<1>2. TypeOK' /\ arrived' \in [Stream -> Nat]
  <2>1. control' \in 0 .. NumSubpics + 1
    <3>1. /\ NumSubpics \in Nat /\ control \in 0 .. NumSubpics + 1
          /\ \/ control \in 1 .. NumSubpics /\ control' = control + 1
             \/ control' = control
      BY <1>1 DEF TypeOK
    <3> QED
      BY <3>1
  <2> QED
    BY <1>1, <2>1 DEF TypeOK, SideTyped
<1>3. Handled' /\ ClosedAreClosed' /\ Start' /\ NeverMissing' /\ DrainedHoldsNothing'
    BY <1>1 DEF Handled, ClosedAreClosed, Start, NeverMissing, DrainedHoldsNothing
<1>4. Incomplete' /\ OneSource' /\ FoundStays'
    BY <1>1, SameFrames DEF Incomplete, FoundStays, FrameReady
<1>5. CurrentStreamServes'
    BY <1>1 DEF CurrentStreamServes
<1>6. KnownByItsSubpic'
    BY <1>1 DEF KnownByItsSubpic
<1> QED
    BY <1>2, <1>3, <1>4, <1>5, <1>6

(***************************************************************************)
(* _activate_media_stream: the stream, which is open, becomes the current  *)
(* one of its sub-picture.                                                 *)
(***************************************************************************)
LEMMA ActivateKeeps ==
    ASSUME IInv, SideTyped', NEW s \in Stream, Activate(s)
    PROVE  IInv'
<1> USE ReceiverAssumption DEF IInv
<1> DEFINE p == Carries[s].subpic
<1>1. /\ UNCHANGED <<control, arrived, input, raised, frames, nextFrame, started, ppc, todo,
                     draining, expected, item>>
      /\ input[s] = "open" /\ arrived[s] < Total(s)
      /\ subpicOf' = [subpicOf EXCEPT ![s] = p]
      /\ streamOf' = [streamOf EXCEPT ![p] = s]
      /\ active' = active \cup {p}
      /\ closing' = closing \ {s} /\ closed' = closed \ {s}
      /\ handling' = s
    BY DEF Activate, buffer, playback
<1>2. p \in Subpic /\ s # None
  <2>1. Carries[s] \in [subpic : Subpic, first : Nat, last : Nat]
    OBVIOUS
  <2> QED
    BY <2>1
<1> HIDE DEF p
<1>3. /\ subpicOf \in [Stream -> Subpic \cup {None}]
      /\ streamOf \in [Subpic -> Stream \cup {None}]
    BY DEF TypeOK
<1>4. TypeOK' /\ arrived' \in [Stream -> Nat]
  <2>1. /\ subpicOf' \in [Stream -> Subpic \cup {None}]
        /\ streamOf' \in [Subpic -> Stream \cup {None}]
    BY <1>1, <1>2, <1>3
  <2>2. active' \subseteq Subpic /\ closing' \subseteq Stream /\ closed' \subseteq Stream \ closing'
    BY <1>1, <1>2 DEF TypeOK
  <2> QED
    BY <1>1, <2>1, <2>2 DEF TypeOK, SideTyped
<1>5. Handled'
    BY <1>1 DEF Handled, Total
<1>6. ClosedAreClosed' /\ Start' /\ NeverMissing' /\ DrainedHoldsNothing'
    BY <1>1 DEF ClosedAreClosed, Start, NeverMissing, DrainedHoldsNothing
<1>7. Incomplete' /\ OneSource' /\ FoundStays'
    BY <1>1, SameFrames DEF Incomplete, FoundStays, FrameReady
<1>8. CurrentStreamServes'
  <2> SUFFICES ASSUME NEW q \in Subpic, streamOf'[q] # None
               PROVE  q \in active' /\ subpicOf'[streamOf'[q]] = q /\ streamOf'[q] \notin closed'
    BY DEF CurrentStreamServes
  <2>1. CASE q = p
    BY <1>1, <1>2, <1>3, <2>1
  <2>2. CASE q # p
    <3>1. streamOf'[q] = streamOf[q] /\ streamOf[q] \in Stream
      BY <1>1, <1>3, <2>2
    <3>2. q \in active /\ subpicOf[streamOf[q]] = q /\ streamOf[q] \notin closed
      BY <3>1 DEF CurrentStreamServes
    <3>3. streamOf[q] # s
      BY <1>2, <2>2, <3>2 DEF KnownByItsSubpic, p
    <3> QED
      BY <1>1, <1>3, <3>1, <3>2, <3>3
  <2> QED
    BY <2>1, <2>2
<1>9. KnownByItsSubpic'
    BY <1>1, <1>2, <1>3 DEF KnownByItsSubpic, p
<1> QED
    BY <1>4, <1>5, <1>6, <1>7, <1>8, <1>9

(***************************************************************************)
(* A fragment of another frame or sub-picture makes nothing complete.      *)
(***************************************************************************)
LEMMA PartsStay ==
    ASSUME NEW x, frames' = frames \cup {x}, NEW f, NEW p, ~(x.frame = f /\ x.subpic = p)
    PROVE  Complete(f, p)' = Complete(f, p)
<1>1. Parts(f, p)' = Parts(f, p)
    BY DEF Parts
<1> QED
    BY <1>1 DEF Complete

(***************************************************************************)
(* PlaybackBuffer.push: what is complete gains nothing, nor does what a    *)
(* stream that is being drained has sent a part of.                        *)
(***************************************************************************)
LEMMA PushKeeps ==
    ASSUME IInv, SideTyped', Push
    PROVE  IInv'
<1> USE ReceiverAssumption DEF IInv
<1> DEFINE h == handling
           x == Fragment(h, arrived[h])
<1>1. /\ UNCHANGED <<control, input, raised, active, streamOf, subpicOf, closing, closed,
                     nextFrame, started, ppc, todo, draining, expected, item>>
      /\ handling # None /\ handling' = None
      /\ arrived' = [arrived EXCEPT ![h] = @ + 1]
      /\ frames' = IF \/ x.frame < nextFrame
                      \/ \E y \in Parts(x.frame, x.subpic) : y.stream # x.stream
                     THEN frames
                     ELSE frames \cup {x}
    BY DEF Push, lifecycle, playback
<1>2. /\ h \in Stream /\ arrived \in [Stream -> Nat] /\ frames \subseteq Position
      /\ input[h] = "open" /\ arrived[h] < Total(h)
    BY <1>1 DEF TypeOK, Handled
<1>3. x \in Position /\ x.stream = h
  <2>1. arrived[h] \in Nat
    BY <1>2
  <2> HIDE DEF h
  <2> QED
    BY <1>2, <2>1, FragmentType
<1> HIDE DEF x, h
<1>4. \/ frames' = frames
      \/ /\ frames' = frames \cup {x}
         /\ \A y \in Parts(x.frame, x.subpic) : y.stream = h
    BY <1>1, <1>3
<1>5. arrived' \in [Stream -> Nat] /\ \A s \in Stream : arrived'[s] \in 0 .. Total(s)
  <2>1. \A s \in Stream : arrived[s] \in Nat /\ Total(s) \in Nat /\ arrived[s] <= Total(s)
    BY <1>2, TotalType DEF TypeOK
  <2>2. \A s \in Stream : arrived'[s] = IF s = h THEN arrived[s] + 1 ELSE arrived[s]
    BY <1>1, <1>2
  <2>3. \A s \in Stream : arrived'[s] \in 0 .. Total(s)
    BY <1>2, <2>1, <2>2
  <2>4. arrived' \in [Stream -> Nat]
    BY <1>1, <1>2, <2>1, <2>2
  <2> QED
    BY <2>3, <2>4
<1>6. TypeOK'
  <2>1. frames' \subseteq Position
    BY <1>2, <1>3, <1>4
  <2>2. \A s \in Stream : arrived'[s] \in 0 .. Total(s)'
    BY <1>5 DEF Total
  <2> QED
    BY <1>1, <2>1, <2>2 DEF TypeOK, SideTyped
<1>7. Handled' /\ ClosedAreClosed' /\ Start' /\ NeverMissing' /\ CurrentStreamServes'
      /\ KnownByItsSubpic'
    BY <1>1 DEF Handled, ClosedAreClosed, Start, NeverMissing, CurrentStreamServes,
                KnownByItsSubpic
<1>8. CASE frames' = frames
  <2>1. Incomplete' /\ OneSource' /\ FoundStays' /\ DrainedHoldsNothing'
    BY <1>1, <1>8, SameFrames DEF Incomplete, FoundStays, FrameReady, DrainedHoldsNothing
  <2> QED
    BY <1>5, <1>6, <1>7, <2>1
<1>9. CASE /\ frames' = frames \cup {x} /\ frames' # frames
           /\ \A y \in Parts(x.frame, x.subpic) : y.stream = h
  <2>1. Incomplete'
    <3> SUFFICES ASSUME ppc = "drop", NEW y \in frames', y.stream = draining
                 PROVE  ~Complete(y.frame, y.subpic)'
      BY <1>1 DEF Incomplete
    <3>1. draining # h
      BY <1>2 DEF Incomplete
    <3>2. y \in frames /\ ~Complete(y.frame, y.subpic)
      BY <1>3, <1>9, <3>1 DEF Incomplete
    <3>3. ~(x.frame = y.frame /\ x.subpic = y.subpic)
      BY <1>9, <3>1, <3>2 DEF Parts
    <3> DEFINE f == y.frame
               p == y.subpic
    <3>4. ~Complete(f, p) /\ ~(x.frame = f /\ x.subpic = p)
      BY <3>2, <3>3
    <3> HIDE DEF f, p
    <3>5. Complete(f, p)' = Complete(f, p)
      BY <1>9, <3>4, PartsStay
    <3>6. ~Complete(f, p)'
      BY <3>4, <3>5
    <3> QED
      BY <3>6 DEF f, p
  <2>2. OneSource'
    BY <1>3, <1>9 DEF OneSource, Parts
  <2>3. FoundStays'
    <3> SUFFICES ASSUME ppc = "pop", NEW p \in expected PROVE Complete(nextFrame, p)'
      BY <1>1 DEF FoundStays, FrameReady
    <3>1. Complete(nextFrame, p)
      BY DEF FoundStays, FrameReady
    <3>2. ~(x.frame = nextFrame /\ x.subpic = p)
      BY <1>2, <1>3, <1>9, <3>1, CompleteIsWhole
    <3>3. PICK f \in Nat : f = nextFrame /\ f = nextFrame'
      BY <1>1 DEF TypeOK
    <3>4. Complete(f, p) /\ ~(x.frame = f /\ x.subpic = p)
      BY <3>1, <3>2, <3>3
    <3>5. Complete(f, p)' = Complete(f, p)
      BY <1>9, <3>4, PartsStay
    <3>6. Complete(f, p)'
      BY <3>4, <3>5
    <3> QED
      BY <3>3, <3>6 DEF Complete, Parts
  <2>4. DrainedHoldsNothing'
    <3>1. h \notin closed
      BY <1>2 DEF ClosedAreClosed
    <3> QED
      BY <1>1, <1>3, <1>9, <3>1 DEF DrainedHoldsNothing
  <2> QED
    BY <1>5, <1>6, <1>7, <2>1, <2>2, <2>3, <2>4
<1> QED
    BY <1>4, <1>8, <1>9

(***************************************************************************)
(* on_stream_close comes after the last packet.                            *)
(***************************************************************************)
LEMMA OnStreamCloseKeeps ==
    ASSUME IInv, SideTyped', NEW s \in Stream, OnStreamClose(s)
    PROVE  IInv'
<1> USE ReceiverAssumption DEF IInv
<1>1. /\ UNCHANGED <<control, arrived, raised, active, streamOf, subpicOf, closed, frames,
                     nextFrame, started, ppc, todo, draining, expected, item>>
      /\ handling = None /\ handling' = None
      /\ input' = [input EXCEPT ![s] = "closed"]
      /\ closing' = IF s \in closed THEN closing ELSE closing \cup {s}
    BY DEF OnStreamClose, WorkerIdle, buffer, playback
<1>2. input \in [Stream -> {"open", "closed"}]
    BY DEF TypeOK
<1>3. \A r \in Stream : input'[r] = IF r = s THEN "closed" ELSE input[r]
    BY <1>1, <1>2
<1>4. TypeOK' /\ arrived' \in [Stream -> Nat]
  <2>1. input' \in [Stream -> {"open", "closed"}]
    BY <1>1, <1>2
  <2>2. closing' \subseteq Stream /\ closed' \subseteq Stream \ closing'
    BY <1>1 DEF TypeOK
  <2> QED
    BY <1>1, <2>1, <2>2 DEF TypeOK, SideTyped
<1>5. Handled'
    BY <1>1 DEF Handled
<1>6. ClosedAreClosed'
  <2>1. closing' \cup closed' \cup todo' \subseteq closing \cup closed \cup todo \cup {s}
    BY <1>1
  <2>2. closing \cup closed \cup todo \subseteq Stream
    BY DEF TypeOK
  <2> QED
    BY <1>3, <2>1, <2>2 DEF ClosedAreClosed
<1>7. Incomplete' /\ OneSource' /\ FoundStays'
    BY <1>1, <1>3, SameFrames DEF Incomplete, FoundStays, FrameReady
<1>8. Start' /\ KnownByItsSubpic' /\ NeverMissing' /\ DrainedHoldsNothing' /\ CurrentStreamServes'
    BY <1>1 DEF Start, KnownByItsSubpic, NeverMissing, DrainedHoldsNothing, CurrentStreamServes
<1> QED
    BY <1>4, <1>5, <1>6, <1>7, <1>8

-----------------------------------------------------------------------------
(* The playback thread                                                      *)

(***************************************************************************)
(* A step of the playback thread that only looks leaves what the worker    *)
(* has done.                                                               *)
(***************************************************************************)
LEMMA LookKeeps ==
    ASSUME IInv, UNCHANGED <<network, lifecycle, buffer>>
    PROVE  /\ UNCHANGED <<control, arrived, input, handling, raised, active, streamOf, subpicOf,
                          closing, closed, frames, nextFrame, started>>
           /\ arrived' \in [Stream -> Nat]
           /\ Handled' /\ OneSource' /\ Start' /\ KnownByItsSubpic'
           /\ DrainedHoldsNothing' /\ CurrentStreamServes'
<1> USE DEF IInv
<1>1. UNCHANGED <<control, arrived, input, handling, raised, active, streamOf, subpicOf,
                  closing, closed, frames, nextFrame, started>>
    BY DEF network, lifecycle, buffer
<1>2. Handled' /\ Start' /\ KnownByItsSubpic' /\ DrainedHoldsNothing' /\ CurrentStreamServes'
    BY <1>1 DEF Handled, Start, KnownByItsSubpic, DrainedHoldsNothing, CurrentStreamServes
<1> QED
    BY <1>1, <1>2, SameFrames

(***************************************************************************)
(* The snapshot is of closed streams.                                      *)
(***************************************************************************)
LEMMA BeginDrainKeeps ==
    ASSUME IInv, SideTyped', BeginDrain
    PROVE  IInv'
<1> USE ReceiverAssumption DEF IInv
<1>1. /\ UNCHANGED <<network, lifecycle, buffer>>
      /\ UNCHANGED <<draining, expected, item>>
      /\ todo' = closing /\ ppc' = "check"
    BY DEF BeginDrain
<1>2. /\ UNCHANGED <<control, arrived, input, handling, raised, active, streamOf, subpicOf,
                     closing, closed, frames, nextFrame, started>>
      /\ arrived' \in [Stream -> Nat]
      /\ Handled' /\ OneSource' /\ Start' /\ KnownByItsSubpic'
      /\ DrainedHoldsNothing' /\ CurrentStreamServes'
    BY <1>1, LookKeeps
<1>3. TypeOK'
    BY <1>1, <1>2 DEF TypeOK, SideTyped
<1>4. ClosedAreClosed' /\ Incomplete' /\ FoundStays' /\ NeverMissing'
    BY <1>1, <1>2 DEF ClosedAreClosed, Incomplete, FoundStays, NeverMissing
<1> QED
    BY <1>2, <1>3, <1>4

(***************************************************************************)
(* A stream is drained if nothing of it is complete.                       *)
(***************************************************************************)
LEMMA CheckPendingKeeps ==
    ASSUME IInv, SideTyped', NEW s \in Stream, CheckPending(s)
    PROVE  IInv'
<1> USE ReceiverAssumption DEF IInv
<1>1. /\ UNCHANGED <<network, lifecycle, buffer>>
      /\ UNCHANGED <<expected, item>>
      /\ s \in todo /\ todo' = todo \ {s} /\ ppc = "check"
      /\ \/ UNCHANGED <<ppc, draining>>
         \/ ppc' = "drop" /\ draining' = s /\ ~Pending(s)
    BY DEF CheckPending
<1>2. /\ UNCHANGED <<control, arrived, input, handling, raised, active, streamOf, subpicOf,
                     closing, closed, frames, nextFrame, started>>
      /\ arrived' \in [Stream -> Nat]
      /\ Handled' /\ OneSource' /\ Start' /\ KnownByItsSubpic'
      /\ DrainedHoldsNothing' /\ CurrentStreamServes'
    BY <1>1, LookKeeps
<1>3. TypeOK'
    BY <1>1, <1>2 DEF TypeOK, SideTyped
<1>4. ClosedAreClosed' /\ FoundStays' /\ NeverMissing'
    BY <1>1, <1>2 DEF ClosedAreClosed, FoundStays, NeverMissing
<1>5. Incomplete'
    BY <1>1, <1>2, SameFrames DEF Incomplete, ClosedAreClosed, Pending
<1> QED
    BY <1>2, <1>3, <1>4, <1>5

(***************************************************************************)
(* The snapshot is of sub-pictures.                                        *)
(***************************************************************************)
LEMMA ExpectKeeps ==
    ASSUME IInv, SideTyped', Expect
    PROVE  IInv'
<1> USE ReceiverAssumption DEF IInv
<1>1. /\ UNCHANGED <<network, lifecycle, buffer>>
      /\ UNCHANGED <<todo, draining, item>>
      /\ expected' = active /\ ppc' \in {"drain", "ready"}
    BY DEF Expect
<1>2. /\ UNCHANGED <<control, arrived, input, handling, raised, active, streamOf, subpicOf,
                     closing, closed, frames, nextFrame, started>>
      /\ arrived' \in [Stream -> Nat]
      /\ Handled' /\ OneSource' /\ Start' /\ KnownByItsSubpic'
      /\ DrainedHoldsNothing' /\ CurrentStreamServes'
    BY <1>1, LookKeeps
<1>3. TypeOK'
    BY <1>1, <1>2 DEF TypeOK, SideTyped
<1>4. ClosedAreClosed' /\ Incomplete' /\ FoundStays' /\ NeverMissing'
    BY <1>1, <1>2 DEF ClosedAreClosed, Incomplete, FoundStays, NeverMissing
<1> QED
    BY <1>2, <1>3, <1>4

(***************************************************************************)
(* pop_next_ready: the next frame is among those it wants.                 *)
(***************************************************************************)
LEMMA FindKeeps ==
    ASSUME IInv, SideTyped', FindReady \/ FindNothing
    PROVE  IInv'
<1> USE ReceiverAssumption DEF IInv
<1>1. /\ UNCHANGED <<network, lifecycle, buffer>>
      /\ UNCHANGED <<todo, draining, expected, item>>
      /\ \/ ppc' = "drain"
         \/ ppc' = "pop" /\ \A f \in Wanted : FrameReady(f, expected)
    BY DEF FindReady, FindNothing
<1>2. /\ UNCHANGED <<control, arrived, input, handling, raised, active, streamOf, subpicOf,
                     closing, closed, frames, nextFrame, started>>
      /\ arrived' \in [Stream -> Nat]
      /\ Handled' /\ OneSource' /\ Start' /\ KnownByItsSubpic'
      /\ DrainedHoldsNothing' /\ CurrentStreamServes'
    BY <1>1, LookKeeps
<1>3. TypeOK'
    BY <1>1, <1>2 DEF TypeOK, SideTyped
<1>4. ClosedAreClosed' /\ Incomplete' /\ NeverMissing'
    BY <1>1, <1>2 DEF ClosedAreClosed, Incomplete, NeverMissing
<1>5. nextFrame \in Wanted
  <2>1. 0 \in 0 .. Startup - 1
    OBVIOUS
  <2> QED
    BY <2>1 DEF Wanted, Start
<1>6. FoundStays'
    BY <1>1, <1>2, <1>5, SameFrames DEF FoundStays, FrameReady
<1> QED
    BY <1>2, <1>3, <1>4, <1>6

(***************************************************************************)
(* The frame has been given to the decoders.                               *)
(***************************************************************************)
LEMMA DecodeKeeps ==
    ASSUME IInv, SideTyped', Decode \/ DecodeRaises
    PROVE  IInv'
<1> USE ReceiverAssumption DEF IInv
<1>1. /\ UNCHANGED <<network, lifecycle, buffer>>
      /\ UNCHANGED <<todo, draining, expected>>
      /\ item' = {} /\ ppc' \in {"drain", "dead"}
    BY DEF Decode, DecodeRaises
<1>2. /\ UNCHANGED <<control, arrived, input, handling, raised, active, streamOf, subpicOf,
                     closing, closed, frames, nextFrame, started>>
      /\ arrived' \in [Stream -> Nat]
      /\ Handled' /\ OneSource' /\ Start' /\ KnownByItsSubpic'
      /\ DrainedHoldsNothing' /\ CurrentStreamServes'
    BY <1>1, LookKeeps
<1>3. TypeOK'
    BY <1>1, <1>2 DEF TypeOK, SideTyped
<1>4. ClosedAreClosed' /\ Incomplete' /\ FoundStays' /\ NeverMissing'
    BY <1>1, <1>2 DEF ClosedAreClosed, Incomplete, FoundStays, NeverMissing
<1> QED
    BY <1>2, <1>3, <1>4

(***************************************************************************)
(* The stream's parts are gone, and the sub-picture whose current stream   *)
(* it was has none.                                                        *)
(***************************************************************************)
LEMMA DropKeeps ==
    ASSUME IInv, SideTyped', Drop \/ FlushRaises
    PROVE  IInv'
<1> USE ReceiverAssumption DEF IInv
<1> DEFINE s == draining
           p == subpicOf[s]
           ends == p # None /\ streamOf[p] = s
<1>1. /\ UNCHANGED <<control, arrived, input, handling, raised, nextFrame, started, todo,
                     expected, item>>
      /\ ppc = "drop" /\ ppc' \in {"check", "dead"} /\ draining' \in {s, None}
      /\ \/ /\ UNCHANGED <<active, streamOf, subpicOf, closing, closed>>
            /\ frames' \subseteq frames
         \/ /\ s \in closing
            /\ frames' = {x \in frames : x.stream # s \/ Complete(x.frame, x.subpic)}
            /\ active' = IF ends THEN active \ {p} ELSE active
            /\ streamOf' = IF ends THEN [streamOf EXCEPT ![p] = None] ELSE streamOf
            /\ closing' = closing \ {s}
            /\ closed' = closed \cup {s}
            /\ subpicOf' = [subpicOf EXCEPT ![s] = None]
    BY DEF Drop, FlushRaises, DropIncomplete, Ends, network, lifecycle
<1>2. s \in Stream /\ \A x \in frames : x.stream = s => ~Complete(x.frame, x.subpic)
    BY <1>1 DEF Incomplete
<1>3. /\ subpicOf \in [Stream -> Subpic \cup {None}]
      /\ streamOf \in [Subpic -> Stream \cup {None}]
      /\ None \notin Subpic
    BY DEF TypeOK
<1>4. Incomplete' /\ FoundStays' /\ NeverMissing' /\ Start' /\ Handled'
    BY <1>1 DEF Incomplete, FoundStays, NeverMissing, Start, Handled, Total
<1>5. CASE /\ UNCHANGED <<active, streamOf, subpicOf, closing, closed>>
           /\ frames' \subseteq frames
  <2>2. TypeOK' /\ arrived' \in [Stream -> Nat]
    BY <1>1, <1>2, <1>5 DEF TypeOK, SideTyped, Total
  <2>3. OneSource' /\ ClosedAreClosed' /\ KnownByItsSubpic' /\ DrainedHoldsNothing'
        /\ CurrentStreamServes'
    BY <1>1, <1>5 DEF OneSource, ClosedAreClosed, KnownByItsSubpic, DrainedHoldsNothing,
                      CurrentStreamServes
  <2> QED
    BY <1>4, <2>2, <2>3
<1>6. CASE /\ s \in closing
           /\ frames' = {x \in frames : x.stream # s \/ Complete(x.frame, x.subpic)}
           /\ active' = IF ends THEN active \ {p} ELSE active
           /\ streamOf' = IF ends THEN [streamOf EXCEPT ![p] = None] ELSE streamOf
           /\ closing' = closing \ {s}
           /\ closed' = closed \cup {s}
           /\ subpicOf' = [subpicOf EXCEPT ![s] = None]
  <2>1. /\ frames' = {x \in frames : x.stream # s}
        /\ closing' = closing \ {s} /\ closed' = closed \cup {s}
        /\ subpicOf' = [subpicOf EXCEPT ![s] = None]
    BY <1>1, <1>2, <1>6
  <2>2. /\ ends => active' = active \ {p} /\ streamOf' = [streamOf EXCEPT ![p] = None]
        /\ ~ends => active' = active /\ streamOf' = streamOf
    BY <1>1, <1>6
  <2>3. p \in Subpic \cup {None}
    BY <1>2, <1>3
  <2>4. \A r \in Stream : subpicOf'[r] = IF r = s THEN None ELSE subpicOf[r]
    BY <1>2, <1>3, <2>1
  <2>5. \A q \in Subpic : streamOf'[q] = IF ends /\ q = p THEN None ELSE streamOf[q]
    BY <1>3, <2>2
  <2> HIDE DEF s, p
  <2>6. TypeOK' /\ arrived' \in [Stream -> Nat]
    <3>1. subpicOf' \in [Stream -> Subpic \cup {None}]
      BY <1>2, <1>3, <2>1
    <3>2. streamOf' \in [Subpic -> Stream \cup {None}] /\ active' \subseteq Subpic
      BY <1>3, <2>2 DEF TypeOK
    <3>3. /\ closing' \subseteq Stream /\ closed' \subseteq Stream \ closing'
          /\ frames' \subseteq Position
      BY <1>2, <2>1 DEF TypeOK
    <3> QED
      BY <1>1, <1>2, <3>1, <3>2, <3>3 DEF TypeOK, SideTyped, Total
  <2>7. OneSource' /\ DrainedHoldsNothing'
    BY <2>1 DEF OneSource, DrainedHoldsNothing
  <2>8. ClosedAreClosed'
    BY <1>1, <1>6, <2>1 DEF ClosedAreClosed
  <2>9. KnownByItsSubpic'
    BY <2>4 DEF KnownByItsSubpic
  <2>10. CurrentStreamServes'
    <3> SUFFICES ASSUME NEW q \in Subpic, streamOf'[q] # None
                 PROVE  /\ q \in active' /\ subpicOf'[streamOf'[q]] = q
                        /\ streamOf'[q] \notin closed'
      BY DEF CurrentStreamServes
    <3>1. streamOf'[q] = streamOf[q] /\ ~(ends /\ q = p)
      BY <2>5
    <3>2. q \in active /\ subpicOf[streamOf[q]] = q /\ streamOf[q] \notin closed
      BY <3>1 DEF CurrentStreamServes
    <3>3. streamOf[q] # s
      BY <1>3, <3>1, <3>2 DEF p
    <3>4. streamOf[q] \in Stream
      BY <1>3, <3>1
    <3>5. q \in active'
      BY <2>2, <3>1, <3>2
    <3> QED
      BY <2>1, <2>4, <3>1, <3>2, <3>3, <3>4, <3>5
  <2> QED
    BY <1>4, <2>6, <2>7, <2>8, <2>9, <2>10
<1> QED
    BY <1>1, <1>5, <1>6

(***************************************************************************)
(* pop_frame takes what pop_next_ready has found.                          *)
(***************************************************************************)
LEMMA PopFrameKeeps ==
    ASSUME IInv, SideTyped', PopFrame
    PROVE  IInv'
<1> USE ReceiverAssumption DEF IInv
<1>1. /\ UNCHANGED <<control, arrived, input, handling, raised, active, streamOf, subpicOf,
                     closing, closed, nextFrame, started, todo, draining, expected>>
      /\ ppc = "pop" /\ ppc' \in {"advance", "drain"}
      /\ item' = {p \in Subpic : Complete(nextFrame, p)}
      /\ frames' = {x \in frames : x.frame # nextFrame}
    BY DEF PopFrame, network, lifecycle
<1>2. TypeOK' /\ arrived' \in [Stream -> Nat]
  <2>1. frames' \subseteq Position /\ item' \subseteq Subpic
    BY <1>1 DEF TypeOK
  <2> QED
    BY <1>1, <2>1 DEF TypeOK, SideTyped, Total
<1>3. NeverMissing'
  <2>1. expected \subseteq Subpic
    BY DEF TypeOK
  <2> QED
    BY <1>1, <2>1 DEF NeverMissing, FoundStays, FrameReady
<1>4. OneSource' /\ DrainedHoldsNothing'
    BY <1>1 DEF OneSource, DrainedHoldsNothing
<1>5. Handled' /\ ClosedAreClosed' /\ Incomplete' /\ FoundStays' /\ Start'
    BY <1>1 DEF Handled, ClosedAreClosed, Incomplete, FoundStays, Start, Total
<1>6. KnownByItsSubpic' /\ CurrentStreamServes'
    BY <1>1 DEF KnownByItsSubpic, CurrentStreamServes
<1> QED
    BY <1>2, <1>3, <1>4, <1>5, <1>6

(***************************************************************************)
(* next_frame goes on, and playback has started.                           *)
(***************************************************************************)
LEMMA AdvanceKeeps ==
    ASSUME IInv, SideTyped', Advance
    PROVE  IInv'
<1> USE ReceiverAssumption DEF IInv
<1>1. /\ UNCHANGED <<control, arrived, input, handling, raised, active, streamOf, subpicOf,
                     closing, closed, frames, todo, draining, expected, item>>
      /\ ppc = "advance" /\ ppc' = "decode"
      /\ nextFrame' = nextFrame + 1 /\ started' = TRUE
    BY DEF Advance, network, lifecycle
<1>2. TypeOK' /\ arrived' \in [Stream -> Nat]
  <2>1. nextFrame' \in Nat
    <3>1. nextFrame \in Nat
      BY DEF TypeOK
    <3> QED
      BY <1>1, <3>1
  <2> QED
    BY <1>1, <2>1 DEF TypeOK, SideTyped, Total
<1>3. NeverMissing' /\ Start'
    BY <1>1 DEF NeverMissing, Start
<1>4. OneSource' /\ DrainedHoldsNothing'
    BY <1>1 DEF OneSource, DrainedHoldsNothing
<1>5. Handled' /\ ClosedAreClosed' /\ Incomplete' /\ FoundStays'
    BY <1>1 DEF Handled, ClosedAreClosed, Incomplete, FoundStays, Total
<1>6. KnownByItsSubpic' /\ CurrentStreamServes'
    BY <1>1 DEF KnownByItsSubpic, CurrentStreamServes
<1> QED
    BY <1>2, <1>3, <1>4, <1>5, <1>6

-----------------------------------------------------------------------------
(* The theorems                                                             *)

(***************************************************************************)
(* The invariant holds at first.                                           *)
(***************************************************************************)
LEMMA InitIInv == Init => IInv
<1> SUFFICES ASSUME Init PROVE IInv
    OBVIOUS
<1> USE ReceiverAssumption DEF Init
<1>1. TypeOK /\ arrived \in [Stream -> Nat]
  <2>1. arrived \in [Stream -> Nat] /\ \A s \in Stream : arrived[s] \in 0 .. Total(s)
    BY TotalType
  <2>2. control \in 0 .. NumSubpics + 1 /\ nextFrame \in Nat
    OBVIOUS
  <2>3. /\ streamOf \in [Subpic -> Stream \cup {None}]
        /\ subpicOf \in [Stream -> Subpic \cup {None}]
        /\ input \in [Stream -> {"open", "closed"}]
    OBVIOUS
  <2> QED
    BY <2>1, <2>2, <2>3 DEF TypeOK
<1>2. Handled /\ ClosedAreClosed /\ Incomplete /\ OneSource /\ FoundStays /\ Start
    BY DEF Handled, ClosedAreClosed, Incomplete, OneSource, FoundStays, Start
<1>3. KnownByItsSubpic /\ NeverMissing /\ DrainedHoldsNothing /\ CurrentStreamServes
    BY DEF KnownByItsSubpic, NeverMissing, DrainedHoldsNothing, CurrentStreamServes
<1> QED
    BY <1>1, <1>2, <1>3 DEF IInv

(***************************************************************************)
(* Every step keeps the invariant.                                         *)
(***************************************************************************)
LEMMA NextIInv == IInv /\ [Next]_vars => IInv'
<1> SUFFICES ASSUME IInv, [Next]_vars PROVE IInv'
    OBVIOUS
<1>1. SideTyped'
    BY SideKeeps DEF IInv
<1>2. CASE Worker
  <2>1. ASSUME NEW s \in Stream, Activate(s) PROVE IInv'
    BY <1>1, <2>1, ActivateKeeps
  <2>2. ASSUME NEW s \in Stream, OnStreamClose(s) PROVE IInv'
    BY <1>1, <2>2, OnStreamCloseKeeps
  <2> QED
    BY <1>1, <1>2, <2>1, <2>2, ReceiveInitKeeps, ConfigKeeps, PushKeeps DEF Worker
<1>3. CASE Playback
  <2>1. ASSUME NEW s \in Stream, CheckPending(s) PROVE IInv'
    BY <1>1, <2>1, CheckPendingKeeps
  <2> QED
    BY <1>1, <1>3, <2>1, BeginDrainKeeps, DropKeeps, ExpectKeeps, FindKeeps, PopFrameKeeps,
       AdvanceKeeps, DecodeKeeps DEF Playback
<1>4. CASE UNCHANGED vars
  <2>1. /\ UNCHANGED <<network, lifecycle, buffer>>
        /\ UNCHANGED <<ppc, todo, draining, expected, item>>
    BY <1>4 DEF vars, network, lifecycle, buffer
  <2>2. /\ UNCHANGED <<control, arrived, input, handling, raised, active, streamOf, subpicOf,
                       closing, closed, frames, nextFrame, started>>
        /\ arrived' \in [Stream -> Nat]
        /\ Handled' /\ OneSource' /\ Start' /\ KnownByItsSubpic'
        /\ DrainedHoldsNothing' /\ CurrentStreamServes'
    BY <2>1, LookKeeps
  <2>3. TypeOK' /\ ClosedAreClosed' /\ NeverMissing'
    BY <1>1, <2>1, <2>2 DEF IInv, TypeOK, SideTyped, ClosedAreClosed, NeverMissing, Total
  <2>4. Incomplete' /\ FoundStays'
    BY <2>1, <2>2, SameFrames DEF IInv, Incomplete, FoundStays, FrameReady
  <2> QED
    BY <2>2, <2>3, <2>4 DEF IInv
<1> QED
    BY <1>2, <1>3, <1>4 DEF Next

(***************************************************************************)
(* The inductive invariant.                                                *)
(***************************************************************************)
LEMMA Invariance == Spec => []IInv
<1> QED
    BY InitIInv, NextIInv, PTL DEF Spec

(***************************************************************************)
(* The receiver's state is what the code can have: no stream sends more    *)
(* packets than it carries, and none is closing and closed at once.        *)
(***************************************************************************)
THEOREM ReceiverTypeCorrect == Spec => []TypeOK
<1>1. IInv => TypeOK
    BY DEF IInv
<1> QED
    BY <1>1, Invariance, PTL

(***************************************************************************)
(* What pop_next_ready has found complete, pop_frame takes complete, for   *)
(* any number of streams, sub-pictures and fragments: a push in between,   *)
(* under the lock that the check has released, changes nothing.            *)
(***************************************************************************)
THEOREM FoundFramesAreThere == Spec => []NeverMissing
<1>1. IInv => NeverMissing
    BY DEF IInv
<1> QED
    BY <1>1, Invariance, PTL

(***************************************************************************)
(* Nothing of a drained stream is left in the buffer, though what is       *)
(* pending is looked at under one lock and dropped under another.          *)
(***************************************************************************)
THEOREM DrainedStreamsAreEmpty == Spec => []DrainedHoldsNothing
<1>1. IInv => DrainedHoldsNothing
    BY DEF IInv
<1> QED
    BY <1>1, Invariance, PTL

(***************************************************************************)
(* The lifecycle maps agree: a sub-picture's current stream carries it, is *)
(* not drained, and the sub-picture is active, however streams close and   *)
(* open.                                                                   *)
(***************************************************************************)
THEOREM MapsAgree == Spec => []CurrentStreamServes
<1>1. IInv => CurrentStreamServes
    BY DEF IInv
<1> QED
    BY <1>1, Invariance, PTL
=============================================================================
