-------------------------- MODULE LiveSenderProofs --------------------------
(***************************************************************************)
(* Proofs about LiveSender, for every number of sub-pictures and frames,   *)
(* every choice of frames without data, every size of objects and every    *)
(* window.                                                                 *)
(*                                                                         *)
(* None of its invariants is inductive.  What is on the wire is in order   *)
(* because what waits to be sent is (Ordered), because a stream ends with  *)
(* the last byte sent of the active object, or of one before all those     *)
(* that wait (Ends), and because each object that has been pushed is in    *)
(* the queue, at hand or on the wire (Covered).  The control objects come  *)
(* first because the queue has been empty in between (NoControlLater,      *)
(* ControlGone), and a stream is whole when it is closed because of how    *)
(* the threads end (SourceFacts, GateFacts).                               *)
(***************************************************************************)
EXTENDS LiveSender, TLAPS

Elems(q) == {q[i] : i \in 1 .. Len(q)}

\* Of two objects of a stream the one with the smaller number is in front.
Sorted(q) == \A i, j \in 1 .. Len(q) :
    i < j /\ q[i].stream = q[j].stream => q[i].n < q[j].n

\* An object that waits and is not in objs: in the queue, or at hand.
Waits(o) == o \in Elems(queue) \/ o = active

OnWire(s) == {wire[s][i].n : i \in 1 .. Len(wire[s])}

Early == src \in {"init", "configs", "wait queue"}

\* Numbers of a stream below this one have been pushed.
Pushed(s) == IF s # Common THEN fid
             ELSE IF src = "init" THEN 0
             ELSE IF src = "configs" THEN 1
             ELSE NumConfigs + 1

SourceFacts ==
    /\ Early => fid = 0
    /\ src \in {"build", "raised"} => fid < NumFrames
    /\ src \in {"stop worker", "join worker", "join gate", "close"} => fid = NumFrames
    /\ src \notin {"build", "raised"} => sid = 0 /\ objs = <<>>
    /\ src \notin {"raised", "close"} => open = Stream
    /\ finished => src \in {"join gate", "close"}
    /\ src = "close" => gate = "ended"

GateFacts ==
    /\ gate = "pop" => active = None
    /\ gate = "send" => budget > 0
    /\ gate = "ended" => finished /\ queue = <<>> /\ active = None
    /\ active = None => offset = 0

\* The jobs that task_done has not been called for are those in the queue and
\* the one the worker has, and are no more than have been put.
AtWork == IF worker \in {"extract", "dead"} THEN 1 ELSE 0
JustPut == IF src \in {"build", "raised", "join worker", "join gate", "close"}
             THEN 1 ELSE 0

Owed == unfinished = Len(jobs) + AtWork /\ unfinished <= fid + JustPut

\* What waits is of numbers that have been pushed, what is made of the next.
Known ==
    /\ \A o \in Objects : Waits(o) => /\ o.n \in Numbers(o.stream)
                                      /\ o.n < Pushed(o.stream)
    /\ \A o \in Elems(objs) : /\ o.stream \in Subpic /\ o.stream < sid
                              /\ o.n = fid /\ fid \in Numbers(o.stream)
    /\ \A s \in Stream : OnWire(s) \subseteq Numbers(s)
    /\ \A s \in Stream : \A n \in OnWire(s) : n < Pushed(s)

\* The order in which it waits.
Ordered ==
    /\ Sorted(queue)
    /\ Sorted(objs)
    /\ active # None => \A o \in Elems(queue) :
                            o.stream = active.stream => active.n < o.n

\* Nothing that has been pushed is missing, and nothing that has been made.
Covered ==
    /\ \A s \in Stream : \A n \in Numbers(s) :
          n < Pushed(s) => n \in OnWire(s) \/ Waits(Object(s, n))
    /\ \A s \in Subpic :
          s < sid /\ fid \in Numbers(s) => Object(s, fid) \in Elems(objs)

\* The stream s ends within the active object.
Begun(s) == active # None /\ active.stream = s /\ offset > 0

\* How a stream ends.
Ends == \A s \in Stream :
    /\ Begun(s) => /\ wire[s] # <<>>
                   /\ LastByte(s) = [n |-> active.n, at |-> offset - 1]
    /\ ~Begun(s) /\ wire[s] # <<>> =>
          /\ LastByte(s).at = Size - 1
          /\ \A o \in Objects : Waits(o) /\ o.stream = s => LastByte(s).n < o.n
    /\ \A n \in OnWire(s) : n <= LastByte(s).n

NoControlLater == ~Early => \A o \in Elems(queue) : o.stream # Common

ControlGone == (\E s \in Subpic : wire[s] # <<>>) /\ active # None
                   => active.stream # Common

\* What concerns the way of the objects from the source to the wire.
Pipe == /\ Known /\ Ordered /\ Covered /\ Ends /\ NoControlLater /\ ControlGone
        /\ WireInOrder

way == <<fid, sid, objs, queue, active, offset, wire>>

IInv == TypeOK /\ SourceFacts /\ GateFacts /\ Owed /\ Pipe

-----------------------------------------------------------------------------
(* Sequences of objects                                                     *)

Cat(p, q) == p \o q

(***************************************************************************)
(* An empty queue has no objects.                                          *)
(***************************************************************************)
LEMMA ElemsOfNone == Elems(<<>>) = {}
    BY DEF Elems

(***************************************************************************)
(* What is in a sequence of objects is an object.                          *)
(***************************************************************************)
LEMMA ElemsTyped ==
    ASSUME NEW q \in Seq(Objects)
    PROVE  Elems(q) \subseteq Objects
    BY DEF Elems

(***************************************************************************)
(* The objects of a sequence with one more at its end.                     *)
(***************************************************************************)
LEMMA ElemsAppend ==
    ASSUME NEW q \in Seq(Objects), NEW x \in Objects
    PROVE  Elems(Append(q, x)) = Elems(q) \cup {x}
<1> DEFINE r == Append(q, x)
<1>1. /\ Len(q) \in Nat /\ Len(r) = Len(q) + 1 /\ r[Len(q) + 1] = x
      /\ \A i \in 1 .. Len(q) : r[i] = q[i]
    OBVIOUS
<1>2. Elems(r) \subseteq Elems(q) \cup {x}
  <2> SUFFICES ASSUME NEW i \in 1 .. Len(r) PROVE r[i] \in Elems(q) \cup {x}
    BY DEF Elems
  <2> HIDE DEF r
  <2>1. i \in 1 .. Len(q) \/ i = Len(q) + 1
    BY <1>1
  <2> QED
    BY <1>1, <2>1 DEF Elems
<1>3. Elems(q) \cup {x} \subseteq Elems(r)
  <2> HIDE DEF r
  <2>1. x \in Elems(r)
    BY <1>1 DEF Elems
  <2>2. ASSUME NEW i \in 1 .. Len(q) PROVE q[i] \in Elems(r)
    <3>1. i \in 1 .. Len(r) /\ r[i] = q[i]
      BY <1>1, <2>2
    <3> QED
      BY <3>1 DEF Elems
  <2> QED
    BY <2>1, <2>2 DEF Elems
<1> QED
    BY <1>2, <1>3

(***************************************************************************)
(* The objects of two sequences put together.                              *)
(***************************************************************************)
LEMMA ElemsCat ==
    ASSUME NEW p \in Seq(Objects), NEW q \in Seq(Objects)
    PROVE  /\ Cat(p, q) \in Seq(Objects)
           /\ Elems(Cat(p, q)) = Elems(p) \cup Elems(q)
<1> DEFINE r == Cat(p, q)
<1>1. /\ r \in Seq(Objects)
      /\ Len(p) \in Nat /\ Len(q) \in Nat /\ Len(r) = Len(p) + Len(q)
      /\ \A i \in 1 .. Len(p) : r[i] = p[i]
      /\ \A i \in 1 .. Len(r) : i > Len(p) => r[i] = q[i - Len(p)]
    BY DEF Cat
<1> HIDE DEF r
<1>2. ASSUME NEW i \in 1 .. Len(r) PROVE r[i] \in Elems(p) \cup Elems(q)
  <2>1. i \in 1 .. Len(p) \/ (i > Len(p) /\ i - Len(p) \in 1 .. Len(q))
    BY <1>1
  <2> QED
    BY <1>1, <2>1 DEF Elems
<1>3. ASSUME NEW i \in 1 .. Len(p) PROVE p[i] \in Elems(r)
  <2>1. i \in 1 .. Len(r) /\ r[i] = p[i]
    BY <1>1
  <2> QED
    BY <2>1 DEF Elems
<1>4. ASSUME NEW i \in 1 .. Len(q) PROVE q[i] \in Elems(r)
  <2>1. /\ i + Len(p) \in 1 .. Len(r) /\ i + Len(p) > Len(p)
        /\ (i + Len(p)) - Len(p) = i
    BY <1>1
  <2>2. r[i + Len(p)] = q[i]
    BY <1>1, <2>1
  <2> QED
    BY <2>1, <2>2 DEF Elems
<1>5. Elems(r) = Elems(p) \cup Elems(q)
    BY <1>2, <1>3, <1>4 DEF Elems
<1> QED
    BY <1>1, <1>5 DEF r

(***************************************************************************)
(* A sequence that is not empty has its head and the objects of its tail.  *)
(***************************************************************************)
LEMMA ElemsTail ==
    ASSUME NEW q \in Seq(Objects), q # <<>>
    PROVE  /\ Head(q) \in Objects
           /\ Tail(q) \in Seq(Objects)
           /\ Elems(q) = Elems(Tail(q)) \cup {Head(q)}
<1> DEFINE r == Tail(q)
<1>1. /\ r \in Seq(Objects) /\ Head(q) = q[1]
      /\ Len(q) \in Nat \ {0} /\ Len(r) = Len(q) - 1
      /\ \A i \in 1 .. Len(r) : r[i] = q[i + 1]
    OBVIOUS
<1> HIDE DEF r
<1>2. ASSUME NEW i \in 1 .. Len(r) PROVE r[i] \in Elems(q)
  <2>1. i + 1 \in 1 .. Len(q) /\ r[i] = q[i + 1]
    BY <1>1
  <2> QED
    BY <2>1 DEF Elems
<1>3. ASSUME NEW i \in 1 .. Len(q) PROVE q[i] \in Elems(r) \cup {Head(q)}
  <2>1. i = 1 \/ (i - 1 \in 1 .. Len(r) /\ (i - 1) + 1 = i)
    BY <1>1
  <2>2. CASE i = 1
    BY <1>1, <2>2
  <2>3. CASE i - 1 \in 1 .. Len(r) /\ (i - 1) + 1 = i
    <3>1. r[i - 1] = q[i]
      BY <1>1, <2>3
    <3> QED
      BY <2>3, <3>1 DEF Elems
  <2> QED
    BY <2>1, <2>2, <2>3
<1>4. 1 \in 1 .. Len(q) /\ Head(q) = q[1]
    BY <1>1
<1>5. Head(q) \in Elems(q) /\ Head(q) \in Objects
    BY <1>4 DEF Elems
<1>6. Elems(q) = Elems(r) \cup {Head(q)}
    BY <1>2, <1>3, <1>5 DEF Elems
<1> QED
    BY <1>1, <1>5, <1>6 DEF r

(***************************************************************************)
(* The head of an ordered sequence comes before what follows of its        *)
(* stream.                                                                 *)
(***************************************************************************)
LEMMA SortedTail ==
    ASSUME NEW q \in Seq(Objects), q # <<>>, Sorted(q)
    PROVE  /\ Sorted(Tail(q))
           /\ \A o \in Elems(Tail(q)) : o.stream = Head(q).stream => Head(q).n < o.n
<1> DEFINE r == Tail(q)
<1>1. /\ Head(q) = q[1]
      /\ Len(q) \in Nat \ {0} /\ Len(r) = Len(q) - 1
      /\ \A i \in 1 .. Len(r) : r[i] = q[i + 1]
    OBVIOUS
<1> HIDE DEF r
<1>2. \A i \in 1 .. Len(r) : i + 1 \in 1 .. Len(q) /\ 1 < i + 1 /\ 1 \in 1 .. Len(q)
    BY <1>1
<1>3. \A i, j \in 1 .. Len(r) : i < j => i + 1 < j + 1
    BY <1>1
<1>4. Sorted(r)
    BY <1>1, <1>2, <1>3 DEF Sorted
<1>5. \A o \in Elems(r) : o.stream = Head(q).stream => Head(q).n < o.n
    BY <1>1, <1>2 DEF Sorted, Elems
<1> QED
    BY <1>4, <1>5 DEF r

(***************************************************************************)
(* Two ordered sequences make one, if what is in the second comes after    *)
(* what is in the first.                                                   *)
(***************************************************************************)
LEMMA SortedCat ==
    ASSUME NEW p \in Seq(Objects), NEW q \in Seq(Objects), Sorted(p), Sorted(q),
           \A x \in Elems(p), y \in Elems(q) : x.stream = y.stream => x.n < y.n
    PROVE  Sorted(Cat(p, q))
<1> DEFINE r == Cat(p, q)
<1>1. /\ Len(p) \in Nat /\ Len(q) \in Nat /\ Len(r) = Len(p) + Len(q)
      /\ \A i \in 1 .. Len(p) : r[i] = p[i]
      /\ \A i \in 1 .. Len(r) : i > Len(p) => r[i] = q[i - Len(p)]
    BY DEF Cat
<1> HIDE DEF r
<1> SUFFICES ASSUME NEW i \in 1 .. Len(r), NEW j \in 1 .. Len(r),
                    i < j, r[i].stream = r[j].stream
             PROVE  r[i].n < r[j].n
    BY DEF Sorted, r
<1>2. CASE j <= Len(p)
  <2>1. i \in 1 .. Len(p) /\ j \in 1 .. Len(p)
    BY <1>1, <1>2
  <2> QED
    BY <1>1, <2>1 DEF Sorted
<1>3. CASE i <= Len(p) /\ j > Len(p)
  <2>1. i \in 1 .. Len(p) /\ j - Len(p) \in 1 .. Len(q)
    BY <1>1, <1>3
  <2>2. r[i] \in Elems(p) /\ r[j] \in Elems(q)
    BY <1>1, <1>3, <2>1 DEF Elems
  <2> QED
    BY <2>2
<1>4. CASE i > Len(p)
  <2>1. /\ i - Len(p) \in 1 .. Len(q) /\ j - Len(p) \in 1 .. Len(q)
        /\ i - Len(p) < j - Len(p) /\ j > Len(p)
    BY <1>1, <1>4
  <2>2. r[i] = q[i - Len(p)] /\ r[j] = q[j - Len(p)]
    BY <1>1, <1>4, <2>1
  <2> QED
    BY <2>1, <2>2 DEF Sorted
<1> QED
    BY <1>1, <1>2, <1>3, <1>4

(***************************************************************************)
(* An ordered sequence stays ordered with a later object at its end.       *)
(***************************************************************************)
LEMMA SortedAppend ==
    ASSUME NEW p \in Seq(Objects), NEW x \in Objects, Sorted(p),
           \A y \in Elems(p) : y.stream = x.stream => y.n < x.n
    PROVE  Sorted(Append(p, x))
<1> DEFINE r == Append(p, x)
<1>1. /\ Len(p) \in Nat /\ Len(r) = Len(p) + 1 /\ r[Len(p) + 1] = x
      /\ \A i \in 1 .. Len(p) : r[i] = p[i]
    OBVIOUS
<1> HIDE DEF r
<1> SUFFICES ASSUME NEW i \in 1 .. Len(r), NEW j \in 1 .. Len(r),
                    i < j, r[i].stream = r[j].stream
             PROVE  r[i].n < r[j].n
    BY DEF Sorted, r
<1>2. i \in 1 .. Len(p) /\ (j \in 1 .. Len(p) \/ j = Len(p) + 1)
    BY <1>1
<1> QED
    BY <1>1, <1>2 DEF Sorted, Elems

-----------------------------------------------------------------------------
(* The three threads                                                        *)

(***************************************************************************)
(* The flags are Boolean.                                                  *)
(***************************************************************************)
LEMMA FlagsKeep ==
    ASSUME {finished, noJobs, lost} \subseteq BOOLEAN, [Next]_vars
    PROVE  {finished, noJobs, lost}' \subseteq BOOLEAN
<1>1. finished \in BOOLEAN /\ noJobs \in BOOLEAN /\ lost \in BOOLEAN
    OBVIOUS
<1>2. finished' \in BOOLEAN /\ noJobs' \in BOOLEAN /\ lost' \in BOOLEAN
    BY <1>1, ZenonT(60)
       DEF Next, vars, Source, Gate, Worker, source, features, PushInit, PushConfigs,
           QueueEmpty, ReleaseFrame, BuildObject, PushFrame, FeaturesDone, StopWorker,
           FinishSender, JoinGate, CloseStream, SourceRaises, GateLoop, GatePop,
           GateBudget, GateNoBudget, GateSend, GateSendFails, WorkerLoop, WorkerGet,
           WorkerDone, WorkerRaises, LoseConnection
<1> QED
    BY <1>2

(***************************************************************************)
(* A chunk is not empty, and stays within the object.                      *)
(***************************************************************************)
LEMMA ChunkFacts ==
    ASSUME TypeOK, GateFacts, gate = "send"
    PROVE  /\ active \in Objects
           /\ ChunkLen \in Nat \ {0}
           /\ offset \in Nat /\ Size \in Nat
           /\ offset + ChunkLen <= Size
<1>1. /\ offset \in 0 .. Size - 1 /\ budget \in 0 .. MaxBudget /\ budget > 0
      /\ active \in Objects \cup {None} /\ active # None
    BY DEF TypeOK, GateFacts
<1>2. Size \in Nat \ {0} /\ MaxBudget \in Nat \ {0}
    BY SenderAssumption
<1>3. ChunkLen \in Nat \ {0} /\ offset + ChunkLen <= Size
    BY <1>1, <1>2 DEF ChunkLen
<1> QED
    BY <1>1, <1>2, <1>3

(***************************************************************************)
(* A chunk has as many bytes as it is long, of one object, at ascending    *)
(* offsets.                                                                *)
(***************************************************************************)
LEMMA BytesFacts ==
    ASSUME NEW o \in Objects, NEW from \in Nat, NEW k \in Nat, Size \in Nat,
           from + k <= Size
    PROVE  /\ Bytes(o, from, k) \in Seq(Byte)
           /\ Len(Bytes(o, from, k)) = k
           /\ \A i \in 1 .. k : /\ Bytes(o, from, k)[i].n = o.n
                                /\ Bytes(o, from, k)[i].at = from + i - 1
                                /\ Bytes(o, from, k)[i].at \in Nat
<1>1. o.n \in Nat
    BY DEF Objects
<1>2. ASSUME NEW i \in 1 .. k
      PROVE  from + i - 1 \in 0 .. Size - 1
    OBVIOUS
<1>3. \A i \in 1 .. k : [n |-> o.n, at |-> from + i - 1] \in Byte
    BY <1>1, <1>2 DEF Byte
<1> QED
    BY <1>2, <1>3 DEF Bytes

(***************************************************************************)
(* What Append and Tail make of a queue of jobs.                           *)
(***************************************************************************)
LEMMA JobFacts ==
    ASSUME NEW S, NEW q \in Seq(S)
    PROVE  /\ Len(q) \in Nat
           /\ \A x \in S : Append(q, x) \in Seq(S) /\ Len(Append(q, x)) = Len(q) + 1
           /\ q # <<>> => Tail(q) \in Seq(S) /\ Len(Tail(q)) = Len(q) - 1 /\ Len(q) > 0
    OBVIOUS

(***************************************************************************)
(* build_config_objects makes the objects 1, 2, ... of the common stream.  *)
(***************************************************************************)
LEMMA ConfigFacts ==
    /\ ConfigObjects \in Seq(Objects)
    /\ \A o \in Elems(ConfigObjects) : /\ o.stream = Common
                                       /\ o.n \in 1 .. NumConfigs
    /\ \A n \in 1 .. NumConfigs : Object(Common, n) \in Elems(ConfigObjects)
    /\ Sorted(ConfigObjects)
    /\ InitObject \in Objects /\ InitObject = Object(Common, 0)
    /\ InitObject.stream = Common /\ InitObject.n = 0
<1>1. NumConfigs \in Nat /\ Common \in Stream
    BY SenderAssumption DEF Stream, Common
<1>2. \A n \in 0 .. NumConfigs :
        /\ Object(Common, n) \in Objects
        /\ Object(Common, n).stream = Common
        /\ Object(Common, n).n = n
    BY <1>1 DEF Object, Objects
<1>3. /\ ConfigObjects \in Seq(Objects)
      /\ Len(ConfigObjects) = NumConfigs
      /\ \A i \in 1 .. NumConfigs : ConfigObjects[i] = Object(Common, i)
    BY <1>1, <1>2 DEF ConfigObjects
<1>4. \A i \in 1 .. NumConfigs : i \in 0 .. NumConfigs
    BY <1>1
<1>5. 0 \in 0 .. NumConfigs
    BY <1>1
<1>6. Sorted(ConfigObjects)
    BY <1>2, <1>3, <1>4 DEF Sorted
<1> QED
    BY <1>2, <1>3, <1>4, <1>5, <1>6 DEF Elems, InitObject

(***************************************************************************)
(* The control facts hold at the start.                                    *)
(***************************************************************************)
LEMMA InitControl ==
    ASSUME Init
    PROVE  TypeOK /\ SourceFacts /\ GateFacts /\ Owed
<1>1. NumFrames \in Nat \ {0} /\ NumSubpics \in Nat \ {0} /\ Size \in Nat \ {0}
      /\ MaxBudget \in Nat \ {0}
    BY SenderAssumption
<1>2. /\ 0 \in 0 .. NumFrames /\ 0 \in 0 .. NumSubpics /\ 0 \in 0 .. Size - 1
      /\ 0 \in 0 .. MaxBudget /\ 0 \in 0 .. NumFrames + 1
    BY <1>1
<1>3. wire \in [Stream -> Seq(Byte)] /\ queue \in Seq(Objects) /\ objs \in Seq(Objects)
      /\ jobs \in Seq(Frame \cup {None})
    BY DEF Init
<1>4. TypeOK
    BY <1>2, <1>3 DEF Init, TypeOK
<1> QED
    BY <1>1, <1>4 DEF Init, SourceFacts, GateFacts, Owed, Early, AtWork, JustPut

(***************************************************************************)
(* Every job is marked done once, whatever the worker makes of it.         *)
(***************************************************************************)
LEMMA JobsCounted ==
    ASSUME TypeOK, SourceFacts, Owed, [Next]_vars
    PROVE  Owed' /\ unfinished' \in 0 .. NumFrames + 1
<1>1. /\ NumFrames \in Nat /\ fid \in 0 .. NumFrames /\ Len(jobs) \in Nat
      /\ unfinished \in Nat /\ AtWork \in {0, 1} /\ JustPut \in {0, 1}
  <2>1. NumFrames \in Nat /\ fid \in 0 .. NumFrames /\ unfinished \in 0 .. NumFrames + 1
    BY SenderAssumption DEF TypeOK
  <2>2. AtWork \in {0, 1} /\ JustPut \in {0, 1}
    BY DEF AtWork, JustPut
  <2>3. Len(jobs) \in Nat
    BY JobFacts DEF TypeOK
  <2> QED
    BY <2>1, <2>2, <2>3
<1>2. ASSUME UNCHANGED features, fid' + JustPut' = fid + JustPut
      PROVE  Owed' /\ unfinished' \in 0 .. NumFrames + 1
  <2>1. AtWork' = AtWork /\ jobs' = jobs /\ unfinished' = unfinished
    BY <1>2 DEF features, AtWork
  <2>2. Len(jobs') = Len(jobs)
    BY <2>1
  <2>3. unfinished <= NumFrames + 1
    BY <1>1 DEF Owed
  <2> QED
    BY <1>1, <1>2, <2>1, <2>2, <2>3 DEF Owed
<1>3. ASSUME UNCHANGED source
      PROVE  fid' = fid /\ JustPut' = JustPut
    BY <1>3 DEF source, JustPut
<1>4. CASE ReleaseFrame
  <2> DEFINE S == Frame \cup {None}
  <2>1. fid \in S /\ jobs \in Seq(S)
    BY <1>1, <1>4 DEF ReleaseFrame, Frame, TypeOK
  <2> HIDE DEF S
  <2>2. Len(jobs') = Len(jobs) + 1
    BY <1>4, <2>1, JobFacts DEF ReleaseFrame
  <2>3. /\ fid < NumFrames /\ JustPut = 0 /\ JustPut' = 1 /\ AtWork' = AtWork
        /\ unfinished' = unfinished + 1 /\ fid' = fid
    BY <1>4 DEF ReleaseFrame, JustPut, AtWork
  <2> QED
    BY <1>1, <2>2, <2>3 DEF Owed
<1>5. CASE StopWorker
  <2> DEFINE S == Frame \cup {None}
  <2>1. None \in S /\ jobs \in Seq(S)
    BY DEF TypeOK
  <2> HIDE DEF S
  <2>2. Len(jobs') = Len(jobs) + 1
    BY <1>5, <2>1, JobFacts DEF StopWorker
  <2>3. /\ JustPut = 0 /\ JustPut' = 1 /\ AtWork' = AtWork
        /\ unfinished' = unfinished + 1 /\ fid' = fid
    BY <1>5 DEF StopWorker, building, JustPut, AtWork
  <2> QED
    BY <1>1, <2>2, <2>3 DEF Owed
<1>6. CASE WorkerLoop
  <2>1. AtWork = 0 /\ AtWork' = 0
    BY <1>6 DEF WorkerLoop, AtWork
  <2>2. /\ Len(jobs') = Len(jobs) /\ unfinished' = unfinished
        /\ fid' = fid /\ JustPut' = JustPut
    BY <1>3, <1>6 DEF WorkerLoop
  <2> QED
    BY <1>1, <2>1, <2>2 DEF Owed
<1>7. CASE WorkerGet
  <2>1. fid' = fid /\ JustPut' = JustPut /\ AtWork = 0
    BY <1>3, <1>7 DEF WorkerGet, AtWork
  <2>2. CASE jobs = <<>>
    <3>1. AtWork' = 0 /\ jobs' = jobs /\ unfinished' = unfinished
      BY <1>7, <2>2 DEF WorkerGet, AtWork
    <3>2. Len(jobs') = Len(jobs)
      BY <3>1
    <3> QED
      BY <1>1, <2>1, <3>1, <3>2 DEF Owed
  <2>3. CASE jobs # <<>>
    <3>1. Len(Tail(jobs)) = Len(jobs) - 1 /\ Len(jobs) > 0
      BY <2>3, JobFacts DEF TypeOK
    <3>2. /\ jobs' = Tail(jobs)
          /\ \/ unfinished' = unfinished - 1 /\ AtWork' = 0
             \/ unfinished' = unfinished /\ AtWork' = 1
      BY <1>7, <2>3 DEF WorkerGet, AtWork
    <3>3. Len(jobs') = Len(jobs) - 1
      BY <3>1, <3>2
    <3> QED
      BY <1>1, <2>1, <3>1, <3>2, <3>3 DEF Owed
  <2> QED
    BY <2>2, <2>3
<1>8. CASE WorkerDone
  <2>1. fid' = fid /\ JustPut' = JustPut /\ AtWork = 1 /\ AtWork' = 0
    BY <1>3, <1>8 DEF WorkerDone, AtWork
  <2>2. Len(jobs') = Len(jobs) /\ unfinished' = unfinished - 1
    BY <1>8 DEF WorkerDone
  <2> QED
    BY <1>1, <2>1, <2>2 DEF Owed
<1>9. CASE WorkerRaises
  <2>1. fid' = fid /\ JustPut' = JustPut /\ AtWork = 1 /\ AtWork' = 1
    BY <1>3, <1>9 DEF WorkerRaises, AtWork
  <2>2. Len(jobs') = Len(jobs) /\ unfinished' = unfinished
    BY <1>9 DEF WorkerRaises
  <2> QED
    BY <1>1, <2>1, <2>2 DEF Owed
<1>10. CASE PushFrame
  <2>1. UNCHANGED features /\ fid' = fid + 1 /\ JustPut = 1 /\ JustPut' = 0
    BY <1>10 DEF PushFrame, JustPut
  <2> QED
    BY <1>1, <1>2, <2>1
<1>11. ASSUME \/ PushInit \/ PushConfigs \/ QueueEmpty \/ BuildObject \/ FeaturesDone
              \/ FinishSender \/ JoinGate \/ CloseStream \/ SourceRaises
       PROVE  UNCHANGED features /\ fid' = fid /\ JustPut' = JustPut
    BY <1>11
       DEF PushInit, PushConfigs, QueueEmpty, BuildObject, FeaturesDone, FinishSender,
           JoinGate, CloseStream, SourceRaises, source, JustPut
<1>12. ASSUME Gate \/ LoseConnection \/ UNCHANGED vars
       PROVE  UNCHANGED features /\ UNCHANGED source
    BY <1>12
       DEF Gate, GateLoop, GatePop, GateBudget, GateNoBudget, GateSend, GateSendFails,
           LoseConnection, vars, features, source
<1> QED
    BY <1>2, <1>3, <1>4, <1>5, <1>6, <1>7, <1>8, <1>9, <1>10, <1>11, <1>12
       DEF Next, Source, Worker

(***************************************************************************)
(* How the source goes on: each step of the main thread.                   *)
(***************************************************************************)
LEMMA SourceControl ==
    ASSUME TypeOK, SourceFacts, GateFacts, Source \/ SourceRaises,
           {finished, noJobs, lost}' \subseteq BOOLEAN, unfinished' \in 0 .. NumFrames + 1
    PROVE  (TypeOK /\ SourceFacts /\ GateFacts)'
<1>1. NumFrames \in Nat \ {0} /\ NumSubpics \in Nat \ {0} /\ Size \in Nat \ {0}
    BY SenderAssumption
<1>2. CASE PushInit
    BY <1>1, <1>2, ConfigFacts
       DEF PushInit, building, sending, features,
           TypeOK, SourceFacts, GateFacts, Early
<1>3. CASE PushConfigs
  <2>1. queue' \in Seq(Objects)
    BY <1>3, ConfigFacts, ElemsCat DEF PushConfigs, Cat, TypeOK
  <2> QED
    BY <1>1, <1>3, <2>1
       DEF PushConfigs, building, sending, features,
           TypeOK, SourceFacts, GateFacts, Early
<1>4. CASE QueueEmpty
    BY <1>1, <1>4
       DEF QueueEmpty, building, sending, features,
           TypeOK, SourceFacts, GateFacts, Early
<1>5. CASE ReleaseFrame
  <2>1. fid \in Frame /\ fid \in Nat
    BY <1>1, <1>5 DEF ReleaseFrame, Frame, TypeOK
  <2>2. /\ jobs' \in Seq(Frame \cup {None}) /\ Len(jobs') = Len(jobs) + 1
        /\ Len(jobs) \in Nat
    BY <1>5, <2>1, JobFacts DEF ReleaseFrame, TypeOK
  <2> QED
    BY <1>1, <1>5, <2>1, <2>2
       DEF ReleaseFrame, building, sending,
           TypeOK, SourceFacts, GateFacts, Early
<1>6. CASE BuildObject
  <2>1. sid \in Stream /\ fid \in Nat /\ sid + 1 \in 0 .. NumSubpics
    BY <1>1, <1>6 DEF BuildObject, Stream, TypeOK
  <2>2. Object(sid, fid) \in Objects
    BY <2>1 DEF Object, Objects
  <2>3. objs' \in Seq(Objects)
    BY <1>6, <2>2 DEF BuildObject, TypeOK
  <2> QED
    BY <1>1, <1>6, <2>1, <2>3
       DEF BuildObject, sending, features,
           TypeOK, SourceFacts, GateFacts, Early
<1>7. CASE PushFrame
  <2>1. queue' \in Seq(Objects)
    BY <1>7, ElemsCat DEF PushFrame, Cat, TypeOK
  <2>2. fid + 1 \in 0 .. NumFrames /\ 0 \in 0 .. NumSubpics
    BY <1>1, <1>7 DEF PushFrame, TypeOK, SourceFacts
  <2>3. objs' \in Seq(Objects)
    BY <1>7 DEF PushFrame, TypeOK
  <2> QED
    BY <1>1, <1>7, <2>1, <2>2, <2>3
       DEF PushFrame, sending, features,
           TypeOK, SourceFacts, GateFacts, Early
<1>8. CASE FeaturesDone
    BY <1>1, <1>8
       DEF FeaturesDone, building, sending, features,
           TypeOK, SourceFacts, GateFacts, Early
<1>9. CASE StopWorker
  <2> DEFINE S == Frame \cup {None}
  <2>a. None \in S /\ jobs \in Seq(S)
    BY DEF TypeOK
  <2> HIDE DEF S
  <2>b. jobs' \in Seq(S) /\ Len(jobs') = Len(jobs) + 1 /\ Len(jobs) \in Nat
    BY <1>9, <2>a, JobFacts DEF StopWorker
  <2>1. /\ jobs' \in Seq(Frame \cup {None}) /\ Len(jobs') = Len(jobs) + 1
        /\ Len(jobs) \in Nat
    BY <2>b DEF S
  <2> QED
    BY <1>1, <1>9, <2>1
       DEF StopWorker, building, sending,
           TypeOK, SourceFacts, GateFacts, Early
<1>10. CASE FinishSender
    BY <1>1, <1>10
       DEF FinishSender, building, sending, features,
           TypeOK, SourceFacts, GateFacts, Early
<1>11. CASE JoinGate
    BY <1>1, <1>11
       DEF JoinGate, building, sending, features,
           TypeOK, SourceFacts, GateFacts, Early
<1>12. CASE CloseStream
    BY <1>1, <1>12
       DEF CloseStream, source, sending, features,
           TypeOK, SourceFacts, GateFacts, Early
<1>13. CASE SourceRaises
    BY <1>1, <1>13
       DEF SourceRaises, building, sending, features,
           TypeOK, SourceFacts, GateFacts, Early
<1> QED
    BY <1>2, <1>3, <1>4, <1>5, <1>6, <1>7, <1>8, <1>9, <1>10, <1>11, <1>12, <1>13
       DEF Source

(***************************************************************************)
(* How the gate, the feature worker and the connection go on.              *)
(***************************************************************************)
LEMMA GateControl ==
    ASSUME TypeOK, SourceFacts, GateFacts, Gate,
           {finished, noJobs, lost}' \subseteq BOOLEAN, unfinished' \in 0 .. NumFrames + 1
    PROVE  (TypeOK /\ SourceFacts /\ GateFacts)'
<1>1. NumFrames \in Nat \ {0} /\ Size \in Nat \ {0} /\ MaxBudget \in Nat \ {0}
      /\ None \notin Objects
    BY SenderAssumption
<1>2. CASE GateLoop
  <2>1. /\ gate' \in {"ended", "pop", "stats"}
        /\ gate' = "ended" => finished /\ queue = <<>> /\ active = None
        /\ gate' = "pop" => active = None
        /\ gate' = "stats" => active # None
        /\ finished' = finished /\ queue' = queue /\ active' = active
    BY <1>2, Zenon DEF GateLoop, source
  <2>2. GateFacts'
    BY <1>2, <2>1 DEF GateLoop, GateFacts
  <2>3. SourceFacts'
    <3>1. src' = src /\ fid' = fid /\ sid' = sid /\ objs' = objs /\ open' = open
      BY <1>2 DEF GateLoop, source
    <3>2. src # "close"
      BY <1>2 DEF GateLoop, SourceFacts
    <3>3. finished' => src' \in {"join gate", "close"}
      BY <2>1, <3>1, Zenon DEF SourceFacts
    <3> QED
      BY <3>1, <3>2, <3>3 DEF SourceFacts, Early
  <2>4. TypeOK'
    BY <1>2, <2>1 DEF GateLoop, source, features, TypeOK
  <2> QED
    BY <2>2, <2>3, <2>4
<1>3. CASE GatePop
  <2>1. CASE queue = <<>>
    BY <1>1, <1>3, <2>1
       DEF GatePop, source, features, TypeOK, SourceFacts, GateFacts, Early
  <2>2. CASE queue # <<>>
    <3>a. queue \in Seq(Objects)
      BY DEF TypeOK
    <3>b. Head(queue) \in Objects /\ Tail(queue) \in Seq(Objects)
      BY <2>2, <3>a, ElemsTail
    <3>c. 0 \in 0 .. Size - 1
      BY <1>1
    <3>1. Head(queue) \in Objects /\ Tail(queue) \in Seq(Objects) /\ 0 \in 0 .. Size - 1
      BY <3>b, <3>c
    <3> QED
      BY <1>1, <1>3, <2>2, <3>1
         DEF GatePop, source, features, TypeOK, SourceFacts, GateFacts, Early
  <2> QED
    BY <2>1, <2>2
<1>4. CASE GateBudget
  <2>1. budget' \in 0 .. MaxBudget /\ budget' > 0
    BY <1>1, <1>4 DEF GateBudget
  <2> QED
    BY <1>4, <2>1
       DEF GateBudget, source, features, TypeOK, SourceFacts, GateFacts, Early
<1>5. CASE GateNoBudget
    BY <1>1, <1>5
       DEF GateNoBudget, source, features, TypeOK, SourceFacts, GateFacts, Early
<1>6. CASE GateSend
  <2>1. /\ active \in Objects /\ ChunkLen \in Nat \ {0} /\ offset \in Nat
        /\ offset + ChunkLen <= Size
    BY <1>6, ChunkFacts DEF GateSend
  <2>2. Bytes(active, offset, ChunkLen) \in Seq(Byte)
    BY <1>1, <2>1, BytesFacts
  <2>a. wire \in [Stream -> Seq(Byte)] /\ active.stream \in Stream
    BY <2>1 DEF TypeOK, Objects
  <2> DEFINE b == Bytes(active, offset, ChunkLen)
             w == wire[active.stream] \o b
  <2>b. w \in Seq(Byte)
    BY <2>2, <2>a
  <2>c. wire' = [wire EXCEPT ![active.stream] = w]
    BY <1>6 DEF GateSend
  <2> HIDE DEF w
  <2>3. wire' \in [Stream -> Seq(Byte)]
    BY <2>a, <2>b, <2>c
  <2>4. 0 \in 0 .. Size - 1 /\ 0 \in 0 .. MaxBudget
    BY <1>1
  <2>5. CASE offset + ChunkLen = Size
    BY <1>6, <2>3, <2>4, <2>5
       DEF GateSend, source, features, TypeOK, SourceFacts, GateFacts, Early
  <2>6. CASE offset + ChunkLen # Size
    <3>1. offset + ChunkLen \in 0 .. Size - 1
      BY <1>1, <2>1, <2>6
    <3> QED
      BY <1>1, <1>6, <2>1, <2>3, <2>4, <2>6, <3>1
         DEF GateSend, source, features, TypeOK, SourceFacts, GateFacts, Early
  <2> QED
    BY <2>5, <2>6
<1>7. CASE GateSendFails
  <2>1. 0 \in 0 .. MaxBudget
    BY <1>1
  <2> QED
    BY <1>7, <2>1
       DEF GateSendFails, source, features, TypeOK, SourceFacts, GateFacts, Early
<1> QED
    BY <1>2, <1>3, <1>4, <1>5, <1>6, <1>7 DEF Gate

(***************************************************************************)
(* How the feature worker goes on, and the loss of the connection.         *)
(***************************************************************************)
LEMMA WorkerControl ==
    ASSUME TypeOK, SourceFacts, GateFacts, Worker \/ LoseConnection,
           {finished, noJobs, lost}' \subseteq BOOLEAN, unfinished' \in 0 .. NumFrames + 1
    PROVE  (TypeOK /\ SourceFacts /\ GateFacts)'
<1>1. NumFrames \in Nat \ {0}
    BY SenderAssumption
<1>2. CASE WorkerLoop
    BY <1>1, <1>2
       DEF WorkerLoop, source, sending,
           TypeOK, SourceFacts, GateFacts, Early
<1>3. CASE WorkerGet
  <2>1. CASE jobs = <<>>
    BY <1>1, <1>3, <2>1
       DEF WorkerGet, source, sending,
           TypeOK, SourceFacts, GateFacts, Early
  <2>2. CASE jobs # <<>>
    <3> DEFINE S == Frame \cup {None}
    <3>a. jobs \in Seq(S)
      BY DEF TypeOK
    <3> HIDE DEF S
    <3>b. /\ Tail(jobs) \in Seq(S) /\ Len(Tail(jobs)) = Len(jobs) - 1
          /\ Len(jobs) \in Nat /\ Len(jobs) > 0
      BY <2>2, <3>a, JobFacts
    <3>1. /\ Tail(jobs) \in Seq(Frame \cup {None}) /\ Len(Tail(jobs)) = Len(jobs) - 1
          /\ Len(jobs) \in Nat \ {0}
      BY <3>b DEF S
    <3>2. worker' \in {"extract", "ended"} /\ jobs' = Tail(jobs)
      BY <1>3, <2>2 DEF WorkerGet
    <3> QED
      BY <1>1, <1>3, <3>1, <3>2
         DEF WorkerGet, source, sending,
             TypeOK, SourceFacts, GateFacts, Early
  <2> QED
    BY <2>1, <2>2
<1>4. CASE WorkerDone
    BY <1>4
       DEF WorkerDone, source, sending,
           TypeOK, SourceFacts, GateFacts, Early
<1>5. CASE WorkerRaises
    BY <1>1, <1>5
       DEF WorkerRaises, source, sending,
           TypeOK, SourceFacts, GateFacts, Early
<1>6. CASE LoseConnection
  <2>1. /\ UNCHANGED <<src, fid, sid, objs, finished, queue, gate, active, offset, budget>>
        /\ UNCHANGED <<wire, jobs, worker, open>>
    BY <1>6 DEF LoseConnection, source, sending, features
  <2>2. TypeOK'
    BY <2>1 DEF TypeOK
  <2> QED
    BY <2>1, <2>2 DEF SourceFacts, GateFacts, Early
<1> QED
    BY <1>2, <1>3, <1>4, <1>5, <1>6 DEF Worker

-----------------------------------------------------------------------------
(* The way of the objects                                                   *)

(***************************************************************************)
(* Sub-pictures have streams of their own.                                 *)
(***************************************************************************)
LEMMA StreamFacts ==
    /\ NumSubpics \in Nat /\ NumFrames \in Nat /\ NumConfigs \in Nat
    /\ Common \in Stream
    /\ Subpic \subseteq Stream /\ Common \notin Subpic
    /\ \A s \in Stream : s \in Nat /\ (s # Common => s \in Subpic)
    /\ \A s \in Subpic : s # Common
    BY SenderAssumption DEF Stream, Subpic, Common

(***************************************************************************)
(* An object is told by its stream and number.                             *)
(***************************************************************************)
LEMMA ObjectFacts ==
    /\ \A s \in Stream, n \in Nat : /\ Object(s, n) \in Objects
                                    /\ Object(s, n).stream = s
                                    /\ Object(s, n).n = n
    /\ \A o \in Objects : /\ o = Object(o.stream, o.n)
                          /\ o.stream \in Stream
                          /\ o.n \in Nat
    BY DEF Object, Objects

(***************************************************************************)
(* The numbers that a stream is to carry.                                  *)
(***************************************************************************)
LEMMA NumberFacts ==
    /\ Numbers(Common) = 0 .. NumConfigs
    /\ \A s \in Subpic : Numbers(s) = {f \in Frame : <<f, s>> \in Sent}
    /\ \A s \in Stream : Numbers(s) \subseteq Nat
    BY StreamFacts DEF Numbers, Frame

(***************************************************************************)
(* At the start nothing waits and nothing is sent.                         *)
(***************************************************************************)
LEMMA InitPipe ==
    ASSUME Init
    PROVE  Pipe
<1>1. /\ src = "init" /\ fid = 0 /\ sid = 0 /\ active = None /\ offset = 0
      /\ Elems(queue) = {} /\ Elems(objs) = {} /\ queue = <<>> /\ objs = <<>>
      /\ \A s \in Stream : wire[s] = <<>>
    BY ElemsOfNone DEF Init
<1>2. \A s \in Stream : OnWire(s) = {}
    BY <1>1 DEF OnWire
<1>3. \A o \in Objects : ~Waits(o)
    BY <1>1, SenderAssumption DEF Waits
<1>4. /\ \A s \in Stream : \A n \in Numbers(s) : ~(n < 0)
      /\ \A s \in Subpic : ~(s < 0)
  <2>1. \A n \in Nat : ~(n < 0)
    OBVIOUS
  <2> QED
    BY <2>1, NumberFacts, StreamFacts
<1>5. \A s \in Stream : Pushed(s) = 0
    BY <1>1 DEF Pushed
<1>6. Known
    BY <1>1, <1>2, <1>3 DEF Known
<1>7. Ordered
    BY <1>1 DEF Ordered, Sorted
<1>8. Covered
    BY <1>1, <1>4, <1>5 DEF Covered
<1>9. Ends
    BY <1>1, <1>2 DEF Ends, Begun
<1>10. NoControlLater /\ ControlGone
    BY <1>1 DEF NoControlLater, ControlGone
<1>11. WireInOrder
    BY <1>1 DEF WireInOrder
<1> QED
    BY <1>6, <1>7, <1>8, <1>9, <1>10, <1>11 DEF Pipe

(***************************************************************************)
(* A step that leaves the objects where they are keeps all of this.        *)
(***************************************************************************)
LEMMA QuietStep ==
    ASSUME Pipe, UNCHANGED way,
           \/ src' = src
           \/ ~Early /\ ~Early'
           \/ src = "wait queue" /\ src' = "release" /\ queue = <<>>
    PROVE  Pipe'
<1>1. /\ fid' = fid /\ sid' = sid /\ objs' = objs /\ queue' = queue
      /\ active' = active /\ offset' = offset /\ wire' = wire
    BY DEF way
<1>2. Known'
    BY <1>1 DEF Pipe, Known, Waits, OnWire, Pushed, Early
<1>3. Ordered'
    BY <1>1 DEF Pipe, Ordered
<1>4. Covered'
    BY <1>1 DEF Pipe, Covered, Waits, OnWire, Pushed, Early
<1>5. Ends'
    BY <1>1 DEF Pipe, Ends, Begun, LastByte, Waits, OnWire
<1>6. NoControlLater'
    BY <1>1, ElemsOfNone DEF Pipe, NoControlLater, Early
<1>7. ControlGone'
    BY <1>1 DEF Pipe, ControlGone
<1>8. WireInOrder'
    BY <1>1 DEF Pipe, WireInOrder
<1> QED
    BY <1>2, <1>3, <1>4, <1>5, <1>6, <1>7, <1>8 DEF Pipe

(***************************************************************************)
(* Nothing is on a stream exactly if no number is, and its last byte is of *)
(* a number that is on it.                                                 *)
(***************************************************************************)
LEMMA WireFacts ==
    ASSUME TypeOK, NEW s \in Stream
    PROVE  /\ wire[s] = <<>> <=> OnWire(s) = {}
           /\ wire[s] # <<>> => LastByte(s).n \in OnWire(s)
           /\ OnWire(s) \subseteq Nat
<1> DEFINE w == wire[s]
<1>1. w \in Seq(Byte)
    BY DEF TypeOK
<1>2. OnWire(s) = {w[i].n : i \in 1 .. Len(w)} /\ LastByte(s) = w[Len(w)]
    BY DEF OnWire, LastByte
<1> HIDE DEF w
<1>3. Len(w) \in Nat /\ (w # <<>> => Len(w) \in 1 .. Len(w))
    BY <1>1
<1>4. w = <<>> => 1 .. Len(w) = {}
    OBVIOUS
<1>5. \A i \in 1 .. Len(w) : w[i] \in Byte
    BY <1>1
<1>6. \A i \in 1 .. Len(w) : w[i].n \in Nat
    BY <1>5 DEF Byte
<1>7. /\ w = <<>> <=> OnWire(s) = {}
      /\ w # <<>> => LastByte(s).n \in OnWire(s)
      /\ OnWire(s) \subseteq Nat
    BY <1>2, <1>3, <1>4, <1>6
<1> QED
    BY <1>7 DEF w

(***************************************************************************)
(* Before the first frame only control objects wait, or have been sent.    *)
(***************************************************************************)
LEMMA EarlyFacts ==
    ASSUME TypeOK, SourceFacts, Known, Early
    PROVE  /\ fid = 0
           /\ \A o \in Objects : Waits(o) => o.stream = Common
           /\ \A s \in Subpic : OnWire(s) = {} /\ wire[s] = <<>>
<1>1. fid = 0
    BY DEF SourceFacts
<1>2. \A n \in Nat : ~(n < 0)
    OBVIOUS
<1>3. \A s \in Subpic : s \in Stream /\ Pushed(s) = 0
    BY <1>1, StreamFacts DEF Pushed
<1>4. ASSUME NEW o \in Objects, Waits(o) PROVE o.stream = Common
  <2>1. o.n \in Nat /\ o.stream \in Stream /\ o.n < Pushed(o.stream)
    BY <1>4, ObjectFacts DEF Known
  <2> QED
    BY <1>2, <1>3, <2>1, StreamFacts
<1>5. ASSUME NEW s \in Subpic PROVE OnWire(s) = {} /\ wire[s] = <<>>
  <2>1. \A n \in OnWire(s) : n \in Nat /\ n < 0
    BY <1>3, WireFacts DEF Known
  <2>2. OnWire(s) = {}
    BY <1>2, <2>1
  <2> QED
    BY <1>3, <2>2, WireFacts
<1> QED
    BY <1>1, <1>4, <1>5

(***************************************************************************)
(* INIT is the first object of all.                                        *)
(***************************************************************************)
LEMMA PushInitStep ==
    ASSUME TypeOK, SourceFacts, Pipe, PushInit
    PROVE  Pipe'
<1>1. /\ src = "init" /\ src' = "configs" /\ Early /\ Early'
      /\ queue' = Append(queue, InitObject) /\ queue \in Seq(Objects)
      /\ fid' = fid /\ sid' = sid /\ objs' = objs
      /\ active' = active /\ offset' = offset /\ wire' = wire
    BY DEF PushInit, building, sending, TypeOK, Early
<1>2. fid = 0 /\ \A s \in Stream : Pushed(s) = 0
    BY <1>1 DEF SourceFacts, Pushed
<1>3. \A n \in Nat : ~(n < 0)
    OBVIOUS
<1>4. \A o \in Objects : ~Waits(o)
    BY <1>2, <1>3, ObjectFacts DEF Pipe, Known
<1>5. \A s \in Stream : OnWire(s) = {} /\ wire[s] = <<>>
    BY <1>2, <1>3, WireFacts DEF Pipe, Known
<1>6. Elems(queue) = {} /\ active = None
    BY <1>1, <1>4, ElemsTyped DEF Waits, TypeOK
<1>7. Elems(queue') = {InitObject} /\ Sorted(queue')
    BY <1>1, <1>6, ConfigFacts, ElemsAppend, SortedAppend DEF Pipe, Ordered
<1>8. \A s \in Stream : Pushed(s)' = IF s = Common THEN 1 ELSE 0
    BY <1>1, <1>2 DEF Pushed
<1>9. \A s \in Stream : OnWire(s)' = {}
    BY <1>1, <1>5 DEF OnWire
<1>10. \A o : Waits(o)' <=> o = InitObject \/ o = None
    BY <1>1, <1>6, <1>7 DEF Waits
<1>11. InitObject.n \in Numbers(Common)
    BY ConfigFacts, NumberFacts, StreamFacts
<1>12. Known'
    BY <1>1, <1>8, <1>9, <1>10, <1>11, ConfigFacts, StreamFacts, SenderAssumption
       DEF Pipe, Known
<1>13. Ordered'
    BY <1>1, <1>6, <1>7 DEF Pipe, Ordered
<1>14. Covered'
  <2>1. \A n \in Nat : n < 1 => n = 0
    OBVIOUS
  <2>2. \A s \in Stream : \A n \in Numbers(s) : n < Pushed(s)' => s = Common /\ n = 0
    BY <1>3, <1>8, <2>1, NumberFacts
  <2>3. Waits(Object(Common, 0))'
    BY <1>10, ConfigFacts
  <2> QED
    BY <1>1, <2>2, <2>3 DEF Pipe, Covered
<1>15. Ends'
    BY <1>1, <1>5, <1>6, <1>9 DEF Ends, Begun
<1>16. NoControlLater' /\ ControlGone'
    BY <1>1, <1>6 DEF NoControlLater, ControlGone
<1>17. WireInOrder'
    BY <1>1 DEF Pipe, WireInOrder
<1> QED
    BY <1>12, <1>13, <1>14, <1>15, <1>16, <1>17 DEF Pipe

(***************************************************************************)
(* The CONFIGs come behind INIT, wherever the gate has it.                 *)
(***************************************************************************)
LEMMA PushConfigsStep ==
    ASSUME TypeOK, SourceFacts, Pipe, PushConfigs
    PROVE  Pipe'
<1> DEFINE New == Elems(ConfigObjects)
<1>1. /\ src = "configs" /\ src' = "wait queue" /\ Early /\ Early'
      /\ queue' = Cat(queue, ConfigObjects) /\ queue \in Seq(Objects)
      /\ fid' = fid /\ sid' = sid /\ objs' = objs
      /\ active' = active /\ offset' = offset /\ wire' = wire
    BY DEF PushConfigs, building, sending, TypeOK, Early, Cat
<1>2. /\ Elems(queue') = Elems(queue) \cup New
      /\ New \subseteq Objects /\ Elems(queue) \subseteq Objects
    BY <1>1, ConfigFacts, ElemsCat, ElemsTyped
<1>3. \A o \in New : o.stream = Common /\ o.n \in 1 .. NumConfigs
    BY ConfigFacts
<1> HIDE DEF New
<1>4. /\ \A o \in Objects : Waits(o) => o.stream = Common /\ o.n = 0
      /\ \A s \in Subpic : OnWire(s) = {} /\ wire[s] = <<>>
      /\ \A n \in OnWire(Common) : n = 0
  <2>1. Pushed(Common) = 1
    BY <1>1, StreamFacts DEF Pushed
  <2>2. \A n \in Nat : n < 1 => n = 0
    OBVIOUS
  <2>3. \A o \in Objects : Waits(o) => o.stream = Common /\ o.n < 1 /\ o.n \in Nat
    <3>1. \A o \in Objects : Waits(o) => o.stream = Common
      BY <1>1, EarlyFacts DEF Pipe
    <3>2. \A o \in Objects : Waits(o) => o.n < Pushed(o.stream) /\ o.n \in Nat
      BY ObjectFacts DEF Pipe, Known
    <3> QED
      BY <2>1, <3>1, <3>2
  <2>4. \A n \in OnWire(Common) : n < 1 /\ n \in Nat
    BY <2>1, StreamFacts, WireFacts DEF Pipe, Known
  <2> QED
    BY <1>1, <2>2, <2>3, <2>4, EarlyFacts DEF Pipe
<1>5. /\ \A s \in Stream : Pushed(s)' = IF s = Common THEN NumConfigs + 1 ELSE 0
      /\ \A s \in Stream : Pushed(s) = IF s = Common THEN 1 ELSE 0
    BY <1>1 DEF Pushed, SourceFacts
<1>6. \A o : Waits(o)' <=> Waits(o) \/ o \in New
    BY <1>1, <1>2 DEF Waits
<1>7. \A s \in Stream : OnWire(s)' = OnWire(s)
    BY <1>1 DEF OnWire
<1>8. /\ \A n \in 1 .. NumConfigs : 0 < n /\ n < NumConfigs + 1 /\ n \in 0 .. NumConfigs
      /\ 0 < NumConfigs + 1
    BY StreamFacts
<1>9. Known'
  <2>1. \A o \in Objects : Waits(o)' => o.n \in Numbers(o.stream) /\ o.n < Pushed(o.stream)'
    BY <1>3, <1>4, <1>5, <1>6, <1>8, NumberFacts, StreamFacts DEF Pipe, Known
  <2>2. \A s \in Stream : \A n \in OnWire(s)' : n < Pushed(s)' /\ n \in Numbers(s)
    BY <1>4, <1>5, <1>7, <1>8, StreamFacts DEF Pipe, Known
  <2> QED
    BY <1>1, <2>1, <2>2 DEF Pipe, Known
<1>10. Ordered'
  <2>1. \A x \in Elems(queue), y \in New : x.n < y.n
    BY <1>2, <1>3, <1>4, <1>8 DEF Waits
  <2>2. Sorted(queue')
    BY <1>1, <2>1, ConfigFacts, SortedCat DEF Pipe, Ordered, New
  <2>3. active # None => \A y \in New : active.n < y.n
    BY <1>3, <1>4, <1>8 DEF Waits, TypeOK
  <2> QED
    BY <1>1, <1>2, <2>2, <2>3 DEF Pipe, Ordered
<1>11. Covered'
  <2>1. ASSUME NEW s \in Stream, NEW n \in Numbers(s), n < Pushed(s)'
        PROVE  n \in OnWire(s)' \/ Waits(Object(s, n))'
    <3>1. s = Common /\ n \in 0 .. NumConfigs
      BY <1>5, <2>1, NumberFacts, StreamFacts
    <3>2. CASE n = 0
      BY <1>5, <1>6, <1>7, <3>1, <3>2 DEF Pipe, Covered
    <3>3. CASE n # 0
      <4>1. n \in 1 .. NumConfigs
        BY <3>1, <3>3, StreamFacts
      <4> QED
        BY <1>6, <3>1, <4>1, ConfigFacts DEF New
    <3> QED
      BY <3>2, <3>3
  <2> QED
    BY <1>1, <2>1 DEF Pipe, Covered
<1>12. Ends'
  <2>1. ASSUME NEW s \in Stream, wire[s] # <<>>, NEW o \in New, o.stream = s
        PROVE  LastByte(s).n < o.n
    BY <1>3, <1>4, <1>8, <2>1, WireFacts
  <2>2. \A s \in Stream : (Begun(s)' <=> Begun(s)) /\ LastByte(s)' = LastByte(s)
    BY <1>1 DEF Begun, LastByte
  <2> QED
    BY <1>1, <1>2, <1>6, <1>7, <2>1, <2>2 DEF Pipe, Ends
<1>13. NoControlLater' /\ ControlGone'
    BY <1>1 DEF Pipe, NoControlLater, ControlGone
<1>14. WireInOrder'
    BY <1>1 DEF Pipe, WireInOrder
<1> QED
    BY <1>9, <1>10, <1>11, <1>12, <1>13, <1>14 DEF Pipe

(***************************************************************************)
(* build_frame_objects goes through the sub-pictures in their order.       *)
(***************************************************************************)
LEMMA BuildObjectStep ==
    ASSUME TypeOK, SourceFacts, Pipe, BuildObject
    PROVE  Pipe'
<1> DEFINE new == Object(sid, fid)
<1>1. /\ src = "build" /\ src' = src /\ objs \in Seq(Objects)
      /\ fid' = fid /\ sid' = sid + 1 /\ queue' = queue
      /\ active' = active /\ offset' = offset /\ wire' = wire
      /\ open = Stream
    BY DEF BuildObject, source, sending, TypeOK, SourceFacts
<1>2. sid \in Subpic /\ sid \in Stream /\ fid \in Frame /\ fid \in Nat
    BY <1>1, StreamFacts DEF BuildObject, TypeOK, SourceFacts, Subpic, Stream, Frame
<1>3. fid \in Numbers(sid) <=> <<fid, sid>> \in Sent
    BY <1>2, NumberFacts
<1>4. new \in Objects /\ new.stream = sid /\ new.n = fid
    BY <1>2, ObjectFacts
<1>5. objs' = IF fid \in Numbers(sid) THEN Append(objs, new) ELSE objs
    BY <1>1, <1>2, <1>3 DEF BuildObject
<1> HIDE DEF new
<1>6. Elems(objs') = IF fid \in Numbers(sid) THEN Elems(objs) \cup {new} ELSE Elems(objs)
    BY <1>1, <1>4, <1>5, ElemsAppend
<1>7. \A o \in Elems(objs) : o.stream \in Nat /\ o.stream < sid
    BY <1>1, ElemsTyped, ObjectFacts, StreamFacts DEF Pipe, Known
<1>8. /\ \A s \in Nat : s < sid => s < sid + 1 /\ s # sid
      /\ \A s \in Nat : s < sid + 1 => s < sid \/ s = sid
      /\ sid < sid + 1
    BY <1>2, StreamFacts
<1>9. Sorted(objs')
    BY <1>1, <1>4, <1>5, <1>7, <1>8, SortedAppend DEF Pipe, Ordered
<1>10. Known'
  <2>1. \A o \in Elems(objs') : /\ o.stream \in Subpic /\ o.stream < sid + 1
                                /\ o.n = fid /\ fid \in Numbers(o.stream)
    BY <1>2, <1>4, <1>6, <1>7, <1>8 DEF Pipe, Known
  <2> QED
    BY <1>1, <2>1 DEF Pipe, Known, Waits, OnWire, Pushed
<1>11. Ordered'
    BY <1>1, <1>9 DEF Pipe, Ordered
<1>12. Covered'
  <2>1. \A s \in Subpic : s \in Nat
    BY StreamFacts
  <2>2. ASSUME NEW s \in Subpic, s < sid + 1, fid \in Numbers(s)
        PROVE  Object(s, fid) \in Elems(objs')
    BY <1>6, <1>8, <2>1, <2>2 DEF Pipe, Covered, new
  <2> QED
    BY <1>1, <2>2 DEF Pipe, Covered, Waits, OnWire, Pushed
<1>13. Ends'
    BY <1>1 DEF Pipe, Ends, Begun, LastByte, Waits, OnWire
<1>14. NoControlLater' /\ ControlGone'
    BY <1>1 DEF Pipe, NoControlLater, ControlGone, Early
<1>15. WireInOrder'
    BY <1>1 DEF Pipe, WireInOrder
<1> QED
    BY <1>10, <1>11, <1>12, <1>13, <1>14, <1>15 DEF Pipe

(***************************************************************************)
(* The objects of a frame come behind those of all frames before.          *)
(***************************************************************************)
LEMMA PushFrameStep ==
    ASSUME TypeOK, SourceFacts, Pipe, PushFrame
    PROVE  Pipe'
<1>1. /\ src = "build" /\ src' = "release" /\ sid = NumSubpics
      /\ queue' = Cat(queue, objs) /\ queue \in Seq(Objects) /\ objs \in Seq(Objects)
      /\ fid' = fid + 1 /\ fid \in Nat /\ sid' = 0 /\ objs' = <<>>
      /\ active' = active /\ offset' = offset /\ wire' = wire
      /\ ~Early /\ ~Early'
    BY StreamFacts DEF PushFrame, sending, TypeOK, Early, Cat
<1>2. /\ Elems(queue') = Elems(queue) \cup Elems(objs) /\ Elems(objs') = {}
      /\ Elems(objs) \subseteq Objects /\ Elems(queue) \subseteq Objects
    BY <1>1, ElemsCat, ElemsTyped, ElemsOfNone
<1>3. /\ \A s \in Stream : Pushed(s) = IF s = Common THEN NumConfigs + 1 ELSE fid
      /\ \A s \in Stream : Pushed(s)' = IF s = Common THEN NumConfigs + 1 ELSE fid + 1
    BY <1>1 DEF Pushed
<1>4. \A o : Waits(o)' <=> Waits(o) \/ o \in Elems(objs)
    BY <1>1, <1>2 DEF Waits
<1>5. \A s \in Stream : OnWire(s)' = OnWire(s) /\ OnWire(s) \subseteq Nat
    BY <1>1, WireFacts DEF OnWire
<1>6. \A o \in Elems(objs) : /\ o.stream \in Subpic /\ o.stream # Common
                             /\ o.n = fid /\ fid \in Numbers(o.stream)
    BY StreamFacts DEF Pipe, Known
<1>7. /\ \A n \in Nat : n < fid => n < fid + 1
      /\ \A n \in Nat : n < fid + 1 => n < fid \/ n = fid
      /\ fid < fid + 1
    BY <1>1
<1>8. Known'
  <2>1. \A o \in Objects : Waits(o)' => o.n \in Numbers(o.stream) /\ o.n < Pushed(o.stream)'
    BY <1>3, <1>4, <1>6, <1>7, ObjectFacts DEF Pipe, Known
  <2>2. \A s \in Stream : \A n \in OnWire(s)' : n < Pushed(s)' /\ n \in Numbers(s)
    BY <1>3, <1>5, <1>7 DEF Pipe, Known
  <2> QED
    BY <1>1, <1>2, <2>1, <2>2 DEF Known
<1>9. Ordered'
  <2>1. \A x \in Objects, y \in Elems(objs) :
            Waits(x) /\ x.stream = y.stream => x.n < y.n
    BY <1>3, <1>6, ObjectFacts DEF Pipe, Known
  <2>2. Sorted(queue')
    BY <1>1, <1>2, <2>1, SortedCat DEF Pipe, Ordered, Waits
  <2>3. active # None => \A y \in Elems(objs) : y.stream = active.stream => active.n < y.n
    BY <2>1 DEF Waits, TypeOK
  <2>4. Sorted(objs')
    BY <1>1 DEF Sorted
  <2> QED
    BY <1>1, <1>2, <2>2, <2>3, <2>4 DEF Pipe, Ordered
<1>10. Covered'
  <2>1. ASSUME NEW s \in Stream, NEW n \in Numbers(s), n < Pushed(s)'
        PROVE  n \in OnWire(s) \/ Waits(Object(s, n)) \/ Object(s, n) \in Elems(objs)
    <3>1. CASE n < Pushed(s)
      BY <3>1 DEF Pipe, Covered
    <3>2. CASE ~(n < Pushed(s))
      <4>1. s \in Subpic /\ n = fid
        BY <1>3, <1>7, <2>1, <3>2, NumberFacts, StreamFacts
      <4>2. s < sid
        BY <1>1, <4>1, StreamFacts DEF Subpic
      <4> QED
        BY <4>1, <4>2 DEF Pipe, Covered
    <3> QED
      BY <3>1, <3>2
  <2>2. \A s \in Subpic : ~(s < 0)
    BY StreamFacts DEF Subpic
  <2> QED
    BY <1>1, <1>4, <1>5, <2>1, <2>2 DEF Covered
<1>11. Ends'
  <2>1. ASSUME NEW s \in Stream, wire[s] # <<>>, NEW o \in Elems(objs), o.stream = s
        PROVE  LastByte(s).n < o.n
    BY <1>3, <1>6, <2>1, WireFacts DEF Pipe, Known
  <2>2. \A s \in Stream : (Begun(s)' <=> Begun(s)) /\ LastByte(s)' = LastByte(s)
    BY <1>1 DEF Begun, LastByte
  <2> QED
    BY <1>1, <1>2, <1>4, <1>5, <2>1, <2>2 DEF Pipe, Ends
<1>12. NoControlLater' /\ ControlGone'
    BY <1>1, <1>2, <1>6 DEF Pipe, NoControlLater, ControlGone
<1>13. WireInOrder'
    BY <1>1 DEF Pipe, WireInOrder
<1> QED
    BY <1>8, <1>9, <1>10, <1>11, <1>12, <1>13 DEF Pipe

(***************************************************************************)
(* The gate takes the object in front.                                     *)
(***************************************************************************)
LEMMA GatePopStep ==
    ASSUME TypeOK, SourceFacts, GateFacts, Pipe, GatePop
    PROVE  Pipe'
<1>1. /\ gate = "pop" /\ active = None /\ offset = 0 /\ queue \in Seq(Objects)
      /\ src' = src /\ fid' = fid /\ sid' = sid /\ objs' = objs /\ wire' = wire
    BY DEF GatePop, source, GateFacts, TypeOK
<1>2. CASE queue = <<>>
  <2>1. queue' = queue /\ active' = active /\ offset' = offset
    BY <1>2 DEF GatePop
  <2> QED
    BY <1>1, <2>1, QuietStep DEF way
<1>3. CASE queue # <<>>
  <2>1. active' = Head(queue) /\ queue' = Tail(queue) /\ offset' = 0
    BY <1>3 DEF GatePop
  <2>2. /\ active' \in Objects /\ Elems(queue) = Elems(queue') \cup {active'}
        /\ Elems(queue) \subseteq Objects
    BY <1>1, <1>3, <2>1, ElemsTail, ElemsTyped
  <2>3. \A o \in Objects : Waits(o)' <=> Waits(o)
    BY <1>1, <2>2, SenderAssumption DEF Waits
  <2>4. \A s \in Stream : OnWire(s)' = OnWire(s) /\ LastByte(s)' = LastByte(s)
    BY <1>1 DEF OnWire, LastByte
  <2>5. \A s \in Stream : Pushed(s)' = Pushed(s)
    BY <1>1 DEF Pushed
  <2>6. \A s \in Stream : ~Begun(s) /\ ~Begun(s)'
    BY <1>1, <2>1 DEF Begun
  <2>7. Known'
    BY <1>1, <2>3, <2>4, <2>5, ObjectFacts DEF Pipe, Known
  <2>8. Ordered'
    BY <1>1, <1>3, <2>1, SortedTail DEF Pipe, Ordered
  <2>9. Covered'
    BY <1>1, <2>3, <2>4, <2>5, NumberFacts, ObjectFacts DEF Pipe, Covered
  <2>10. Ends'
    BY <1>1, <2>3, <2>4, <2>6 DEF Pipe, Ends
  <2>11. NoControlLater'
    BY <1>1, <2>2 DEF Pipe, NoControlLater, Early
  <2>12. ControlGone'
    <3>1. ASSUME NEW s \in Subpic, wire[s] # <<>> PROVE ~Early
      BY <3>1, EarlyFacts DEF Pipe
    <3> QED
      BY <1>1, <2>2, <3>1 DEF Pipe, ControlGone, NoControlLater
  <2>13. WireInOrder'
    BY <1>1 DEF Pipe, WireInOrder
  <2> QED
    BY <2>7, <2>8, <2>9, <2>10, <2>11, <2>12, <2>13 DEF Pipe
<1> QED
    BY <1>2, <1>3

(***************************************************************************)
(* Bytes in order stay in order when others follow that continue them.     *)
(***************************************************************************)
InOrder(s, w) ==
    /\ \A i \in DOMAIN w : w[i].n \in Numbers(s)
    /\ w # <<>> => FirstByte(s, w[1])
    /\ \A i \in 1 .. Len(w) - 1 : Follows(s, w[i], w[i + 1])

LEMMA InOrderCat ==
    ASSUME NEW s \in Stream, NEW w \in Seq(Byte), NEW b \in Seq(Byte),
           NEW r, r = w \o b,
           InOrder(s, w), Len(b) > 0,
           \A i \in 1 .. Len(b) : b[i].n \in Numbers(s),
           \A i \in 1 .. Len(b) - 1 : Follows(s, b[i], b[i + 1]),
           w = <<>> => FirstByte(s, b[1]),
           w # <<>> => Follows(s, w[Len(w)], b[1])
    PROVE  InOrder(s, r)
<1>1. /\ Len(w) \in Nat /\ Len(b) \in Nat /\ Len(r) = Len(w) + Len(b)
      /\ DOMAIN r = 1 .. Len(r) /\ DOMAIN w = 1 .. Len(w)
      /\ \A i \in 1 .. Len(w) : r[i] = w[i]
      /\ \A i \in 1 .. Len(r) : i > Len(w) => r[i] = b[i - Len(w)]
    OBVIOUS
<1>2. w = <<>> <=> Len(w) = 0
    OBVIOUS
<1>3. \A i \in 1 .. Len(r) : /\ i \in 1 .. Len(w) \/ i > Len(w)
                             /\ i > Len(w) => i - Len(w) \in 1 .. Len(b)
    BY <1>1
<1>4. \A i \in DOMAIN r : r[i].n \in Numbers(s)
    BY <1>1, <1>3 DEF InOrder
<1>5. FirstByte(s, r[1])
  <2>1. 1 \in 1 .. Len(r)
    BY <1>1
  <2>2. CASE w = <<>>
    <3>1. 1 > Len(w) /\ 1 - Len(w) = 1
      BY <1>2, <2>2
    <3>2. r[1] = b[1]
      BY <1>1, <2>1, <3>1
    <3> QED
      BY <2>2, <3>2
  <2>3. CASE w # <<>>
    <3>1. 1 \in 1 .. Len(w)
      BY <1>1, <1>2, <2>3
    <3> QED
      BY <1>1, <2>3, <3>1 DEF InOrder
  <2> QED
    BY <2>2, <2>3
<1>6. ASSUME NEW i \in 1 .. Len(r) - 1
      PROVE  Follows(s, r[i], r[i + 1])
  <2>1. CASE i + 1 <= Len(w)
    <3>1. i \in 1 .. Len(w) /\ i + 1 \in 1 .. Len(w) /\ i \in 1 .. Len(w) - 1
      BY <1>1, <2>1
    <3>2. r[i] = w[i] /\ r[i + 1] = w[i + 1]
      BY <1>1, <3>1
    <3> QED
      BY <3>1, <3>2 DEF InOrder
  <2>2. CASE i = Len(w)
    <3>1. /\ i \in 1 .. Len(w) /\ i + 1 \in 1 .. Len(r) /\ i + 1 > Len(w)
          /\ (i + 1) - Len(w) = 1 /\ Len(w) # 0
      BY <1>1, <2>2
    <3>2. r[i] = w[Len(w)] /\ r[i + 1] = b[1] /\ w # <<>>
      BY <1>1, <1>2, <2>2, <3>1
    <3> QED
      BY <3>2
  <2>3. CASE i > Len(w)
    <3>1. /\ i \in 1 .. Len(r) /\ i + 1 \in 1 .. Len(r) /\ i + 1 > Len(w)
          /\ (i + 1) - Len(w) = (i - Len(w)) + 1
          /\ i - Len(w) \in 1 .. Len(b) - 1
      BY <1>1, <2>3
    <3>2. r[i] = b[i - Len(w)] /\ r[i + 1] = b[(i - Len(w)) + 1]
      BY <1>1, <2>3, <3>1
    <3> QED
      BY <3>1, <3>2
  <2> QED
    <3>1. i + 1 <= Len(w) \/ i = Len(w) \/ i > Len(w)
      BY <1>1
    <3> QED
      BY <2>1, <2>2, <2>3, <3>1
<1> QED
    BY <1>4, <1>5, <1>6 DEF InOrder

(***************************************************************************)
(* A chunk continues its stream where the last one of it has ended.        *)
(***************************************************************************)
LEMMA GateSendStep ==
    ASSUME TypeOK, GateFacts, Pipe, GateSend
    PROVE  Pipe'
<1>0. active \in Objects /\ active.stream \in Stream
    BY ChunkFacts, ObjectFacts DEF GateSend
<1>s. PICK s \in Stream : s = active.stream
    BY <1>0
<1> DEFINE k == ChunkLen
           b == Bytes(active, offset, k)
           w == wire[s]
           v == w \o b
<1>1. /\ active \in Objects /\ active # None /\ s \in Stream /\ active.n \in Nat
      /\ k \in Nat \ {0} /\ offset \in Nat /\ Size \in Nat /\ offset + k <= Size
    BY <1>s, ChunkFacts, ObjectFacts, SenderAssumption DEF GateSend
<1>2. /\ b \in Seq(Byte) /\ Len(b) = k
      /\ \A i \in 1 .. k : b[i].n = active.n /\ b[i].at = offset + i - 1
  <2> DEFINE B == Bytes(active, offset, k)
  <2>1. k \in Nat
    BY <1>1
  <2>2. /\ B \in Seq(Byte) /\ Len(B) = k
        /\ \A i \in 1 .. k : B[i].n = active.n /\ B[i].at = offset + i - 1
    BY <1>1, <2>1, BytesFacts
  <2> QED
    BY <2>2
<1>3. /\ wire' = [wire EXCEPT ![s] = v]
      /\ src' = src /\ fid' = fid /\ sid' = sid /\ objs' = objs /\ queue' = queue
      /\ \/ offset + k = Size /\ active' = None /\ offset' = 0
         \/ offset + k # Size /\ active' = active /\ offset' = offset + k
    BY <1>s DEF GateSend, source
<1>4. wire \in [Stream -> Seq(Byte)] /\ w \in Seq(Byte)
    BY <1>1 DEF TypeOK
<1> HIDE DEF k, b
<1> HIDE DEF w
<1>5. /\ v \in Seq(Byte) /\ Len(v) = Len(w) + k /\ Len(w) \in Nat
      /\ \A i \in 1 .. Len(w) : v[i] = w[i]
      /\ \A i \in 1 .. Len(v) : i > Len(w) => v[i] = b[i - Len(w)]
  <2>1. b \in Seq(Byte) /\ w \in Seq(Byte) /\ Len(b) = k
    BY <1>2, <1>4
  <2>2. /\ v \in Seq(Byte) /\ Len(v) = Len(w) + Len(b) /\ Len(w) \in Nat
        /\ \A i \in 1 .. Len(w) : v[i] = w[i]
        /\ \A i \in 1 .. Len(v) : i > Len(w) => v[i] = b[i - Len(w)]
    BY <2>1
  <2> QED
    BY <2>1, <2>2
<1> HIDE DEF v
<1>6. wire'[s] = v /\ \A r \in Stream \ {s} : wire'[r] = wire[r]
    BY <1>1, <1>3, <1>4
<1>7. /\ v[Len(v)].n = active.n /\ v[Len(v)].at = offset + k - 1
      /\ v # <<>> /\ v[Len(v)] \in Byte
  <2>1. Len(v) \in 1 .. Len(v) /\ Len(v) > Len(w) /\ Len(v) - Len(w) = k /\ k \in 1 .. k
    BY <1>1, <1>5
  <2>2. v[Len(v)] = b[k]
    BY <1>5, <2>1
  <2>3. v # <<>>
    BY <2>1
  <2>4. v[Len(v)] \in Byte
    BY <1>5, <2>1
  <2> QED
    BY <1>2, <2>1, <2>2, <2>3, <2>4
<1>8. OnWire(s)' = OnWire(s) \cup {active.n}
  <2>1. OnWire(s)' = {v[i].n : i \in 1 .. Len(v)}
    BY <1>6 DEF OnWire
  <2>2. OnWire(s) = {w[i].n : i \in 1 .. Len(w)}
    BY DEF OnWire, w
  <2>3. ASSUME NEW i \in 1 .. Len(v) PROVE v[i].n \in OnWire(s) \cup {active.n}
    <3>1. CASE i \in 1 .. Len(w)
      BY <1>5, <2>2, <3>1
    <3>2. CASE i > Len(w)
      <4>1. i - Len(w) \in 1 .. k
        BY <1>1, <1>5, <3>2
      <4> QED
        BY <1>2, <1>5, <3>2, <4>1
    <3> QED
      BY <1>5, <3>1, <3>2
  <2>4. ASSUME NEW i \in 1 .. Len(w) PROVE w[i].n \in OnWire(s)'
    <3>1. i \in 1 .. Len(v)
      BY <1>1, <1>5
    <3> QED
      BY <1>5, <2>1, <3>1
  <2>5. active.n \in OnWire(s)'
    <3>1. Len(v) \in 1 .. Len(v)
      BY <1>1, <1>5
    <3> QED
      BY <1>7, <2>1, <3>1
  <2> QED
    BY <2>1, <2>2, <2>3, <2>4, <2>5
<1>9. LastByte(s)' = [n |-> active.n, at |-> offset + k - 1]
  <2>1. LastByte(s)' = v[Len(v)]
    BY <1>6 DEF LastByte
  <2> QED
    BY <1>7, <2>1 DEF Byte
<1>10. \A r \in Stream \ {s} : OnWire(r)' = OnWire(r) /\ LastByte(r)' = LastByte(r)
    BY <1>6 DEF OnWire, LastByte
<1>11. Waits(active) /\ \A o \in Objects : Waits(o)' => Waits(o)
    BY <1>3, SenderAssumption DEF Waits
<1>12. \A r \in Stream : Pushed(r)' = Pushed(r)
    BY <1>3 DEF Pushed
<1>13. active.n \in Numbers(s) /\ active.n < Pushed(s)
    BY <1>s, <1>1, <1>11 DEF Pipe, Known
<1>14. Known'
    BY <1>3, <1>8, <1>10, <1>11, <1>12, <1>13, ObjectFacts DEF Pipe, Known
<1>15. Ordered'
    BY <1>3 DEF Pipe, Ordered
<1>16. Covered'
  <2>1. ASSUME NEW r \in Stream, NEW n \in Numbers(r), Waits(Object(r, n))
        PROVE  n \in OnWire(r)' \/ Waits(Object(r, n))'
    <3>1. n \in Nat
      BY NumberFacts
    <3>2. CASE Object(r, n) = active
      BY <1>s, <1>8, <3>1, <3>2, ObjectFacts
    <3>3. CASE Object(r, n) # active
      BY <1>3, <2>1, <3>3 DEF Waits
    <3> QED
      BY <3>2, <3>3
  <2>2. \A r \in Stream : OnWire(r) \subseteq OnWire(r)'
    BY <1>8, <1>10
  <2> QED
    BY <1>3, <1>12, <2>1, <2>2 DEF Pipe, Covered
<1>17. \A n \in OnWire(s) : n <= active.n
  <2>1. \A n \in OnWire(s) : n <= LastByte(s).n /\ n \in Nat /\ wire[s] # <<>>
    BY <1>1, WireFacts DEF Pipe, Ends
  <2>2. CASE Begun(s)
    <3>1. LastByte(s).n = active.n
      BY <1>1, <2>2 DEF Pipe, Ends
    <3> QED
      BY <2>1, <3>1
  <2>3. CASE ~Begun(s)
    <3>1. wire[s] # <<>> => LastByte(s).n < active.n /\ LastByte(s).n \in Nat
      BY <1>s, <1>1, <1>11, <2>3, WireFacts DEF Pipe, Ends
    <3>2. \A n, m \in Nat : n <= m /\ m < active.n => n <= active.n
      BY <1>1
    <3> QED
      BY <2>1, <3>1, <3>2
  <2> QED
    BY <2>2, <2>3
<1>18. Ends'
  <2>1. ASSUME NEW r \in Stream \ {s}
        PROVE  ~Begun(r) /\ ~Begun(r)'
    BY <1>s, <1>3, <2>1 DEF Begun
  <2>2. \A n \in OnWire(s)' : n <= active.n
    BY <1>1, <1>8, <1>17
  <2>3. CASE offset + k = Size
    <3>1. active' = None /\ offset' = 0 /\ ~Begun(s)' /\ offset + k - 1 = Size - 1
      BY <1>1, <1>3, <2>3 DEF Begun
    <3>2. \A o \in Objects : Waits(o)' /\ o.stream = s => active.n < o.n
      BY <1>s, <1>1, <1>3, <3>1, SenderAssumption DEF Pipe, Ordered, Waits
    <3> QED
      BY <1>6, <1>7, <1>9, <1>10, <1>11, <2>1, <2>2, <3>1, <3>2 DEF Pipe, Ends
  <2>4. CASE offset + k # Size
    <3>1. active' = active /\ offset' = offset + k /\ offset' > 0
      BY <1>1, <1>3, <2>4
    <3>2. Begun(s)'
      BY <1>s, <1>1, <3>1 DEF Begun
    <3>3. LastByte(s)' = [n |-> active'.n, at |-> offset' - 1]
      <4>1. offset + k - 1 = offset' - 1
        BY <1>1, <3>1
      <4> QED
        BY <1>9, <3>1, <4>1
    <3>4. wire'[s] # <<>> /\ LastByte(s)'.n = active.n
      BY <1>6, <1>7, <1>9
    <3> QED
      BY <1>10, <1>6, <1>11, <2>1, <2>2, <3>2, <3>3, <3>4 DEF Pipe, Ends
  <2> QED
    BY <2>3, <2>4
<1>19. NoControlLater'
    BY <1>3 DEF Pipe, NoControlLater, Early
<1>20. ControlGone'
    BY <1>s, <1>1, <1>3, <1>6, StreamFacts DEF Pipe, ControlGone
<1>21. InOrder(s, v)
  <2>1. InOrder(s, w)
    BY <1>1 DEF Pipe, WireInOrder, InOrder, w
  <2>2. \A i \in 1 .. Len(b) : b[i].n \in Numbers(s)
    BY <1>2, <1>13
  <2>3. ASSUME NEW i \in 1 .. Len(b) - 1 PROVE Follows(s, b[i], b[i + 1])
    <3>1. /\ i \in 1 .. k /\ i + 1 \in 1 .. k
          /\ offset + i - 1 < Size - 1 /\ offset + (i + 1) - 1 = (offset + i - 1) + 1
      BY <1>1, <1>2
    <3>2. /\ b[i].n = active.n /\ b[i + 1].n = active.n
          /\ b[i].at < Size - 1 /\ b[i + 1].at = b[i].at + 1
      BY <1>2, <3>1
    <3> QED
      BY <3>2 DEF Follows
  <2>4. b[1].n = active.n /\ b[1].at = offset
    <3>1. 1 \in 1 .. k /\ offset + 1 - 1 = offset
      BY <1>1
    <3> QED
      BY <1>2, <3>1
  <2>5. \A n \in Numbers(s) : n \in OnWire(s) \/ active.n <= n
    <3> SUFFICES ASSUME NEW n \in Numbers(s), n \notin OnWire(s)
                 PROVE  active.n <= n
      OBVIOUS
    <3>1. n \in Nat
      BY <1>1, NumberFacts
    <3>2. CASE n < Pushed(s)
      <4>1. Waits(Object(s, n))
        BY <1>1, <3>2 DEF Pipe, Covered
      <4>2. CASE Object(s, n) = active
        BY <1>1, <3>1, <4>2, ObjectFacts
      <4>3. CASE Object(s, n) \in Elems(queue)
        <5>1. active.n < n
          BY <1>s, <1>1, <3>1, <4>3, ObjectFacts DEF Pipe, Ordered
        <5> QED
          BY <1>1, <3>1, <5>1
      <4> QED
        BY <4>1, <4>2, <4>3 DEF Waits
    <3>3. CASE ~(n < Pushed(s))
      <4>1. Pushed(s) \in Nat
        <5>1. fid \in Nat /\ NumConfigs + 1 \in Nat /\ 0 \in Nat /\ 1 \in Nat
          <6>1. fid \in 0 .. NumFrames
            BY DEF TypeOK
          <6> QED
            BY <6>1, StreamFacts
        <5> QED
          BY <5>1 DEF Pushed
      <4> QED
        BY <1>1, <1>13, <3>1, <3>3, <4>1
    <3> QED
      BY <3>2, <3>3
  <2>6. w = <<>> => FirstByte(s, b[1])
    <3> SUFFICES ASSUME w = <<>> PROVE FirstByte(s, b[1])
      OBVIOUS
    <3>1. OnWire(s) = {}
      BY <1>1, WireFacts DEF w
    <3>2. ~Begun(s)
      BY <1>1 DEF Pipe, Ends, w
    <3>3. offset = 0
      BY <1>s, <1>1, <3>2 DEF Begun
    <3> QED
      BY <2>4, <2>5, <3>1, <3>3 DEF FirstByte
  <2>7. w # <<>> => Follows(s, w[Len(w)], b[1])
    <3> SUFFICES ASSUME w # <<>> PROVE Follows(s, w[Len(w)], b[1])
      OBVIOUS
    <3>1. w[Len(w)] = LastByte(s) /\ wire[s] # <<>> /\ LastByte(s).n \in Nat
      BY <1>1, WireFacts DEF LastByte, w
    <3>2. CASE Begun(s)
      <4>1. LastByte(s).n = active.n /\ LastByte(s).at = offset - 1
        BY <1>1, <3>2 DEF Pipe, Ends
      <4>2. offset - 1 < Size - 1 /\ offset = (offset - 1) + 1
        BY <1>1
      <4> QED
        BY <2>4, <3>1, <4>1, <4>2 DEF Follows
    <3>3. CASE ~Begun(s)
      <4>1. offset = 0
        BY <1>s, <1>1, <3>3 DEF Begun
      <4>2. LastByte(s).at = Size - 1 /\ LastByte(s).n < active.n
        BY <1>s, <1>1, <1>11, <3>1, <3>3 DEF Pipe, Ends
      <4>3. \A n \in OnWire(s) : n <= LastByte(s).n /\ n \in Nat
        BY <1>1, WireFacts DEF Pipe, Ends
      <4>4. ASSUME NEW n \in Numbers(s), LastByte(s).n < n, n < active.n
            PROVE  FALSE
        <5>1. n \in Nat
          BY <1>1, NumberFacts
        <5>2. n \notin OnWire(s)
          BY <3>1, <4>3, <4>4, <5>1
        <5>3. active.n <= n
          BY <2>5, <5>2
        <5> QED
          BY <1>1, <4>4, <5>1, <5>3
      <4>5. ~(Size - 1 < Size - 1)
        BY <1>1
      <4> QED
        BY <2>4, <3>1, <4>1, <4>2, <4>4, <4>5 DEF Follows
    <3> QED
      BY <3>2, <3>3
  <2>8. Len(b) > 0
    BY <1>1, <1>2
  <2>9. v = w \o b
    BY DEF v
  <2> QED
    BY <1>1, <1>2, <1>4, <2>1, <2>2, <2>3, <2>6, <2>7, <2>8, <2>9, InOrderCat DEF w
<1>22. WireInOrder'
    BY <1>6, <1>21 DEF Pipe, WireInOrder, InOrder
<1> QED
    BY <1>14, <1>15, <1>16, <1>18, <1>19, <1>20, <1>22 DEF Pipe

-----------------------------------------------------------------------------
(* The theorems                                                             *)

(***************************************************************************)
(* The inductive invariant holds at the start.                             *)
(***************************************************************************)
LEMMA InitIInv == Init => IInv
    BY InitControl, InitPipe DEF IInv

(***************************************************************************)
(* Each step keeps the control facts.                                      *)
(***************************************************************************)
LEMMA ControlStep ==
    ASSUME IInv, [Next]_vars
    PROVE  (TypeOK /\ SourceFacts /\ GateFacts /\ Owed)'
<1>1. {finished, noJobs, lost}' \subseteq BOOLEAN
    BY FlagsKeep DEF IInv, TypeOK
<1>2. Owed' /\ unfinished' \in 0 .. NumFrames + 1
    BY JobsCounted DEF IInv
<1>3. CASE Source \/ SourceRaises
    BY <1>1, <1>2, <1>3, SourceControl DEF IInv
<1>4. CASE Gate
    BY <1>1, <1>2, <1>4, GateControl DEF IInv
<1>5. CASE Worker \/ LoseConnection
    BY <1>1, <1>2, <1>5, WorkerControl DEF IInv
<1>6. CASE UNCHANGED vars
  <2>1. /\ UNCHANGED <<src, fid, sid, objs, finished, noJobs, lost, queue, gate, active>>
        /\ UNCHANGED <<offset, budget, wire, jobs, unfinished, worker, open>>
    BY <1>6 DEF vars
  <2>2. TypeOK'
    BY <2>1 DEF IInv, TypeOK
  <2> QED
    BY <1>2, <2>1, <2>2 DEF IInv, SourceFacts, GateFacts, Early
<1> QED
    BY <1>3, <1>4, <1>5, <1>6 DEF Next

(***************************************************************************)
(* Each step keeps the order of the objects.                               *)
(***************************************************************************)
LEMMA PipeStep ==
    ASSUME IInv, [Next]_vars
    PROVE  Pipe'
<1>1. TypeOK /\ SourceFacts /\ GateFacts /\ Pipe
    BY DEF IInv
<1>2. CASE PushInit
    BY <1>1, <1>2, PushInitStep
<1>3. CASE PushConfigs
    BY <1>1, <1>3, PushConfigsStep
<1>4. CASE BuildObject
    BY <1>1, <1>4, BuildObjectStep
<1>5. CASE PushFrame
    BY <1>1, <1>5, PushFrameStep
<1>6. CASE GatePop
    BY <1>1, <1>6, GatePopStep
<1>7. CASE GateSend
    BY <1>1, <1>7, GateSendStep
<1>8. CASE QueueEmpty
  <2>1. UNCHANGED way /\ src = "wait queue" /\ src' = "release" /\ queue = <<>>
    BY <1>8 DEF QueueEmpty, building, sending, way
  <2> QED
    BY <1>1, <2>1, QuietStep
<1>9. CASE ReleaseFrame \/ FeaturesDone \/ StopWorker \/ FinishSender \/ JoinGate
           \/ SourceRaises
  <2>1. UNCHANGED way /\ ~Early /\ ~Early'
    BY <1>9 DEF ReleaseFrame, FeaturesDone, StopWorker, FinishSender, JoinGate,
                SourceRaises, building, sending, way, Early
  <2> QED
    BY <1>1, <2>1, QuietStep
<1>10. CASE \/ CloseStream \/ GateLoop \/ GateBudget \/ GateNoBudget \/ GateSendFails
            \/ Worker \/ LoseConnection \/ UNCHANGED vars
  <2>1. UNCHANGED way /\ src' = src
    BY <1>10
       DEF CloseStream, GateLoop, GateBudget, GateNoBudget, GateSendFails, Worker,
           WorkerLoop, WorkerGet, WorkerDone, WorkerRaises, LoseConnection, vars,
           source, sending, way
  <2> QED
    BY <1>1, <2>1, QuietStep
<1> QED
    BY <1>2, <1>3, <1>4, <1>5, <1>6, <1>7, <1>8, <1>9, <1>10 DEF Next, Source, Gate

(***************************************************************************)
(* Each step keeps the inductive invariant.                                *)
(***************************************************************************)
LEMMA NextIInv == IInv /\ [Next]_vars => IInv'
    BY ControlStep, PipeStep DEF IInv

(***************************************************************************)
(* It holds in every reachable state.                                      *)
(***************************************************************************)
LEMMA Invariance == Spec => []IInv
<1>1. Init => IInv
    BY InitIInv
<1>2. IInv /\ [Next]_vars => IInv'
    BY NextIInv
<1> QED
    BY <1>1, <1>2, PTL DEF Spec

(***************************************************************************)
(* When all objects of a stream have been pushed, and none waits, the      *)
(* stream is whole.                                                        *)
(***************************************************************************)
LEMMA NothingLeft ==
    ASSUME TypeOK, Pipe, NEW s \in Stream,
           \A n \in Numbers(s) : n < Pushed(s),
           \A o \in Objects : Waits(o) => o.stream # s
    PROVE  Whole(s)
<1>1. Numbers(s) \subseteq OnWire(s)
    BY NumberFacts, ObjectFacts DEF Pipe, Covered
<1>2. ~Begun(s)
    BY DEF Begun, Waits, TypeOK
<1>3. CASE wire[s] = <<>>
    BY <1>1, <1>3, WireFacts DEF Whole
<1>4. CASE wire[s] # <<>>
    BY <1>1, <1>2, <1>4 DEF Pipe, Ends, Whole
<1> QED
    BY <1>3, <1>4

(***************************************************************************)
(* Once the source waits no more, all control objects have been pushed.    *)
(***************************************************************************)
LEMMA AllControlPushed ==
    ASSUME ~Early
    PROVE  \A n \in Numbers(Common) : n < Pushed(Common)
<1>1. Pushed(Common) = NumConfigs + 1
    BY StreamFacts DEF Pushed, Early
<1>2. \A n \in 0 .. NumConfigs : n < NumConfigs + 1
    BY StreamFacts
<1> QED
    BY <1>1, <1>2, NumberFacts

(***************************************************************************)
(* TypeOK holds, for every number of sub-pictures and frames and every     *)
(* window.  That unfinished never goes below zero is why task_done never   *)
(* raises.                                                                 *)
(***************************************************************************)
THEOREM SenderTypeCorrect == Spec => []TypeOK
<1>1. IInv => TypeOK
    BY DEF IInv
<1> QED
    BY <1>1, Invariance, PTL

(***************************************************************************)
(* A stream gets the bytes of its objects in order, none missing and none  *)
(* twice, however send_chunk cuts, refuses and retries them: WireInOrder.  *)
(***************************************************************************)
THEOREM StreamsInOrder == Spec => []WireInOrder
<1>1. IInv => WireInOrder
    BY DEF IInv, Pipe
<1> QED
    BY <1>1, Invariance, PTL

(***************************************************************************)
(* INIT and the CONFIGs have been given to QUIC, whole, before any byte of *)
(* a sub-picture, although the source goes on while the last of them is    *)
(* still at the gate: ControlFirst.                                        *)
(***************************************************************************)
THEOREM ControlGoesFirst == Spec => []ControlFirst
<1>1. IInv => ControlFirst
  <2> SUFFICES ASSUME IInv, NEW s \in Subpic, wire[s] # <<>>
               PROVE  Whole(Common)
    BY DEF ControlFirst
  <2>1. TypeOK /\ SourceFacts /\ Pipe
    BY DEF IInv
  <2>2. ~Early
    BY <2>1, EarlyFacts DEF Pipe
  <2>3. \A o \in Objects : Waits(o) => o.stream # Common
    BY <2>1, <2>2, SenderAssumption DEF Pipe, NoControlLater, ControlGone, Waits
  <2> QED
    BY <2>1, <2>2, <2>3, StreamFacts, AllControlPushed, NothingLeft
<1> QED
    BY <1>1, Invariance, PTL

(***************************************************************************)
(* process_video closes a stream only when all its objects have been sent, *)
(* unless the source has raised an exception: ClosedStreamsAreWhole.       *)
(***************************************************************************)
THEOREM ClosedStreamsSentAll == Spec => []ClosedStreamsAreWhole
<1>1. IInv => ClosedStreamsAreWhole
  <2> SUFFICES ASSUME IInv, src = "close", NEW s \in Stream
               PROVE  Whole(s)
    BY DEF ClosedStreamsAreWhole
  <2>1. TypeOK /\ SourceFacts /\ GateFacts /\ Pipe /\ ~Early
    BY DEF IInv, Early
  <2>2. fid = NumFrames /\ queue = <<>> /\ active = None
    BY <2>1 DEF SourceFacts, GateFacts
  <2>3. \A o \in Objects : ~Waits(o)
    BY <2>2, ElemsOfNone, SenderAssumption DEF Waits
  <2>4. \A n \in Numbers(s) : n < Pushed(s)
    <3>1. CASE s = Common
      BY <2>1, <3>1, AllControlPushed
    <3>2. CASE s # Common
      <4>1. Pushed(s) = NumFrames /\ Numbers(s) \subseteq Frame
        BY <2>2, <3>2, StreamFacts, NumberFacts DEF Pushed
      <4>2. \A n \in Frame : n < NumFrames
        BY StreamFacts DEF Frame
      <4> QED
        BY <4>1, <4>2
    <3> QED
      BY <3>1, <3>2
  <2> QED
    BY <2>1, <2>3, <2>4, NothingLeft
<1> QED
    BY <1>1, Invariance, PTL
=============================================================================
