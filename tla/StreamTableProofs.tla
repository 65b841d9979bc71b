------------------------- MODULE StreamTableProofs -------------------------
(***************************************************************************)
(* Proofs about StreamTable, for any set of handles, any set of threads    *)
(* and any number of configured streams.                                   *)
(***************************************************************************)
EXTENDS StreamTable, TLAPS

(***************************************************************************)
(* What the local variable of a call in progress denotes: a handle that    *)
(* open_stream obtained is not started before StreamStart, and MsQuic has  *)
(* not returned it to anybody else since.                                  *)
(***************************************************************************)
CallsHoldHandles ==
    \A t \in Thread :
        /\ pc[t] = "start" => held[t] \in Handle /\ quic[held[t]] = "opened"
        /\ pc[t] = "register" =>
              /\ held[t] \in Handle
              /\ quic[held[t]] \in {"starting", "started", "failed", "ended"}
        /\ pc[t] = "abort" => held[t] \in Handle

\* The inductive invariant.
IInv == /\ TypeOK
        /\ OneOwner
        /\ TablesHoldOpenHandles
        /\ ClosesOnlyFinished
        /\ CallsHoldHandles

(***************************************************************************)
(* The initial state: no handle has been obtained, and no stream is open.  *)
(***************************************************************************)
LEMMA InitIInv == Init => IInv
<1> SUFFICES ASSUME Init PROVE IInv
    OBVIOUS
<1>1. DOMAIN streams = {} /\ Tables = {}
    BY DEF Init, Tables, Range
<1>2. TypeOK
  <2>1. streams \in [DOMAIN streams -> Handle]
    BY <1>1 DEF Init
  <2>2. connected \in BOOLEAN /\ ready \in BOOLEAN
    BY Zenon DEF Init
  <2> QED
    BY <1>1, <2>1, <2>2, TableAssumption DEF Init, TypeOK, QuicState
<1>3. OneOwner
    BY <1>1 DEF Init, OneOwner, Opening, Tables, Range
<1>4. TablesHoldOpenHandles /\ ClosesOnlyFinished /\ CallsHoldHandles
    BY <1>1 DEF Init, TablesHoldOpenHandles, ClosesOnlyFinished, CallsHoldHandles
<1> QED
    BY <1>2, <1>3, <1>4 DEF IInv

(***************************************************************************)
(* Every action preserves the invariant.                                   *)
(***************************************************************************)
LEMMA NextIInv == IInv /\ [Next]_vars => IInv'
<1> SUFFICES ASSUME IInv, [Next]_vars PROVE IInv'
    OBVIOUS
<1> USE TableAssumption DEF IInv
<1>1. ASSUME PreOpen PROVE IInv'
    BY <1>1
       DEF PreOpen, SetQuic, Insert,
           TypeOK, OneOwner, TablesHoldOpenHandles, ClosesOnlyFinished,
           CallsHoldHandles, Opening, Tables, Range, QuicState
<1>2. ASSUME NEW t \in Thread, OpenStream(t) PROVE IInv'
    BY <1>2
       DEF OpenStream, SetQuic,
           TypeOK, OneOwner, TablesHoldOpenHandles, ClosesOnlyFinished,
           CallsHoldHandles, Opening, Tables, Range, QuicState
<1>3. ASSUME NEW t \in Thread, StartStream(t) PROVE IInv'
    BY <1>3
       DEF StartStream, SetQuic,
           TypeOK, OneOwner, TablesHoldOpenHandles, ClosesOnlyFinished,
           CallsHoldHandles, Opening, Tables, Range, QuicState
<1>4. ASSUME NEW t \in Thread, Register(t) PROVE IInv'
  <2>1. DOMAIN streams' = DOMAIN streams \cup {nextId} /\ nextId \notin DOMAIN streams
    BY <1>4 DEF Register, Insert, TypeOK
  <2>2. Tables' = Tables \cup {held[t]} /\ held[t] \in Handle /\ held[t] \notin Tables
    BY <1>4, <2>1 DEF Register, Insert, Tables, Range, CallsHoldHandles, OneOwner, Opening
  <2>3. TypeOK'
    <3>1. streams' \in [DOMAIN streams' -> Handle]
      BY <1>4, <2>1, <2>2 DEF Register, Insert, TypeOK
    <3>2. DOMAIN streams' \subseteq 1 .. nextId' - 1 /\ nextId' \in Nat \ {0}
      BY <1>4, <2>1 DEF Register, TypeOK
    <3>3. pc' \in [Thread -> {"idle", "start", "register", "abort"}]
      BY <1>4 DEF Register, TypeOK
    <3>4. held' \in [Thread -> Handle \cup {None}]
      BY <1>4 DEF Register, TypeOK
    <3> QED
      BY <1>4, <3>1, <3>2, <3>3, <3>4 DEF Register, TypeOK
  <2>4. OneOwner'
    <3>1. held[t] \notin Tables \cup {victim}
      BY <1>4, <2>2 DEF Register, OneOwner, Opening
    <3>2. \A i, j \in DOMAIN streams' : streams'[i] = streams'[j] => i = j
      BY <1>4, <2>1, <3>1 DEF Register, Insert, OneOwner, Tables, Range
    <3>3. Range(streams') \cap closing' = {}
      BY <1>4, <2>1, <3>1 DEF Register, Insert, OneOwner, Tables, Range
    <3>4. victim' \notin Tables'
      BY <1>4, <2>2, <3>1 DEF Register, OneOwner
    <3>5. ASSUME NEW u \in Thread, NEW h \in Handle, Opening(u, h)'
          PROVE  h # held[t] /\ Opening(u, h)
      BY <1>4, <2>2, <3>5 DEF Register, OneOwner, Opening, TypeOK
    <3> QED
      BY <1>4, <2>2, <3>2, <3>3, <3>4, <3>5 DEF Register, OneOwner
  <2>5. TablesHoldOpenHandles'
    BY <1>4, <2>2 DEF Register, TablesHoldOpenHandles, CallsHoldHandles
  <2>6. ClosesOnlyFinished' /\ CallsHoldHandles'
    BY <1>4 DEF Register, ClosesOnlyFinished, CallsHoldHandles, TypeOK
  <2> QED
    BY <2>3, <2>4, <2>5, <2>6
<1>5. ASSUME NEW t \in Thread, NEW i \in DOMAIN streams, CloseStream(t, i) PROVE IInv'
    BY <1>5
       DEF CloseStream, Erase, Restrict,
           TypeOK, OneOwner, TablesHoldOpenHandles, ClosesOnlyFinished,
           CallsHoldHandles, Opening, Tables, Range, QuicState
<1>6. ASSUME NEW t \in Thread, NEW i \in DOMAIN streams, DropStream(t, i) PROVE IInv'
    BY <1>6
       DEF DropStream, Callable, Erase, Restrict,
           TypeOK, OneOwner, TablesHoldOpenHandles, ClosesOnlyFinished,
           CallsHoldHandles, Opening, Tables, Range, QuicState
<1>7. ASSUME NEW t \in Thread, AbortStream(t) PROVE IInv'
    BY <1>7
       DEF AbortStream,
           TypeOK, OneOwner, TablesHoldOpenHandles, ClosesOnlyFinished,
           CallsHoldHandles, Opening, Tables, Range, QuicState
<1>8. ASSUME NEW h \in Handle, StartComplete(h) PROVE IInv'
    BY <1>8
       DEF StartComplete, SetQuic,
           TypeOK, OneOwner, TablesHoldOpenHandles, ClosesOnlyFinished,
           CallsHoldHandles, Opening, Tables, Range, QuicState
<1>9. ASSUME NEW h \in Handle, StartFailed(h) PROVE IInv'
    BY <1>9
       DEF StartFailed, SetQuic, EraseHandle, Restrict,
           WorkerIdle,
           TypeOK, OneOwner, TablesHoldOpenHandles, ClosesOnlyFinished,
           CallsHoldHandles, Opening, Tables, Range, QuicState
<1>10. ASSUME NEW h \in Handle, ShutdownComplete(h) PROVE IInv'
    BY <1>10
       DEF ShutdownComplete, SetQuic, EraseHandle, Restrict,
           WorkerIdle,
           TypeOK, OneOwner, TablesHoldOpenHandles, ClosesOnlyFinished,
           CallsHoldHandles, Opening, Tables, Range, QuicState
<1>11. ASSUME CloseVictim PROVE IInv'
    BY <1>11
       DEF CloseVictim, SetQuic,
           TypeOK, OneOwner, TablesHoldOpenHandles, ClosesOnlyFinished,
           CallsHoldHandles, Opening, Tables, Range, QuicState
<1>12. ASSUME LoseLink PROVE IInv'
    BY <1>12
       DEF LoseLink,
           TypeOK, OneOwner, TablesHoldOpenHandles, ClosesOnlyFinished,
           CallsHoldHandles, Opening, Tables, Range, QuicState
<1>13. ASSUME ConnectionShutdownComplete PROVE IInv'
  <2>1. connected' \in BOOLEAN
    BY <1>13, Zenon DEF ConnectionShutdownComplete
  <2> QED
    BY <1>13, <2>1
       DEF ConnectionShutdownComplete,
           TypeOK, OneOwner, TablesHoldOpenHandles, ClosesOnlyFinished,
           CallsHoldHandles, Opening, Tables, Range, QuicState
<1>14. ASSUME UNCHANGED vars PROVE IInv'
    BY <1>14
       DEF vars,
           TypeOK, OneOwner, TablesHoldOpenHandles, ClosesOnlyFinished,
           CallsHoldHandles, Opening, Tables, Range, QuicState
<1> QED
    BY <1>1, <1>2, <1>3, <1>4, <1>5, <1>6, <1>7, <1>8,
       <1>9, <1>10, <1>11, <1>12, <1>13, <1>14
       DEF Next, Worker, CallStep

LEMMA Invariance == Spec => []IInv
<1> QED
    BY InitIInv, NextIInv, PTL DEF Spec

(***************************************************************************)
(* The variables keep their types; in particular every id in streams_ is   *)
(* one that next_stream_id_ has passed.                                    *)
(***************************************************************************)
THEOREM TypeCorrect == Spec => []TypeOK
<1>1. IInv => TypeOK
    BY DEF IInv
<1> QED
    BY <1>1, Invariance, PTL

(***************************************************************************)
(* However open_stream, close_stream, drop_stream and the callbacks        *)
(* interleave, no handle has two owners.                                   *)
(***************************************************************************)
THEOREM SingleOwnership == Spec => []OneOwner
<1>1. IInv => OneOwner
    BY DEF IInv
<1> QED
    BY <1>1, Invariance, PTL

(***************************************************************************)
(* send, close_stream and set_stream_priority never find a handle that     *)
(* StreamClose has been called on.                                         *)
(***************************************************************************)
THEOREM NoFreedHandleInTables == Spec => []TablesHoldOpenHandles
<1>1. IInv => TablesHoldOpenHandles
    BY DEF IInv
<1> QED
    BY <1>1, Invariance, PTL

(***************************************************************************)
(* A callback calls StreamClose on handles MsQuic has finished with, once. *)
(***************************************************************************)
THEOREM CallbacksCloseFinished == Spec => []ClosesOnlyFinished
<1>1. IInv => ClosesOnlyFinished
    BY DEF IInv
<1> QED
    BY <1>1, Invariance, PTL

-----------------------------------------------------------------------------
(* Stream ids                                                              *)

\* What IdsNeverRebound says of one step.
IdsKept == \A i \in DOMAIN streams' : IF i \in DOMAIN streams
                                        THEN streams'[i] = streams[i]
                                        ELSE i >= nextId /\ i < nextId'

LEMMA NextKeepsIds == IInv /\ [Next]_vars => [IdsKept]_vars
<1> SUFFICES ASSUME IInv, Next PROVE IdsKept
    BY DEF vars
<1> USE DEF IInv
<1>1. ASSUME \E h : Insert(nextId, h), nextId' = nextId + 1 PROVE IdsKept
    BY <1>1 DEF Insert, IdsKept, TypeOK
<1>2. ASSUME NEW S, streams' = Restrict(streams, S), S \subseteq DOMAIN streams
      PROVE  IdsKept
    BY <1>2 DEF Restrict, IdsKept
<1>3. ASSUME UNCHANGED streams PROVE IdsKept
    BY <1>3 DEF IdsKept
<1>4. CASE PreOpen
    BY <1>4, <1>1, <1>3 DEF PreOpen
<1>5. ASSUME NEW t \in Thread, CallStep(t) PROVE IdsKept
    BY <1>5, <1>1, <1>3 DEF CallStep, StartStream, Register, AbortStream
<1>6. ASSUME NEW t \in Thread, OpenStream(t) PROVE IdsKept
    BY <1>6, <1>3 DEF OpenStream
<1>7. ASSUME NEW t \in Thread, NEW i \in DOMAIN streams,
             CloseStream(t, i) \/ DropStream(t, i)
      PROVE  IdsKept
    BY <1>7, <1>2 DEF CloseStream, DropStream, Erase
<1>8. ASSUME NEW h \in Handle, StartFailed(h) \/ ShutdownComplete(h)
      PROVE  IdsKept
    BY <1>8, <1>2 DEF StartFailed, ShutdownComplete, EraseHandle
<1>9. ASSUME NEW h \in Handle, StartComplete(h) PROVE IdsKept
    BY <1>9, <1>3 DEF StartComplete
<1>10. CASE CloseVictim \/ LoseLink \/ ConnectionShutdownComplete
    BY <1>10, <1>3 DEF CloseVictim, LoseLink, ConnectionShutdownComplete
<1> QED
    BY <1>4, <1>5, <1>6, <1>7, <1>8, <1>9, <1>10 DEF Next, Worker

(***************************************************************************)
(* An id is bound to one stream for as long as that stream is open, and no *)
(* id is issued twice.                                                     *)
(***************************************************************************)
THEOREM StreamIdsAreUnique == Spec => IdsNeverRebound
<1> QED
    BY Invariance, NextKeepsIds, PTL DEF Spec, IdsNeverRebound, IdsKept

-----------------------------------------------------------------------------
(* Refinement of StreamLifecycle                                           *)

PhaseMap == [h \in Handle |-> Phase(h)]

LEMMA PhaseMoves ==
    ASSUME NEW h \in Handle, NEW from, NEW to,
           Phase(h) = from, Phase(h)' = to,
           \A g \in Handle \ {h} : Phase(g)' = Phase(g)
    PROVE  Lifecycle!Move(h, from, to)
BY DEF Lifecycle!Move

LEMMA PhasesKept ==
    ASSUME \A g \in Handle : Phase(g)' = Phase(g)
    PROVE  UNCHANGED PhaseMap
BY DEF PhaseMap

LEMMA InitRefines == Init => Lifecycle!Init
BY DEF Init, Lifecycle!Init, Phase

\* A handle is stored in streams_ under the next id.
LEMMA InsertRefines ==
    ASSUME IInv, NEW h \in Handle, h \notin Tables, Insert(nextId, h),
           UNCHANGED <<closing, victim>>, quic'[h] \notin {"absent", "freed"},
           \A g \in Handle \ {h} : quic'[g] = quic[g]
    PROVE  Phase(h)' = "usable" /\ \A g \in Handle \ {h} : Phase(g)' = Phase(g)
<1>1. nextId \notin DOMAIN streams
    BY DEF IInv, TypeOK
<1>2. Range(streams') = Range(streams) \cup {h}
    BY <1>1 DEF Insert, Range
<1> QED
    BY <1>2 DEF Phase

LEMMA NextRefines ==
    IInv /\ [Next]_vars => [Lifecycle!Next]_(Lifecycle!vars)
<1> SUFFICES ASSUME IInv, [Next]_vars
             PROVE  Lifecycle!Next \/ UNCHANGED <<PhaseMap, nextId - 1>>
    BY DEF Lifecycle!vars, PhaseMap
<1> USE TableAssumption
<1>0. nextId' = nextId + 1 => Lifecycle!IssueId
    BY DEF Lifecycle!IssueId, IInv, TypeOK
<1>1. CASE PreOpen
  <2>1. Lifecycle!IssueId
    BY <1>0, <1>1 DEF PreOpen
  <2>2. ASSUME NEW h \in Handle, quic[h] = "absent", SetQuic(h, "starting"),
               Insert(nextId, h)
        PROVE  Lifecycle!AcquireAndPublish(h)
    <3>1. h \notin Tables
      BY <2>2 DEF IInv, TablesHoldOpenHandles
    <3>2. /\ quic'[h] = "starting"
          /\ \A g \in Handle \ {h} : quic'[g] = quic[g]
      BY <2>2 DEF SetQuic, IInv, TypeOK
    <3>3. /\ Phase(h)' = "usable"
          /\ \A g \in Handle \ {h} : Phase(g)' = Phase(g)
      BY <1>1, <2>2, <3>1, <3>2, InsertRefines DEF PreOpen
    <3>4. Phase(h) = "unused"
      BY <2>2 DEF Phase
    <3> QED
      BY <2>1, <3>3, <3>4, PhaseMoves DEF Lifecycle!AcquireAndPublish
  <2>3. ASSUME NEW h \in Handle, quic[h] = "absent", SetQuic(h, "opened"),
               UNCHANGED streams
        PROVE  Lifecycle!AcquireAndSpend(h)
    <3>1. h \notin Tables /\ h # victim
      BY <2>3 DEF IInv, TablesHoldOpenHandles, ClosesOnlyFinished, TypeOK
    <3>2. Phase(h) = "unused" /\ Phase(h)' = "opening"
      BY <1>1, <2>3, <3>1 DEF Phase, PreOpen, SetQuic, IInv, TypeOK, Tables
    <3>3. \A g \in Handle \ {h} : Phase(g)' = Phase(g)
      BY <1>1, <2>3 DEF Phase, PreOpen, SetQuic, IInv, TypeOK
    <3> QED
      BY <2>1, <3>2, <3>3, PhaseMoves DEF Lifecycle!AcquireAndSpend
  <2>4. ASSUME UNCHANGED <<quic, streams>> PROVE Lifecycle!SpendId
    <3>1. UNCHANGED PhaseMap
      BY <1>1, <2>4, PhasesKept DEF Phase, PreOpen
    <3> QED
      BY <2>1, <3>1 DEF Lifecycle!SpendId, PhaseMap
  <2> QED
    BY <1>1, <2>2, <2>3, <2>4 DEF PreOpen, Lifecycle!Next
<1>2. ASSUME NEW t \in Thread, OpenStream(t) PROVE Lifecycle!Next
  <2> PICK h \in Handle : quic[h] = "absent" /\ SetQuic(h, "opened")
    BY <1>2 DEF OpenStream
  <2>1. h \notin Tables /\ h # victim
    BY DEF IInv, TablesHoldOpenHandles, ClosesOnlyFinished, TypeOK
  <2>2. Phase(h) = "unused" /\ Phase(h)' = "opening"
    BY <1>2, <2>1 DEF Phase, OpenStream, SetQuic, IInv, TypeOK, Tables
  <2>3. \A g \in Handle \ {h} : Phase(g)' = Phase(g)
    BY <1>2 DEF Phase, OpenStream, SetQuic, IInv, TypeOK
  <2>4. Lifecycle!Acquire(h)
    BY <1>2, <2>2, <2>3, PhaseMoves DEF Lifecycle!Acquire, OpenStream
  <2> QED
    BY <2>4 DEF Lifecycle!Next
<1>3. ASSUME NEW t \in Thread, StartStream(t)
      PROVE  Lifecycle!Next \/ UNCHANGED <<PhaseMap, nextId - 1>>
  <2> PICK h \in Handle : h = held[t]
    BY <1>3 DEF StartStream, IInv, CallsHoldHandles
  <2>1. h \notin Tables \cup {victim} /\ quic[h] = "opened"
    BY <1>3 DEF StartStream, IInv, CallsHoldHandles, OneOwner, Opening
  <2>2. Phase(h) = "opening"
    BY <2>1 DEF Phase, Tables
  <2>3. CASE SetQuic(h, "starting")
    <3>1. UNCHANGED PhaseMap
      BY <1>3, <2>1, <2>2, <2>3, PhasesKept
         DEF Phase, StartStream, SetQuic, Tables, IInv, TypeOK
    <3> QED
      BY <1>3, <3>1 DEF StartStream
  <2>4. CASE SetQuic(h, "freed")
    <3>1. Phase(h)' = "released"
      BY <1>3, <2>1, <2>4 DEF Phase, StartStream, SetQuic, IInv, TypeOK
    <3>2. \A g \in Handle \ {h} : Phase(g)' = Phase(g)
      BY <1>3, <2>1, <2>4 DEF Phase, StartStream, SetQuic, IInv, TypeOK
    <3>3. Lifecycle!Move(h, "opening", "released")
      BY <2>1, <2>2, <3>1, <3>2, PhaseMoves
    <3>4. Lifecycle!Abandon(h)
      BY <1>3, <3>3 DEF Lifecycle!Abandon, StartStream
    <3> QED
      BY <2>1, <3>4 DEF Lifecycle!Next
  <2> QED
    BY <1>3, <2>3, <2>4 DEF StartStream
<1>4. ASSUME NEW t \in Thread, Register(t) PROVE Lifecycle!Next
  <2> PICK h \in Handle : h = held[t]
    BY <1>4 DEF Register, IInv, CallsHoldHandles
  <2>1. h \notin Tables \cup {victim} /\ quic[h] \notin {"absent", "freed"}
    BY <1>4 DEF Register, IInv, CallsHoldHandles, OneOwner, Opening
  <2>2. Phase(h) = "opening"
    BY <2>1 DEF Phase, Tables
  <2>3. /\ Phase(h)' = "usable"
        /\ \A g \in Handle \ {h} : Phase(g)' = Phase(g)
    BY <1>4, <2>1, InsertRefines DEF Register
  <2>4. Lifecycle!Move(h, "opening", "usable")
    BY <2>1, <2>2, <2>3, PhaseMoves
  <2>5. Lifecycle!Publish(h)
    BY <1>0, <1>4, <2>4 DEF Lifecycle!Publish, Register
  <2> QED
    BY <2>1, <2>5 DEF Lifecycle!Next
<1>5. ASSUME NEW t \in Thread, NEW i \in DOMAIN streams,
             CloseStream(t, i) \/ DropStream(t, i)
      PROVE  Lifecycle!Next
  <2> PICK h \in Handle : h = streams[i]
    BY DEF IInv, TypeOK
  <2>1. h \in Range(streams) /\ quic[h] \notin {"absent", "freed"}
    BY DEF IInv, TablesHoldOpenHandles, Tables, Range
  <2>2. Range(streams') = Range(streams) \ {h}
    BY <1>5 DEF CloseStream, DropStream, Erase, Restrict, Range, IInv, OneOwner
  <2>3. closing' = closing \cup {h} /\ UNCHANGED <<quic, victim, nextId>>
    BY <1>5 DEF CloseStream, DropStream
  <2>4. Phase(h) = "usable" /\ Phase(h)' = "draining"
    BY <2>1, <2>2, <2>3 DEF Phase
  <2>5. \A g \in Handle \ {h} : Phase(g)' = Phase(g)
    BY <2>2, <2>3 DEF Phase
  <2>6. Lifecycle!Retire(h)
    BY <2>1, <2>3, <2>4, <2>5, PhaseMoves DEF Lifecycle!Retire
  <2> QED
    BY <2>1, <2>6 DEF Lifecycle!Next
<1>6. ASSUME NEW t \in Thread, AbortStream(t) PROVE UNCHANGED <<PhaseMap, nextId - 1>>
    BY <1>6, PhasesKept DEF AbortStream, Phase
<1>7. ASSUME NEW h \in Handle, StartComplete(h)
      PROVE  UNCHANGED <<PhaseMap, nextId - 1>>
  <2>1. UNCHANGED PhaseMap
    BY <1>7, PhasesKept DEF StartComplete, SetQuic, Phase, IInv, TypeOK
  <2> QED
    BY <1>7, <2>1 DEF StartComplete
\* The callback that finds the handle in a table detaches it.
<1>8. ASSUME NEW h \in Handle, StartFailed(h) \/ ShutdownComplete(h)
      PROVE  Lifecycle!Next \/ UNCHANGED <<PhaseMap, nextId - 1>>
  <2>1. /\ quic[h] \in {"starting", "started"}
        /\ quic'[h] \in {"failed", "ended"}
        /\ \A g \in Handle \ {h} : quic'[g] = quic[g]
        /\ victim = None
        /\ nextId' = nextId
    BY <1>8 DEF StartFailed, ShutdownComplete, SetQuic, WorkerIdle, IInv, TypeOK
  <2>2. Range(streams') = Range(streams) \ {h}
    BY <1>8 DEF StartFailed, ShutdownComplete, EraseHandle, Restrict, Range
  <2>3. \A g \in Handle \ {h} : Phase(g)' = Phase(g)
    <3>1. \A g \in Handle \ {h} : g \in closing' <=> g \in closing
      BY <1>8 DEF StartFailed, ShutdownComplete
    <3>2. \A g \in Handle \ {h} : g # victim /\ g # victim'
      BY <1>8, <2>1 DEF StartFailed, ShutdownComplete
    <3> QED
      BY <2>1, <2>2, <3>1, <3>2 DEF Phase
  <2>4. CASE h \in Range(streams)
    <3>1. Phase(h) = "usable"
      BY <2>1, <2>4 DEF Phase
    <3>2. victim' = h
      BY <1>8, <2>4 DEF StartFailed, ShutdownComplete, Tables
    <3>3. Phase(h)' = "draining"
      BY <2>1, <2>2, <3>2 DEF Phase
    <3>4. Lifecycle!Retire(h)
      BY <2>1, <2>3, <3>1, <3>3, PhaseMoves DEF Lifecycle!Retire
    <3> QED
      BY <3>4 DEF Lifecycle!Next
  <2>5. CASE h \notin Range(streams)
    <3>1. h \in closing \/ h = victim <=> (h \in closing \/ h = victim)'
      BY <1>8, <2>1, <2>5, TableAssumption DEF StartFailed, ShutdownComplete, Tables
    <3>2. Phase(h)' = Phase(h)
      BY <2>1, <2>2, <2>5, <3>1 DEF Phase
    <3>3. UNCHANGED PhaseMap
      BY <2>3, <3>2, PhasesKept
    <3> QED
      BY <2>1, <3>3
  <2> QED
    BY <2>4, <2>5
<1>9. CASE CloseVictim
  <2> PICK h \in Handle : h = victim
    BY <1>9 DEF CloseVictim, IInv, TypeOK
  <2>1. h \notin Tables /\ quic[h] \in {"failed", "ended"}
    BY <1>9 DEF CloseVictim, IInv, OneOwner, ClosesOnlyFinished
  <2>2. /\ quic'[h] = "freed"
        /\ \A g \in Handle \ {h} : quic'[g] = quic[g]
    BY <1>9 DEF CloseVictim, SetQuic, IInv, TypeOK
  <2>3. Phase(h) = "draining" /\ Phase(h)' = "released"
    BY <2>1, <2>2 DEF Phase, Tables
  <2>4. \A g \in Handle \ {h} : Phase(g)' = Phase(g)
    BY <1>9, <2>2, TableAssumption DEF Phase, CloseVictim
  <2>5. Lifecycle!Release(h)
    BY <1>9, <2>3, <2>4, PhaseMoves DEF Lifecycle!Release, CloseVictim
  <2> QED
    BY <2>5 DEF Lifecycle!Next
<1>10. CASE LoseLink \/ ConnectionShutdownComplete \/ UNCHANGED vars
    BY <1>10, PhasesKept DEF LoseLink, ConnectionShutdownComplete, vars, Phase
<1> QED
    BY <1>1, <1>2, <1>3, <1>4, <1>5, <1>6, <1>7, <1>8, <1>9, <1>10
       DEF Next, Worker, CallStep

(***************************************************************************)
(* The transport implements StreamLifecycle: whatever the interleaving, a  *)
(* handle is published at most once, under a fresh id, leaves the table    *)
(* that send uses before it is closed, and is closed once.                 *)
(***************************************************************************)
THEOREM TransportRefinesLifecycle == Spec => ImplementsLifecycle
<1> QED
    BY InitRefines, NextRefines, Invariance, PTL
       DEF Spec, ImplementsLifecycle, Lifecycle!Spec
=============================================================================
