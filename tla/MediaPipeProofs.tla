--------------------------- MODULE MediaPipeProofs ---------------------------
(***************************************************************************)
(* Proofs about MediaPipe, for every number of units, sizes, streams and   *)
(* runs of moq_client.                                                     *)
(*                                                                         *)
(* FramesAligned is not inductive: a parser that has read a payload is at  *)
(* a header again only because the packets of a stream lie end to end      *)
(* (Layout).  BufferSound rests on what a slot counts being what it has    *)
(* (Slots), and on a run of moq_client sending no fragment twice           *)
(* (SentOnce), so that in the first run a unit that has been written       *)
(* cannot come back (FirstRun).                                            *)
(***************************************************************************)
EXTENDS MediaPipe, FiniteSetTheorems, TLAPS

Headers == [unit : UnitId, idx : Nat, count : Nat, len : Nat]
Parser == [readingHeader : BOOLEAN, offset : Nat, needed : Nat,
           header : Headers \cup {None}]
Slot == [total : Nat, received : Nat, fragments : SUBSET Nat]

Types == /\ TypeOK
         /\ wire \in [Stream -> SUBSET [at : Nat, packet : Headers]]
         /\ parser \in [Stream -> Parser]
         /\ \A u \in DOMAIN buffer : buffer[u] \in Slot
         /\ file \in Seq([unit : UnitId, fragments : SUBSET Int])
         /\ Len(file) = expected

\* The send loop is within a unit, or at the end.
Loop == /\ unit < NumUnits => frag \in 0 .. NumFragments(unit) - 1
        /\ unit = NumUnits => frag = 0

End(p) == p.at + HeaderLen + p.packet.len

\* The packets of a stream follow each other without a gap.
Layout == \A s \in Stream : \A p \in wire[s] :
    /\ End(p) = queued[s] \/ \E q \in wire[s] : q.at = End(p)
    /\ End(p) <= queued[s]
    /\ \A q \in wire[s] : q.at = p.at => q = p

\* A stream has fragments the loop has sent, and each is on one stream, once.
SentOnce == \A s \in Stream : \A p \in wire[s] :
    /\ \E u \in UnitId : \E i \in 0 .. NumFragments(u) - 1 :
          IsSent(u, i) /\ p.packet = Packet(u, i)
    /\ \A t \in Stream : \A q \in wire[t] :
          /\ q.packet.unit = p.packet.unit
          /\ q.packet.idx = p.packet.idx
          => t = s /\ q = p

\* The header the parser keeps is that of the packet whose payload it awaits.
Awaits == \A s \in Stream : ~parser[s].readingHeader =>
    \E p \in wire[s] : /\ parser[s].header = p.packet
                       /\ parser[s].offset = p.at + HeaderLen
                       /\ parser[s].needed = p.packet.len

\* A slot counts what it has, of a unit that has been begun.
Slots == \A u \in DOMAIN buffer :
    /\ u < Begun
    /\ buffer[u].total = NumFragments(u)
    /\ buffer[u].fragments \subseteq 0 .. NumFragments(u) - 1
    /\ buffer[u].received = Cardinality(buffer[u].fragments)

\* The packets whose payload has not been read yet.
ToCome(s) == {p \in wire[s] :
                IF parser[s].readingHeader THEN parser[s].offset <= p.at
                                           ELSE parser[s].offset <= p.at + HeaderLen}

FirstRun == session = 1 =>
    /\ \A u \in DOMAIN buffer :
          u >= expected /\ \A i \in buffer[u].fragments : IsSent(u, i)
    /\ \A s \in Stream : \A p \in ToCome(s) :
          /\ p.packet.unit >= expected
          /\ p.packet.unit \in DOMAIN buffer
             => p.packet.idx \notin buffer[p.packet.unit].fragments
    /\ expected <= unit

IInv == Types /\ Loop /\ Layout /\ SentOnce /\ Awaits /\ FramesAligned /\ Slots /\ FirstRun

-----------------------------------------------------------------------------
(* The packetizer and the Reassembler's slots                               *)

(***************************************************************************)
(* A unit has at least one fragment, and the last is not empty.            *)
(***************************************************************************)
LEMMA FragmentFacts ==
    ASSUME NEW u \in UnitId
    PROVE  /\ NumFragments(u) \in Nat
           /\ NumFragments(u) >= 1
           /\ NumFragments(u) < CountMod
           /\ (NumFragments(u) - 1) * MaxPayload < Size[u]
           /\ u \in Int
<1> DEFINE n == NumFragments(u)
<1>1. Size[u] \in Nat \ {0} /\ MaxPayload \in Nat \ {0} /\ u \in Int /\ n < CountMod
    BY PipeAssumption, FragmentsFit DEF UnitId
<1>2. /\ n \in Int
      /\ n * MaxPayload <= Size[u] + MaxPayload - 1
      /\ Size[u] + MaxPayload - 1 < (n + 1) * MaxPayload
    BY <1>1 DEF NumFragments
<1>3. n >= 1
    BY <1>1, <1>2
<1>4. (n - 1) * MaxPayload = n * MaxPayload - MaxPayload
    BY <1>1, <1>2
<1> QED
    BY <1>1, <1>2, <1>3, <1>4

(***************************************************************************)
(* The casts to uint16_t lose nothing.                                     *)
(***************************************************************************)
LEMMA PacketFacts ==
    ASSUME NEW u \in UnitId, NEW i \in 0 .. NumFragments(u) - 1
    PROVE  /\ Packet(u, i) \in Headers
           /\ Packet(u, i).unit = u
           /\ Packet(u, i).idx = i
           /\ Packet(u, i).count = NumFragments(u)
           /\ Packet(u, i).len = FragmentLen(u, i)
           /\ FragmentLen(u, i) \in Nat
<1> DEFINE n == NumFragments(u)
<1>1. /\ n \in Nat /\ n < CountMod /\ (n - 1) * MaxPayload < Size[u] /\ i \in Nat /\ i < n
      /\ Size[u] \in Nat /\ MaxPayload \in Nat /\ CountMod \in Nat \ {0}
    BY FragmentFacts, PipeAssumption
<1>2. i % CountMod = i /\ n % CountMod = n
    BY <1>1
<1>3. FragmentLen(u, i) \in Nat
  <2>1. CASE i < n - 1
    BY <1>1, <2>1 DEF FragmentLen
  <2>2. CASE i = n - 1
    <3>1. FragmentLen(u, i) = Size[u] - (n - 1) * MaxPayload
      BY <1>1, <2>2 DEF FragmentLen
    <3>2. (n - 1) * MaxPayload \in Int
      BY <1>1
    <3> QED
      BY <1>1, <3>1, <3>2
  <2> QED
    BY <1>1, <2>1, <2>2
<1> QED
    BY <1>1, <1>2, <1>3 DEF Packet, Headers

(***************************************************************************)
(* The fragments of a unit are a finite set: those that are in a slot can  *)
(* be counted.                                                             *)
(***************************************************************************)
LEMMA CountFacts ==
    ASSUME NEW n \in Nat, NEW F \in SUBSET (0 .. n - 1)
    PROVE  /\ IsFiniteSet(F)
           /\ Cardinality(F) \in Nat
           /\ Cardinality(F) <= n
           /\ Cardinality(F) = n => F = 0 .. n - 1
<1>1. IsFiniteSet(0 .. n - 1) /\ Cardinality(0 .. n - 1) = n
    BY FS_Interval
<1>2. /\ IsFiniteSet(F)
      /\ Cardinality(F) <= Cardinality(0 .. n - 1)
      /\ Cardinality(0 .. n - 1) = Cardinality(F) => 0 .. n - 1 = F
    BY <1>1, FS_Subset
<1>3. Cardinality(F) \in Nat
    BY <1>2, FS_CardinalityType
<1> QED
    BY <1>1, <1>2, <1>3

(***************************************************************************)
(* on_packet adds the fragment to its slot once, whether or not it was     *)
(* there.                                                                  *)
(***************************************************************************)
LEMMA StoredFacts ==
    ASSUME Types, Slots, NEW u \in UnitId, NEW i \in 0 .. NumFragments(u) - 1
    PROVE  LET slot == Stored(SlotOf(u), Packet(u, i))
               old == IF u \in DOMAIN buffer THEN buffer[u].fragments ELSE {}
           IN  /\ slot \in Slot
               /\ slot.total = NumFragments(u)
               /\ slot.fragments = old \cup {i}
               /\ slot.fragments \subseteq 0 .. NumFragments(u) - 1
               /\ slot.received = Cardinality(slot.fragments)
<1> DEFINE n == NumFragments(u)
           old == IF u \in DOMAIN buffer THEN buffer[u].fragments ELSE {}
           h == Packet(u, i)
<1>1. n \in Nat /\ n >= 1 /\ n < CountMod /\ CountMod \in Nat
    BY FragmentFacts, PipeAssumption
<1>2. h.idx = i /\ h.count = n
    BY PacketFacts
<1>3. /\ old \subseteq 0 .. n - 1
      /\ SlotOf(u).fragments = old
      /\ SlotOf(u).received = Cardinality(old)
      /\ SlotOf(u).total \in {0, n}
      /\ SlotOf(u) \in Slot
      /\ old # {} => SlotOf(u).total = n
  <2>1. CASE u \in DOMAIN buffer
    BY <2>1 DEF SlotOf, Slots, Types
  <2>2. CASE u \notin DOMAIN buffer
    BY <2>2, FS_EmptySet DEF SlotOf, EmptySlot, Slot
  <2> QED
    BY <2>1, <2>2
<1>4. old \cup {i} \subseteq 0 .. n - 1
    BY <1>3
<1>5. CASE i \in old
  <2>1. Stored(SlotOf(u), h) = SlotOf(u)
    BY <1>2, <1>3, <1>5 DEF Stored
  <2>2. old \cup {i} = old
    BY <1>5
  <2> QED
    BY <1>3, <1>4, <1>5, <2>1, <2>2
<1>6. CASE i \notin old
  <2>1. /\ Stored(SlotOf(u), h).total = n
        /\ Stored(SlotOf(u), h).fragments = old \cup {i}
        /\ Stored(SlotOf(u), h).received = (Cardinality(old) + 1) % CountMod
        /\ Stored(SlotOf(u), h) = [total |-> n,
                                   received |-> (Cardinality(old) + 1) % CountMod,
                                   fragments |-> old \cup {i}]
    BY <1>1, <1>2, <1>3, <1>6 DEF Stored
  <2>2. IsFiniteSet(old) /\ Cardinality(old) \in Nat
    BY <1>1, <1>3, CountFacts
  <2>3. Cardinality(old \cup {i}) = Cardinality(old) + 1
    BY <1>6, <2>2, FS_AddElement
  <2>4. Cardinality(old \cup {i}) <= n
    BY <1>1, <1>4, CountFacts
  <2>5. (Cardinality(old) + 1) % CountMod = Cardinality(old) + 1
    BY <1>1, <2>2, <2>3, <2>4
  <2>6. old \cup {i} \in SUBSET Nat
    BY <1>1, <1>4
  <2> QED
    BY <1>1, <1>4, <2>1, <2>2, <2>3, <2>5, <2>6 DEF Slot
<1> QED
    BY <1>5, <1>6

(***************************************************************************)
(* A slot that counts as complete has every fragment of its unit.          *)
(***************************************************************************)
LEMMA CompleteFacts ==
    ASSUME Types, Slots, NEW u \in DOMAIN buffer, IsComplete(buffer[u])
    PROVE  /\ buffer[u].total = NumFragments(u)
           /\ buffer[u].fragments = 0 .. NumFragments(u) - 1
<1>1. u \in UnitId
    BY DEF Types, TypeOK
<1>2. NumFragments(u) \in Nat
    BY <1>1, FragmentFacts
<1> QED
    BY <1>2, CountFacts DEF Slots, IsComplete

(***************************************************************************)
(* The numbers of the state, and the order of a stream's offsets.          *)
(***************************************************************************)
LEMMA Numbers ==
    ASSUME Types
    PROVE  /\ unit \in Nat /\ unit <= NumUnits /\ frag \in Nat /\ NumUnits \in Nat
           /\ begun \in Nat /\ begun <= NumUnits
           /\ expected \in Nat /\ expected <= NumUnits
           /\ \A u \in DOMAIN buffer : u \in Nat /\ u < NumUnits
           /\ \A s \in Stream :
                /\ parser[s].offset \in Nat /\ arrived[s] \in Nat /\ queued[s] \in Nat
                /\ parser[s].offset <= arrived[s] /\ arrived[s] <= queued[s]
<1>1. /\ unit \in 0 .. NumUnits /\ frag \in Nat /\ begun \in 0 .. NumUnits
      /\ expected \in 0 .. NumUnits /\ DOMAIN buffer \subseteq UnitId
    BY DEF Types, TypeOK
<1>2. \A s \in Stream : parser[s].offset \in 0 .. arrived[s] /\ arrived[s] <= queued[s]
    BY DEF Types, TypeOK
<1>3. arrived \in [Stream -> Nat] /\ queued \in [Stream -> Nat] /\ NumUnits \in Nat
    BY PipeAssumption DEF Types, TypeOK
<1> QED
    BY <1>1, <1>2, <1>3 DEF UnitId

(***************************************************************************)
(* The packets sent are among those to send, of which there are finitely   *)
(* many.                                                                   *)
(***************************************************************************)
LEMMA SentAreCounted ==
    /\ Cardinality(SentPackets) \in Nat
    /\ TotalPackets \in Nat
    /\ Cardinality(SentPackets) <= TotalPackets
<1> DEFINE Box == UnitId \X (0 .. CountMod - 1)
<1>1. IsFiniteSet(UnitId) /\ IsFiniteSet(0 .. CountMod - 1)
    BY FS_Interval, PipeAssumption DEF UnitId
<1>2. IsFiniteSet(Box)
    BY <1>1, FS_Product
<1>3. AllPackets \subseteq Box
  <2> SUFFICES ASSUME NEW u \in UnitId, NEW i \in 0 .. NumFragments(u) - 1
               PROVE  i \in 0 .. CountMod - 1
    BY DEF AllPackets
  <2> QED
    BY FragmentFacts, PipeAssumption
<1>4. IsFiniteSet(AllPackets)
    BY <1>2, <1>3, FS_Subset
<1>5. SentPackets \subseteq AllPackets
    BY DEF SentPackets
<1>6. IsFiniteSet(SentPackets) /\ Cardinality(SentPackets) <= Cardinality(AllPackets)
    BY <1>4, <1>5, FS_Subset
<1> QED
    BY <1>4, <1>6, FS_CardinalityType DEF TotalPackets

(***************************************************************************)
(* The units that have been begun.                                         *)
(***************************************************************************)
LEMMA BegunFacts ==
    ASSUME Types, Loop
    PROVE  /\ Begun \in 0 .. NumUnits
           /\ unit <= Begun
           /\ frag > 0 => unit < Begun
           /\ \A u \in UnitId : \A i \in Nat : IsSent(u, i) => u < Begun
<1>1. unit \in 0 .. NumUnits /\ begun \in 0 .. NumUnits /\ frag \in Nat /\ NumUnits \in Nat
    BY PipeAssumption DEF Types, TypeOK
<1>2. frag > 0 => unit < NumUnits
    BY <1>1 DEF Loop
<1>3. Begun \in 0 .. NumUnits /\ unit <= Begun /\ (frag > 0 => unit < Begun)
    BY <1>1, <1>2 DEF Begun
<1> QED
    BY <1>1, <1>3 DEF IsSent, UnitId

-----------------------------------------------------------------------------
(* The steps                                                                *)

(***************************************************************************)
(* The two flags stay flags.                                               *)
(***************************************************************************)
LEMMA FlagsKeep ==
    ASSUME Types, [Next]_vars
    PROVE  lost' \in BOOLEAN /\ flushing' \in BOOLEAN
<1>1. lost \in BOOLEAN /\ flushing \in BOOLEAN
    BY DEF Types, TypeOK
<1>2. lost' \in BOOLEAN
    BY <1>1, ZenonT(60)
       DEF Next, ClientStep, ServerStep, SendPacket, SendFails, EnterWait, Finish, WaitTimesOut,
           SendComplete, LoseConnection, RunAgain, Receive, ReadHeader,
           OnPacket, ReadPayload, StopParsing, Flush, StopFlushing, vars,
           sender, connection, framing, reassembly
<1>3. flushing' \in BOOLEAN
    BY <1>1, ZenonT(60)
       DEF Next, ClientStep, ServerStep, SendPacket, SendFails, EnterWait, Finish, WaitTimesOut,
           SendComplete, LoseConnection, RunAgain, Receive, ReadHeader,
           OnPacket, ReadPayload, StopParsing, Flush, StopFlushing, vars,
           sender, connection, framing, reassembly
<1> QED
    BY <1>2, <1>3

(***************************************************************************)
(* At first nothing has been sent.                                         *)
(***************************************************************************)
LEMMA InitIInv == Init => IInv
<1> SUFFICES ASSUME Init PROVE IInv
    OBVIOUS
<1>1. 0 \in 0 .. NumUnits /\ HeaderLen \in Nat /\ NumUnits \in Nat /\ 1 \in 1 .. MaxSessions
    BY PipeAssumption
<1>2. Types
  <2>1. TotalPackets \in Nat
    BY SentAreCounted
  <2>2. TypeOK
    <3>1. /\ unit \in 0 .. NumUnits /\ frag \in Nat /\ completed \in 0 .. TotalPackets
          /\ session \in 1 .. MaxSessions /\ begun \in 0 .. NumUnits
          /\ expected \in 0 .. NumUnits
      BY <1>1, <2>1 DEF Init
    <3>2. /\ target \in Stream \cup {None} /\ parsing \in Stream \cup {None}
          /\ client \in {"sending", "waiting", "done", "timed out", "failed"}
          /\ lost \in BOOLEAN /\ flushing \in BOOLEAN
          /\ DOMAIN buffer \subseteq UnitId
      BY DEF Init
    <3>3. /\ queued \in [Stream -> Nat] /\ arrived \in [Stream -> Nat]
          /\ \A s \in Stream : /\ parser[s].offset \in 0 .. arrived[s]
                               /\ arrived[s] <= queued[s]
      BY DEF Init, NewParser
    <3>4. ASSUME NEW s \in Stream PROVE parser[s].readingHeader \in BOOLEAN
      BY DEF Init, NewParser
    <3> QED
      BY <3>1, <3>2, <3>3, <3>4 DEF TypeOK
  <2>3. parser \in [Stream -> Parser]
    BY <1>1 DEF Init, NewParser, Parser
  <2>4. file \in Seq([unit : UnitId, fragments : SUBSET Int]) /\ Len(file) = expected
    BY DEF Init
  <2>5. /\ wire \in [Stream -> SUBSET [at : Nat, packet : Headers]]
        /\ \A u \in DOMAIN buffer : buffer[u] \in Slot
    BY DEF Init
  <2> QED
    BY <2>2, <2>3, <2>4, <2>5 DEF Types
<1>3. Loop
  <2>1. 0 < NumUnits => NumFragments(0) >= 1 /\ NumFragments(0) \in Nat
    BY <1>1, FragmentFacts DEF UnitId
  <2> QED
    BY <2>1 DEF Init, Loop
<1> QED
    BY <1>1, <1>2, <1>3
       DEF Init, IInv, Layout, SentOnce, Awaits, FramesAligned, Slots, FirstRun, ToCome,
           NewParser

(***************************************************************************)
(* Steps that move no packet.                                              *)
(***************************************************************************)
LEMMA OthersKeep ==
    ASSUME IInv, [Next]_vars,
           \/ SendFails \/ EnterWait \/ Finish \/ WaitTimesOut
           \/ SendComplete \/ LoseConnection \/ StopFlushing
           \/ \E s \in Stream : StopParsing(s)
           \/ UNCHANGED vars
    PROVE  IInv'
<1> USE DEF IInv
<1>1. UNCHANGED <<unit, frag, target, queued, wire, session, begun, arrived, parser, buffer,
                  expected, file>>
    BY DEF SendFails, EnterWait, Finish, WaitTimesOut, SendComplete, LoseConnection,
           StopFlushing, StopParsing, vars, sender, connection, framing, reassembly
<1>2. completed' \in 0 .. TotalPackets
  <2>1. UNCHANGED completed \/ SendComplete
    BY DEF SendFails, EnterWait, Finish, WaitTimesOut, LoseConnection, StopFlushing,
           StopParsing, vars
  <2>2. completed \in Nat /\ completed <= TotalPackets
    <3>1. completed \in 0 .. TotalPackets
      BY DEF Types, TypeOK
    <3> QED
      BY <3>1, SentAreCounted
  <2>3. CASE SendComplete
    <3>1. completed < Cardinality(SentPackets) /\ completed' = completed + 1
      BY <2>3 DEF SendComplete
    <3> QED
      BY <2>2, <3>1, SentAreCounted
  <2> QED
    BY <2>1, <2>2, <2>3, SentAreCounted
<1>3. /\ client' \in {"sending", "waiting", "done", "timed out", "failed"}
      /\ parsing' \in Stream \cup {None}
    BY DEF SendFails, EnterWait, Finish, WaitTimesOut, SendComplete, LoseConnection,
           StopFlushing, StopParsing, vars, sender, connection, framing, reassembly,
           Types, TypeOK
<1>4. Types'
    BY <1>1, <1>2, <1>3, FlagsKeep DEF Types, TypeOK
<1>5. Begun' = Begun /\ \A u, i : IsSent(u, i)' = IsSent(u, i)
    BY <1>1 DEF Begun, IsSent
<1>6. Loop' /\ Layout' /\ Awaits' /\ FramesAligned'
    BY <1>1 DEF Loop, Layout, Awaits, FramesAligned
<1>7. SentOnce'
    BY <1>1, <1>5 DEF SentOnce
<1>8. Slots'
    BY <1>1, <1>5 DEF Slots
<1>9. FirstRun'
    BY <1>1, <1>5 DEF FirstRun, ToCome
<1> QED
    BY <1>4, <1>6, <1>7, <1>8, <1>9

(***************************************************************************)
(* SendPacket: the packet goes to the end of a stream, and is a new one.   *)
(***************************************************************************)
LEMMA SendPacketKeeps ==
    ASSUME IInv, SendPacket, lost' \in BOOLEAN, flushing' \in BOOLEAN
    PROVE  IInv'
<1> USE PipeAssumption DEF IInv
<1>1. /\ unit \in 0 .. NumUnits /\ unit < NumUnits /\ frag \in Nat /\ unit \in UnitId
      /\ queued \in [Stream -> Nat] /\ NumUnits \in Nat /\ HeaderLen \in Nat \ {0}
      /\ UNCHANGED <<client, completed, lost, session, begun, arrived, parser, parsing,
                     flushing, buffer, expected, file>>
    BY DEF SendPacket, connection, framing, reassembly, Types, TypeOK, UnitId
<1>2. frag \in 0 .. NumFragments(unit) - 1 /\ NumFragments(unit) \in Nat
    BY <1>1, FragmentFacts DEF Loop
<1> DEFINE new == Packet(unit, frag)
<1>3. /\ new \in Headers /\ new.unit = unit /\ new.idx = frag
      /\ new.len = FragmentLen(unit, frag) /\ new.len \in Nat
    BY <1>1, <1>2, PacketFacts
<1>4. PICK s \in Stream :
         /\ wire' = [wire EXCEPT ![s] = @ \cup {[at |-> queued[s], packet |-> new]}]
         /\ queued' = [queued EXCEPT ![s] = @ + HeaderLen + FragmentLen(unit, frag)]
         /\ IF frag + 1 < NumFragments(unit)
              THEN unit' = unit /\ frag' = frag + 1 /\ target' = s
              ELSE unit' = unit + 1 /\ frag' = 0 /\ target' = None
    BY DEF SendPacket
<1> DEFINE p0 == [at |-> queued[s], packet |-> new]
<1>5. /\ p0 \in [at : Nat, packet : Headers] /\ p0.at = queued[s] /\ p0.packet = new
      /\ queued[s] \in Nat /\ queued'[s] = End(p0) /\ queued'[s] > queued[s]
      /\ queued' \in [Stream -> Nat]
      /\ \A t \in Stream : t # s => queued'[t] = queued[t]
    BY <1>1, <1>3, <1>4 DEF End
<1>6. /\ wire \in [Stream -> SUBSET [at : Nat, packet : Headers]]
      /\ wire' \in [Stream -> SUBSET [at : Nat, packet : Headers]]
      /\ wire'[s] = wire[s] \cup {p0}
      /\ \A t \in Stream : t # s => wire'[t] = wire[t]
    BY <1>4, <1>5 DEF Types
<1>7. \A t \in Stream : \A p \in wire[t] : p.at \in Nat /\ p.packet \in Headers /\ End(p) \in Nat
    BY <1>1, <1>6 DEF End, Headers
<1>8. \A u \in UnitId : \A i \in 0 .. NumFragments(u) - 1 :
         IsSent(u, i)' <=> IsSent(u, i) \/ (u = unit /\ i = frag)
  <2> SUFFICES ASSUME NEW u \in UnitId, NEW i \in 0 .. NumFragments(u) - 1
               PROVE  IsSent(u, i)' <=> IsSent(u, i) \/ (u = unit /\ i = frag)
    OBVIOUS
  <2>1. u \in Int /\ i \in Int /\ NumFragments(u) \in Nat /\ i < NumFragments(u) /\ i >= 0
    BY FragmentFacts
  <2>2. CASE frag + 1 < NumFragments(unit)
    <3>1. unit' = unit /\ frag' = frag + 1
      BY <1>4, <2>2
    <3> QED
      BY <1>1, <1>2, <2>1, <3>1 DEF IsSent
  <2>3. CASE ~(frag + 1 < NumFragments(unit))
    <3>1. unit' = unit + 1 /\ frag' = 0 /\ frag + 1 = NumFragments(unit)
      BY <1>2, <1>4, <2>3
    <3> QED
      BY <1>1, <1>2, <2>1, <3>1 DEF IsSent
  <2> QED
    BY <2>2, <2>3
<1>9. Types'
  <2>1. unit' \in 0 .. NumUnits /\ frag' \in Nat /\ target' \in Stream \cup {None}
    BY <1>1, <1>4
  <2>2. \A t \in Stream : /\ parser[t].readingHeader \in BOOLEAN
                          /\ parser[t].offset \in 0 .. arrived[t]
    BY DEF Types, TypeOK
  <2>3. \A t \in Stream : arrived[t] <= queued'[t]
    BY <1>5, Numbers
  <2> QED
    BY <1>1, <1>5, <1>6, <2>1, <2>2, <2>3 DEF Types, TypeOK
<1>10. Loop'
  <2>1. CASE frag + 1 < NumFragments(unit)
    BY <1>1, <1>2, <1>4, <2>1 DEF Loop
  <2>2. CASE ~(frag + 1 < NumFragments(unit))
    <3>1. unit + 1 < NumUnits => NumFragments(unit + 1) >= 1 /\ NumFragments(unit + 1) \in Nat
      BY <1>1, FragmentFacts DEF UnitId
    <3> QED
      BY <1>1, <1>4, <2>2, <3>1 DEF Loop
  <2> QED
    BY <2>1, <2>2
<1>11. Layout'
  <2> SUFFICES ASSUME NEW t \in Stream, NEW p \in wire'[t]
               PROVE  /\ End(p) = queued'[t] \/ \E q \in wire'[t] : q.at = End(p)
                      /\ End(p) <= queued'[t]
                      /\ \A q \in wire'[t] : q.at = p.at => q = p
    BY DEF Layout, End
  <2>1. CASE t # s
    BY <1>5, <1>6, <2>1 DEF Layout
  <2>2. CASE t = s /\ p = p0
    <3>1. \A q \in wire[s] : q.at < queued[s]
      BY <1>1, <1>7 DEF Layout, End, Headers
    <3> QED
      BY <1>5, <1>6, <2>2, <3>1
  <2>3. CASE t = s /\ p \in wire[s]
    <3>1. p.at < queued[s] /\ End(p) <= queued[s] /\ End(p) \in Nat
      BY <1>1, <1>7, <2>3 DEF Layout, End, Headers
    <3> QED
      BY <1>5, <1>6, <2>3, <3>1 DEF Layout
  <2> QED
    BY <1>6, <2>1, <2>2, <2>3
<1>12. \A t \in Stream : \A p \in wire[t] : ~(p.packet.unit = unit /\ p.packet.idx = frag)
  <2> SUFFICES ASSUME NEW t \in Stream, NEW p \in wire[t],
                      p.packet.unit = unit, p.packet.idx = frag
               PROVE  FALSE
    OBVIOUS
  <2>0. PICK u \in UnitId : \E i \in 0 .. NumFragments(u) - 1 :
           IsSent(u, i) /\ p.packet = Packet(u, i)
    BY DEF SentOnce
  <2>1. PICK i \in 0 .. NumFragments(u) - 1 : IsSent(u, i) /\ p.packet = Packet(u, i)
    BY <2>0
  <2>2. u = unit /\ i = frag
    BY <2>1, PacketFacts
  <2> QED
    BY <1>1, <2>1, <2>2 DEF IsSent
<1>13. SentOnce'
  <2> SUFFICES ASSUME NEW t \in Stream, NEW p \in wire'[t]
               PROVE  /\ \E u \in UnitId : \E i \in 0 .. NumFragments(u) - 1 :
                            IsSent(u, i)' /\ p.packet = Packet(u, i)
                      /\ \A r \in Stream : \A q \in wire'[r] :
                            /\ q.packet.unit = p.packet.unit
                            /\ q.packet.idx = p.packet.idx
                            => r = t /\ q = p
    BY DEF SentOnce
  <2>1. CASE t = s /\ p = p0
    BY <1>1, <1>2, <1>3, <1>5, <1>6, <1>8, <1>12, <2>1
  <2>2. CASE p \in wire[t]
    <3>1. \E u \in UnitId : \E i \in 0 .. NumFragments(u) - 1 :
             IsSent(u, i)' /\ p.packet = Packet(u, i)
      BY <1>8, <2>2 DEF SentOnce
    <3>2. ASSUME NEW r \in Stream, NEW q \in wire'[r],
                 q.packet.unit = p.packet.unit, q.packet.idx = p.packet.idx
          PROVE  r = t /\ q = p
      <4>1. q # p0
        BY <1>3, <1>5, <1>12, <2>2, <3>2
      <4> QED
        BY <1>6, <2>2, <3>2, <4>1 DEF SentOnce
    <3> QED
      BY <3>1, <3>2
  <2> QED
    BY <1>6, <2>1, <2>2
<1>14. Awaits'
    BY <1>1, <1>6 DEF Awaits
<1>15. FramesAligned'
    BY <1>1, <1>5, <1>6 DEF FramesAligned
<1>16. Begun <= Begun' /\ Begun \in Int /\ Begun' \in Int
  <2>1. begun' = begun /\ unit' \in Nat /\ frag' \in Nat
    BY <1>1, <1>4
  <2> DEFINE n == IF frag > 0 THEN unit + 1 ELSE unit
             m == IF frag' > 0 THEN unit' + 1 ELSE unit'
  <2>0. (unit' = unit /\ frag' = frag + 1) \/ (unit' = unit + 1 /\ frag' = 0)
    BY <1>4
  <2>2. n \in Nat /\ m \in Nat /\ n <= m
    BY <1>1, <2>0
  <2>3. /\ Begun = IF n > begun THEN n ELSE begun
        /\ Begun' = IF m > begun THEN m ELSE begun
    BY <2>1 DEF Begun
  <2>4. begun \in Nat
    BY Numbers
  <2> HIDE DEF n, m
  <2> QED
    BY <2>2, <2>3, <2>4
<1>17. Slots'
  <2>1. \A u \in DOMAIN buffer : u < Begun'
    BY <1>16, Numbers DEF Slots
  <2> QED
    BY <1>1, <2>1 DEF Slots
<1>18. FirstRun'
  <2> SUFFICES ASSUME session = 1
               PROVE  /\ \A u \in DOMAIN buffer :
                            u >= expected /\ \A i \in buffer[u].fragments : IsSent(u, i)'
                      /\ \A t \in Stream : \A p \in ToCome(t)' :
                            /\ p.packet.unit >= expected
                            /\ p.packet.unit \in DOMAIN buffer
                               => p.packet.idx \notin buffer[p.packet.unit].fragments
                      /\ expected <= unit'
    BY <1>1 DEF FirstRun
  <2>1. /\ \A u \in DOMAIN buffer :
             u >= expected /\ \A i \in buffer[u].fragments : IsSent(u, i)
        /\ expected <= unit
    BY DEF FirstRun
  <2>2. \A u \in DOMAIN buffer : \A i \in buffer[u].fragments : IsSent(u, i)'
    BY <1>8, <2>1 DEF Slots, Types, TypeOK
  <2>3. expected <= unit'
    BY <1>1, <1>4, <2>1, Numbers
  <2>4. ASSUME NEW t \in Stream, NEW p \in ToCome(t)'
        PROVE  /\ p.packet.unit >= expected
               /\ p.packet.unit \in DOMAIN buffer
                  => p.packet.idx \notin buffer[p.packet.unit].fragments
    <3>1. CASE p = p0
      BY <1>1, <1>3, <1>5, <2>1, <3>1 DEF IsSent
    <3>2. CASE p # p0
      <4>1. p \in ToCome(t)
        BY <1>1, <1>6, <2>4, <3>2 DEF ToCome
      <4> QED
        BY <4>1 DEF FirstRun
    <3> QED
      BY <3>1, <3>2
  <2> QED
    BY <2>1, <2>2, <2>3, <2>4
<1> QED
    BY <1>9, <1>10, <1>11, <1>13, <1>14, <1>15, <1>17, <1>18

(***************************************************************************)
(* RunAgain: new streams and a new loop; the server keeps its slots.       *)
(***************************************************************************)
LEMMA RunAgainKeeps ==
    ASSUME IInv, RunAgain, lost' \in BOOLEAN, flushing' \in BOOLEAN
    PROVE  IInv'
<1> USE PipeAssumption DEF IInv
<1>1. /\ session' = session + 1 /\ begun' = Begun /\ unit' = 0 /\ frag' = 0 /\ target' = None
      /\ client' = "sending" /\ completed' = 0
      /\ queued' = [s \in Stream |-> 0] /\ arrived' = [s \in Stream |-> 0]
      /\ wire' = [s \in Stream |-> {}] /\ parser' = [s \in Stream |-> NewParser]
      /\ session < MaxSessions /\ session \in 1 .. MaxSessions
      /\ UNCHANGED <<parsing, buffer, expected, file>>
    BY DEF RunAgain, reassembly, Types, TypeOK
<1>2. Begun \in 0 .. NumUnits /\ 0 \in 0 .. NumUnits /\ HeaderLen \in Nat /\ NumUnits \in Nat
    BY BegunFacts
<1>3. parser' \in [Stream -> Parser]
    BY <1>1, <1>2 DEF NewParser, Parser
<1>4. /\ session' \in 1 .. MaxSessions /\ session' # 1 /\ begun' \in 0 .. NumUnits
      /\ unit' \in 0 .. NumUnits /\ frag' \in Nat /\ completed' \in 0 .. TotalPackets
      /\ queued' \in [Stream -> Nat] /\ arrived' \in [Stream -> Nat]
      /\ \A s \in Stream : /\ parser'[s].offset \in 0 .. arrived'[s]
                           /\ arrived'[s] <= queued'[s]
    BY <1>1, <1>2, SentAreCounted DEF NewParser
<1>5. \A s \in Stream : parser'[s].readingHeader \in BOOLEAN
    BY <1>3 DEF Parser
<1>6. Types'
    BY <1>1, <1>3, <1>4, <1>5 DEF Types, TypeOK
<1>7. Loop'
  <2>1. 0 < NumUnits => NumFragments(0) >= 1 /\ NumFragments(0) \in Nat
    BY <1>2, FragmentFacts DEF UnitId
  <2> QED
    BY <1>1, <1>2, <2>1 DEF Loop
<1>8. Layout' /\ SentOnce' /\ Awaits' /\ FramesAligned'
    BY <1>1 DEF Layout, SentOnce, Awaits, FramesAligned, NewParser
<1>9. Begun' = Begun
    BY <1>1, <1>2 DEF Begun
<1>10. Slots'
    BY <1>1, <1>9 DEF Slots
<1>11. FirstRun'
    BY <1>4 DEF FirstRun
<1> QED
    BY <1>6, <1>7, <1>8, <1>10, <1>11

(***************************************************************************)
(* Receive: bytes arrive; the parser's state is as it was.                 *)
(***************************************************************************)
LEMMA ReceiveKeeps ==
    ASSUME IInv, NEW s \in Stream, Receive(s), lost' \in BOOLEAN, flushing' \in BOOLEAN
    PROVE  IInv'
<1> USE DEF IInv
<1>1. /\ UNCHANGED <<unit, frag, target, client, queued, wire, completed, session, begun,
                     parser, buffer, expected, file>>
      /\ parsing' = s
    BY DEF Receive, sender, connection, reassembly
<1>2. /\ arrived' \in [Stream -> Nat]
      /\ \A t \in Stream : arrived[t] <= arrived'[t] /\ arrived'[t] <= queued[t]
  <2>1. PICK n \in 1 .. queued[s] - arrived[s] : arrived' = [arrived EXCEPT ![s] = @ + n]
    BY DEF Receive
  <2>2. /\ arrived \in [Stream -> Nat] /\ queued \in [Stream -> Nat]
        /\ \A t \in Stream : arrived[t] <= queued[t]
    BY DEF Types, TypeOK
  <2> QED
    BY <2>1, <2>2
<1>3. \A t \in Stream : parser[t].offset \in 0 .. arrived'[t]
    BY <1>2, Numbers
<1>4. Types'
  <2>1. \A t \in Stream : parser[t].readingHeader \in BOOLEAN
    BY DEF Types, TypeOK
  <2> QED
    BY <1>1, <1>2, <1>3, <2>1 DEF Types, TypeOK
<1>5. Begun' = Begun /\ \A u, i : IsSent(u, i)' = IsSent(u, i)
    BY <1>1 DEF Begun, IsSent
<1>6. Loop' /\ Layout' /\ Awaits' /\ FramesAligned'
    BY <1>1 DEF Loop, Layout, Awaits, FramesAligned
<1>7. SentOnce' /\ Slots' /\ FirstRun'
    BY <1>1, <1>5 DEF SentOnce, Slots, FirstRun, ToCome
<1> QED
    BY <1>4, <1>6, <1>7

(***************************************************************************)
(* ReadHeader: the header is that of the packet the parser is at.          *)
(***************************************************************************)
LEMMA ReadHeaderKeeps ==
    ASSUME IInv, NEW s \in Stream, ReadHeader(s), lost' \in BOOLEAN, flushing' \in BOOLEAN
    PROVE  IInv'
<1> USE PipeAssumption DEF IInv
<1> DEFINE o == parser[s].offset
<1>1. UNCHANGED <<unit, frag, target, client, queued, wire, completed, session, begun,
                  arrived, parsing, buffer, expected, file>>
    BY DEF ReadHeader, sender, connection, reassembly
<1>2. /\ parser \in [Stream -> Parser] /\ o \in Nat /\ o + HeaderLen <= arrived[s]
      /\ parser[s].readingHeader /\ arrived[s] <= queued[s] /\ HeaderLen \in Nat \ {0}
      /\ queued[s] \in Nat /\ arrived[s] \in Nat
  <2>1. parser \in [Stream -> Parser] /\ parser[s].readingHeader
    BY DEF Types, ReadHeader, HasHeader
  <2>2. o \in Nat
    BY <2>1 DEF Parser
  <2>3. /\ arrived[s] <= queued[s] /\ HeaderLen \in Nat \ {0}
        /\ queued[s] \in Nat /\ arrived[s] \in Nat
    BY DEF Types, TypeOK
  <2>4. arrived[s] - o >= HeaderLen
    BY DEF ReadHeader, HasHeader, Available
  <2> QED
    BY <2>1, <2>2, <2>3, <2>4
<1>3. PICK p \in wire[s] : p.at = o
    BY <1>2 DEF FramesAligned
<1>4. HeaderAt(s, o) = p.packet
  <2>1. \A q \in wire[s] : q.at = o => q = p
    BY <1>3 DEF Layout
  <2> QED
    BY <1>3, <2>1 DEF HeaderAt
<1>5. p.packet \in Headers /\ p.at \in Nat
    BY DEF Types
<1>6. /\ parser'[s] = [readingHeader |-> FALSE, offset |-> o + HeaderLen,
                       needed |-> p.packet.len, header |-> p.packet]
      /\ \A t \in Stream : t # s => parser'[t] = parser[t]
      /\ DOMAIN parser' = Stream
    BY <1>2, <1>4 DEF ReadHeader
<1>7. parser' = [t \in Stream |-> IF t = s THEN parser'[s] ELSE parser[t]]
    BY <1>2, <1>4 DEF ReadHeader
<1>8. parser'[s] \in Parser
  <2>1. o + HeaderLen \in Nat /\ p.packet.len \in Nat
    BY <1>2, <1>5 DEF Headers
  <2>2. FALSE \in BOOLEAN
    OBVIOUS
  <2> QED
    BY <1>5, <1>6, <2>1, <2>2 DEF Parser
<1>9. parser' \in [Stream -> Parser]
    BY <1>2, <1>7, <1>8
<1>10. Types'
  <2>1. \A t \in Stream : parser'[t].readingHeader \in BOOLEAN
    BY <1>9 DEF Parser
  <2>2. \A t \in Stream : parser'[t].offset \in 0 .. arrived[t]
    BY <1>2, <1>6, Numbers
  <2> QED
    BY <1>1, <1>9, <2>1, <2>2 DEF Types, TypeOK
<1>11. Begun' = Begun /\ \A u, i : IsSent(u, i)' = IsSent(u, i)
    BY <1>1 DEF Begun, IsSent
<1>12. Loop' /\ Layout' /\ SentOnce' /\ Slots'
    BY <1>1, <1>11 DEF Loop, Layout, SentOnce, Slots
<1>13. Awaits' /\ FramesAligned'
  <2>1. /\ parser'[s].header = p.packet /\ parser'[s].offset = p.at + HeaderLen
        /\ parser'[s].needed = p.packet.len /\ ~parser'[s].readingHeader
    BY <1>3, <1>6
  <2> QED
    BY <1>1, <1>6, <2>1 DEF Awaits, FramesAligned
<1>14. FirstRun'
  <2>1. \A t \in Stream : ToCome(t)' = ToCome(t)
    <3>1. \A t \in Stream : t # s => ToCome(t)' = ToCome(t)
      BY <1>1, <1>6 DEF ToCome
    <3>2. \A q \in wire[s] : q.at \in Nat
      BY DEF Types
    <3>3. \A q \in wire[s] : o + HeaderLen <= q.at + HeaderLen <=> o <= q.at
      BY <1>2, <3>2
    <3>4. ToCome(s)' = {q \in wire[s] : o + HeaderLen <= q.at + HeaderLen}
      BY <1>1, <1>6 DEF ToCome
    <3>5. ToCome(s) = {q \in wire[s] : o <= q.at}
      BY <1>2 DEF ToCome
    <3> QED
      BY <3>1, <3>3, <3>4, <3>5
  <2> QED
    BY <1>1, <1>11, <2>1 DEF FirstRun
<1> QED
    BY <1>10, <1>12, <1>13, <1>14

(***************************************************************************)
(* ReadPayload: the next packet is where this one ends, and its fragment   *)
(* is in its slot.                                                         *)
(***************************************************************************)
LEMMA ReadPayloadKeeps ==
    ASSUME IInv, NEW s \in Stream, ReadPayload(s), lost' \in BOOLEAN, flushing' \in BOOLEAN
    PROVE  IInv'
<1> USE PipeAssumption DEF IInv
<1> DEFINE o == parser[s].offset
           h == parser[s].header
<1>1. UNCHANGED <<unit, frag, target, client, queued, wire, completed, session, begun,
                  arrived, parsing, expected, file>>
    BY DEF ReadPayload, OnPacket, sender, connection
<1>2. /\ parser \in [Stream -> Parser] /\ ~parser[s].readingHeader
      /\ parser[s] \in Parser
    BY DEF Types, ReadPayload, HasPayload
<1>3. /\ o + parser[s].needed <= arrived[s] /\ arrived[s] <= queued[s] /\ o \in Nat
      /\ parser[s].needed \in Nat /\ HeaderLen \in Nat \ {0}
  <2>1. arrived[s] - o >= parser[s].needed
    BY DEF ReadPayload, HasPayload, Available
  <2>2. o \in Nat /\ parser[s].needed \in Nat
    BY <1>2 DEF Parser
  <2> QED
    BY <2>1, <2>2, Numbers
<1>4. PICK p \in wire[s] : /\ h = p.packet /\ o = p.at + HeaderLen
                          /\ parser[s].needed = p.packet.len
    BY <1>2 DEF Awaits
<1>5. p.packet \in Headers /\ p.at \in Nat /\ p.packet.len \in Nat
  <2>1. p \in [at : Nat, packet : Headers]
    BY DEF Types
  <2> QED
    BY <2>1 DEF Headers
<1>6. PICK u \in UnitId : \E i \in 0 .. NumFragments(u) - 1 :
         IsSent(u, i) /\ p.packet = Packet(u, i)
    BY DEF SentOnce
<1>7. PICK i \in 0 .. NumFragments(u) - 1 : IsSent(u, i) /\ p.packet = Packet(u, i)
    BY <1>6
<1>8. p.packet.unit = u /\ p.packet.idx = i
    BY <1>7, PacketFacts
<1> DEFINE slot == Stored(SlotOf(u), Packet(u, i))
           old == IF u \in DOMAIN buffer THEN buffer[u].fragments ELSE {}
<1>9. /\ slot \in Slot /\ slot.total = NumFragments(u) /\ slot.fragments = old \cup {i}
      /\ slot.fragments \subseteq 0 .. NumFragments(u) - 1
      /\ slot.received = Cardinality(slot.fragments)
    BY StoredFacts
<1>10. /\ DOMAIN buffer' = DOMAIN buffer \cup {u} /\ buffer'[u] = slot
       /\ \A v \in DOMAIN buffer : v # u => buffer'[v] = buffer[v]
    BY <1>4, <1>7, <1>8 DEF ReadPayload, OnPacket
<1> HIDE DEF slot
<1>11. parser' = [t \in Stream |->
                    IF t = s THEN [readingHeader |-> TRUE,
                                   offset |-> o + parser[s].needed,
                                   needed |-> HeaderLen, header |-> h]
                             ELSE parser[t]]
    BY <1>2 DEF ReadPayload, Parser
<1>12. /\ parser'[s].readingHeader = TRUE /\ parser'[s].offset = End(p)
       /\ \A t \in Stream : t # s => parser'[t] = parser[t]
    BY <1>4, <1>11 DEF End
<1>13. parser' \in [Stream -> Parser]
  <2>1. TRUE \in BOOLEAN /\ o + parser[s].needed \in Nat /\ HeaderLen \in Nat
    BY <1>3
  <2>2. [readingHeader |-> TRUE, offset |-> o + parser[s].needed,
         needed |-> HeaderLen, header |-> h] \in Parser
    BY <1>4, <1>5, <2>1 DEF Parser
  <2> QED
    BY <1>2, <1>11, <2>2
<1>14. Types'
  <2>1. \A t \in Stream : parser'[t].readingHeader \in BOOLEAN
    BY <1>13 DEF Parser
  <2>2. o + parser[s].needed = End(p)
    BY <1>4 DEF End
  <2>3. \A t \in Stream : parser'[t].offset \in 0 .. arrived[t]
    BY <1>3, <1>12, <2>2, Numbers
  <2>4. /\ DOMAIN buffer' \subseteq UnitId
        /\ \A v \in DOMAIN buffer' : buffer'[v] \in Slot
    BY <1>9, <1>10 DEF Types, TypeOK
  <2> QED
    BY <1>1, <1>13, <2>1, <2>3, <2>4 DEF Types, TypeOK
<1>15. Begun' = Begun /\ \A v, j : IsSent(v, j)' = IsSent(v, j)
    BY <1>1 DEF Begun, IsSent
<1>16. Loop' /\ Layout' /\ SentOnce'
    BY <1>1, <1>15 DEF Loop, Layout, SentOnce
<1>17. Awaits'
    BY <1>1, <1>12 DEF Awaits
<1>18. FramesAligned'
  <2>1. End(p) = queued[s] \/ \E q \in wire[s] : q.at = End(p)
    BY DEF Layout
  <2> QED
    BY <1>1, <1>12, <2>1 DEF FramesAligned
<1>19. Slots'
  <2>1. u < Begun
    BY <1>7, BegunFacts
  <2> QED
    BY <1>9, <1>10, <1>15, <2>1 DEF Slots
<1>20. FirstRun'
  <2> SUFFICES ASSUME session = 1
               PROVE  /\ \A v \in DOMAIN buffer' :
                            v >= expected /\ \A j \in buffer'[v].fragments : IsSent(v, j)
                      /\ \A t \in Stream : \A q \in ToCome(t)' :
                            /\ q.packet.unit >= expected
                            /\ q.packet.unit \in DOMAIN buffer'
                               => q.packet.idx \notin buffer'[q.packet.unit].fragments
                      /\ expected <= unit
    BY <1>1, <1>15 DEF FirstRun
  <2>1. p \in ToCome(s)
    BY <1>2, <1>3, <1>4 DEF ToCome
  <2>2. u >= expected
    BY <1>8, <2>1 DEF FirstRun
  <2>3. \A v \in DOMAIN buffer' : v >= expected /\ \A j \in buffer'[v].fragments : IsSent(v, j)
    BY <1>7, <1>9, <1>10, <2>2 DEF FirstRun
  <2>4. ASSUME NEW t \in Stream, NEW q \in ToCome(t)'
        PROVE  /\ q.packet.unit >= expected
               /\ q.packet.unit \in DOMAIN buffer'
                  => q.packet.idx \notin buffer'[q.packet.unit].fragments
    <3>1. q \in wire[t] /\ q.at \in Nat
      BY <1>1, <2>4 DEF ToCome, Types
    <3>2. q \in ToCome(t) /\ ~(t = s /\ q = p)
      <4>1. CASE t = s
        <5>1. End(p) <= q.at
          BY <1>12, <2>4, <4>1 DEF ToCome
        <5> QED
          BY <1>2, <1>3, <1>4, <1>5, <3>1, <4>1, <5>1 DEF ToCome, End
      <4>2. CASE t # s
        BY <1>1, <1>12, <2>4, <4>2 DEF ToCome
      <4> QED
        BY <4>1, <4>2
    <3>3. ~(q.packet.unit = u /\ q.packet.idx = i)
      BY <1>8, <3>1, <3>2 DEF SentOnce
    <3>4. /\ q.packet.unit >= expected
          /\ q.packet.unit \in DOMAIN buffer
             => q.packet.idx \notin buffer[q.packet.unit].fragments
      BY <3>2 DEF FirstRun
    <3>5. CASE q.packet.unit = u
      BY <1>9, <1>10, <3>3, <3>4, <3>5
    <3>6. CASE q.packet.unit # u
      BY <1>10, <3>4, <3>6
    <3> QED
      BY <3>5, <3>6
  <2> QED
    BY <2>3, <2>4 DEF FirstRun
<1> QED
    BY <1>14, <1>16, <1>17, <1>18, <1>19, <1>20

(***************************************************************************)
(* Flush: the unit that is complete has been sent whole, and nothing of it *)
(* is still to come in a first run.                                        *)
(***************************************************************************)
LEMMA FlushKeeps ==
    ASSUME IInv, Flush, lost' \in BOOLEAN, flushing' \in BOOLEAN
    PROVE  /\ IInv'
           /\ Written(expected) = Unit(expected)
           /\ expected < Begun
<1> USE PipeAssumption DEF IInv
<1>1. UNCHANGED <<unit, frag, target, client, queued, wire, completed, session, begun,
                  arrived, parser, parsing>>
    BY DEF Flush, sender, connection, framing
<1>2. /\ expected \in DOMAIN buffer /\ IsComplete(buffer[expected])
      /\ file' = Append(file, Written(expected)) /\ expected' = expected + 1
      /\ expected \in UnitId /\ expected < Begun /\ expected \in Nat
      /\ expected < NumUnits
    BY Numbers DEF Flush, CanFlush, Types, TypeOK, Slots
<1>3. /\ DOMAIN buffer' = DOMAIN buffer \ {expected}
      /\ \A u \in DOMAIN buffer' : buffer'[u] = buffer[u]
    BY DEF Flush, Restrict
<1>4. /\ buffer[expected].total = NumFragments(expected)
      /\ buffer[expected].fragments = 0 .. NumFragments(expected) - 1
      /\ NumFragments(expected) \in Nat /\ NumFragments(expected) >= 1
    BY <1>2, CompleteFacts, FragmentFacts
<1>5. Written(expected) = Unit(expected)
    BY <1>4 DEF Written, Unit
<1>6. Types'
  <2>1. Unit(expected) \in [unit : UnitId, fragments : SUBSET Int]
    BY <1>2, <1>4 DEF Unit
  <2>2. file' \in Seq([unit : UnitId, fragments : SUBSET Int]) /\ Len(file') = expected'
    BY <1>2, <1>5, <2>1 DEF Types
  <2>3. expected' \in 0 .. NumUnits
    BY <1>2, Numbers
  <2>4. DOMAIN buffer' \subseteq UnitId /\ \A u \in DOMAIN buffer' : buffer'[u] \in Slot
    BY <1>3 DEF Types, TypeOK
  <2>5. \A s \in Stream : /\ parser[s].readingHeader \in BOOLEAN
                          /\ parser[s].offset \in 0 .. arrived[s]
                          /\ arrived[s] <= queued[s]
    BY DEF Types, TypeOK
  <2> QED
    BY <1>1, <2>2, <2>3, <2>4, <2>5 DEF Types, TypeOK
<1>7. Begun' = Begun /\ \A v, j : IsSent(v, j)' = IsSent(v, j)
    BY <1>1 DEF Begun, IsSent
<1>8. Loop' /\ Layout' /\ SentOnce' /\ Awaits' /\ FramesAligned'
    BY <1>1, <1>7 DEF Loop, Layout, SentOnce, Awaits, FramesAligned
<1>9. Slots'
    BY <1>3, <1>7 DEF Slots
<1>10. FirstRun'
  <2> SUFFICES ASSUME session = 1
               PROVE  /\ \A v \in DOMAIN buffer' :
                            /\ v >= expected + 1
                            /\ \A j \in buffer'[v].fragments : IsSent(v, j)
                      /\ \A t \in Stream : \A q \in ToCome(t) :
                            /\ q.packet.unit >= expected + 1
                            /\ q.packet.unit \in DOMAIN buffer'
                               => q.packet.idx \notin buffer'[q.packet.unit].fragments
                      /\ expected + 1 <= unit
    BY <1>1, <1>2, <1>7 DEF FirstRun, ToCome
  <2>1. \A v \in DOMAIN buffer' : /\ v >= expected + 1
                                 /\ \A j \in buffer'[v].fragments : IsSent(v, j)
    BY <1>2, <1>3, Numbers DEF FirstRun
  <2>2. ASSUME NEW t \in Stream, NEW q \in ToCome(t)
        PROVE  q.packet.unit >= expected + 1
    <3>1. q \in wire[t]
      BY DEF ToCome
    <3>2. PICK u \in UnitId : \E i \in 0 .. NumFragments(u) - 1 : q.packet = Packet(u, i)
      BY <3>1 DEF SentOnce
    <3>3. PICK i \in 0 .. NumFragments(u) - 1 : q.packet = Packet(u, i)
      BY <3>2
    <3>4. q.packet.unit = u /\ q.packet.idx = i /\ u \in Int
      BY <3>3, PacketFacts, FragmentFacts
    <3>5. u >= expected /\ u # expected
      BY <1>2, <1>4, <3>4 DEF FirstRun
    <3> QED
      BY <1>2, <3>4, <3>5
  <2>3. \A t \in Stream : \A q \in ToCome(t) :
           q.packet.unit \in DOMAIN buffer'
           => q.packet.idx \notin buffer'[q.packet.unit].fragments
    BY <1>3 DEF FirstRun
  <2>4. expected + 1 <= unit
    <3>1. NumFragments(expected) - 1 \in buffer[expected].fragments
      BY <1>4
    <3>2. IsSent(expected, NumFragments(expected) - 1)
      BY <1>2, <3>1 DEF FirstRun
    <3> QED
      BY <1>2, <1>4, <3>2, Numbers DEF IsSent, Loop
  <2> QED
    BY <2>1, <2>2, <2>3, <2>4
<1> QED
    BY <1>2, <1>5, <1>6, <1>8, <1>9, <1>10

(***************************************************************************)
(* Every step keeps the inductive invariant, which therefore holds always. *)
(***************************************************************************)
LEMMA NextIInv == IInv /\ [Next]_vars => IInv'
<1> SUFFICES ASSUME IInv, [Next]_vars PROVE IInv'
    OBVIOUS
<1>1. lost' \in BOOLEAN /\ flushing' \in BOOLEAN
    BY FlagsKeep DEF IInv
<1>2. CASE SendPacket
    BY <1>1, <1>2, SendPacketKeeps
<1>3. CASE RunAgain
    BY <1>1, <1>3, RunAgainKeeps
<1>4. CASE \E s \in Stream : Receive(s)
    BY <1>1, <1>4, ReceiveKeeps
<1>5. CASE \E s \in Stream : ReadHeader(s)
    BY <1>1, <1>5, ReadHeaderKeeps
<1>6. CASE \E s \in Stream : ReadPayload(s)
    BY <1>1, <1>6, ReadPayloadKeeps
<1>7. CASE Flush
    BY <1>1, <1>7, FlushKeeps
<1> QED
    BY <1>2, <1>3, <1>4, <1>5, <1>6, <1>7, OthersKeep DEF Next, ClientStep, ServerStep

LEMMA Invariance == Spec => []IInv
<1>1. Init => IInv
    BY InitIInv
<1>2. IInv /\ [Next]_vars => IInv'
    BY NextIInv
<1> QED
    BY <1>1, <1>2, PTL DEF Spec

(***************************************************************************)
(* Every variable has its type; no parser is ahead of the bytes that have  *)
(* arrived, no stream delivers more than was queued on it, and no          *)
(* completion comes without its send, whatever the sizes of the units.     *)
(***************************************************************************)
THEOREM PipeTypeCorrect == Spec => []TypeOK
<1>1. IInv => TypeOK
    BY DEF IInv, Types
<1> QED
    BY <1>1, Invariance, PTL

(***************************************************************************)
(* handle_stream_bytes reads a header only where the client has put one,   *)
(* for any cut of the bytes into RECEIVE events, any sizes, and any number *)
(* of streams.                                                             *)
(***************************************************************************)
THEOREM FramingStaysAligned == Spec => []FramesAligned
<1>1. IInv => FramesAligned
    BY DEF IInv
<1> QED
    BY <1>1, Invariance, PTL

(***************************************************************************)
(* What the Reassembler keeps is sound: fragments.at(i) finds every        *)
(* fragment of a unit that counts as complete, and only a later run of     *)
(* moq_client brings back a unit that has been written.                    *)
(***************************************************************************)
THEOREM ReassemblerIsSound == Spec => []BufferSound
<1>1. IInv => BufferSound
  <2> SUFFICES ASSUME IInv, NEW u \in DOMAIN buffer
               PROVE  /\ IsComplete(buffer[u])
                           => 0 .. buffer[u].total - 1 \subseteq buffer[u].fragments
                      /\ u < expected => session > 1
    BY DEF BufferSound
  <2>1. IsComplete(buffer[u]) => 0 .. buffer[u].total - 1 \subseteq buffer[u].fragments
    BY CompleteFacts DEF IInv
  <2>2. session \in 1 .. MaxSessions
    BY DEF IInv, Types, TypeOK
  <2>3. session = 1 => u >= expected
    BY DEF IInv, FirstRun
  <2>4. u \in Nat /\ expected \in Nat /\ MaxSessions \in Nat
    BY Numbers, PipeAssumption DEF IInv
  <2> QED
    BY <2>1, <2>2, <2>3, <2>4
<1> QED
    BY <1>1, Invariance, PTL

-----------------------------------------------------------------------------
(* The refinement                                                           *)

(***************************************************************************)
(* At first nothing has been handed over.                                  *)
(***************************************************************************)
LEMMA InitDelivers == Init => Delivery!Init
<1> SUFFICES ASSUME Init PROVE Begun = 0 /\ file = <<>>
    BY DEF Delivery!Init
<1> QED
    BY DEF Init, Begun

(***************************************************************************)
(* A packet sent begins a unit or goes on with one; a flush writes the     *)
(* next unit whole; no other step shows.                                   *)
(***************************************************************************)
LEMMA NextDelivers ==
    ASSUME IInv, [Next]_vars
    PROVE  [Delivery!Next]_<<Begun, file>>
<1>1. lost' \in BOOLEAN /\ flushing' \in BOOLEAN
    BY FlagsKeep DEF IInv
<1>2. Begun \in 0 .. NumUnits /\ NumUnits \in Nat
    BY BegunFacts, PipeAssumption DEF IInv
<1>3. CASE SendPacket
  <2>1. UNCHANGED file /\ begun' = begun /\ unit < NumUnits
    BY <1>3 DEF SendPacket, connection, reassembly
  <2>2. /\ unit \in Nat /\ frag \in Nat /\ begun \in Nat /\ NumUnits \in Nat
        /\ begun <= NumUnits
    BY Numbers DEF IInv
  <2> DEFINE n == IF frag > 0 THEN unit + 1 ELSE unit
             m == IF frag' > 0 THEN unit' + 1 ELSE unit'
  <2>3. \/ unit' = unit /\ frag' = frag + 1
        \/ unit' = unit + 1 /\ frag' = 0
    BY <1>3 DEF SendPacket
  <2>4. n \in Nat /\ m \in {n, n + 1} /\ m <= NumUnits
    BY <2>1, <2>2, <2>3
  <2>5. /\ Begun = IF n > begun THEN n ELSE begun
        /\ Begun' = IF m > begun THEN m ELSE begun
    BY <2>1 DEF Begun
  <2> HIDE DEF n, m
  <2>6. Begun' = Begun \/ (Begun' = Begun + 1 /\ Begun < NumUnits)
    BY <2>2, <2>4, <2>5
  <2> QED
    BY <2>1, <2>6 DEF Delivery!Next, Delivery!Hand
<1>4. CASE RunAgain
  <2>1. UNCHANGED file /\ begun' = Begun /\ unit' = 0 /\ frag' = 0
    BY <1>4 DEF RunAgain, reassembly
  <2>2. Begun' = Begun
    BY <1>2, <2>1 DEF Begun
  <2> QED
    BY <2>1, <2>2
<1>5. CASE Flush
  <2>1. Written(expected) = Unit(expected) /\ expected < Begun
    BY <1>1, <1>5, FlushKeeps
  <2>2. Begun' = Begun /\ file' = Append(file, Written(expected))
    BY <1>5 DEF Flush, sender, connection, Begun
  <2>3. Len(file) = expected /\ expected \in Nat
    BY Numbers DEF IInv, Types
  <2>4. [u \in UnitId |-> Unit(u)][Len(file)] = Unit(expected)
    BY <1>2, <2>1, <2>3 DEF UnitId
  <2> QED
    BY <2>1, <2>2, <2>3, <2>4 DEF Delivery!Next, Delivery!Write
<1>6. CASE ~(SendPacket \/ RunAgain \/ Flush)
  <2>1. UNCHANGED <<unit, frag, begun, file>>
    BY <1>6
       DEF Next, ClientStep, ServerStep, SendFails, EnterWait, Finish, WaitTimesOut,
           LoseConnection, StopFlushing, ReadHeader, ReadPayload, OnPacket, StopParsing,
           SendComplete, Receive, sender, connection, framing, reassembly, vars
  <2> QED
    BY <2>1 DEF Begun
<1> QED
    BY <1>3, <1>4, <1>5, <1>6

(***************************************************************************)
(* The pipeline implements OrderedDelivery: for any number of units, of    *)
(* any sizes, over any streams and however often moq_client is run again,  *)
(* the file has every unit whole, once, and in order, and none before it   *)
(* was sent.                                                               *)
(***************************************************************************)
THEOREM PipeImplementsDelivery == Spec => ImplementsDelivery
<1> QED
    BY InitDelivers, NextDelivers, Invariance, PTL
       DEF Spec, ImplementsDelivery, Delivery!Spec, Delivery!vars
=============================================================================
