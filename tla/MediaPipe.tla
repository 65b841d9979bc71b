----------------------------- MODULE MediaPipe -----------------------------
(***************************************************************************)
(* The path of a media unit (an H.265 NALU or an AV1 frame) from the file  *)
(* moq_client reads to the file moq_server writes:                         *)
(*   DefaultPacketizer -> send -> the bytes of one QUIC stream ->          *)
(*   handle_stream_bytes -> Reassembler -> the sink.                       *)
(*                                                                         *)
(* A payload is its place: fragment idx of unit id.  A stream carries      *)
(* bytes, which RECEIVE events cut anywhere; a byte is its offset, and     *)
(* what matters is at which offset each packet starts.  Offsets count from *)
(* the start of the stream: the compaction of buffer moves none of them.   *)
(***************************************************************************)
EXTENDS Integers, Sequences, FiniteSets, Functions

CONSTANTS NumUnits,    \* how many units the parser found
          Size,        \* unit id -> its bytes; the parsers find no empty unit
          MaxPayload,  \* max_payload_size_, moq_client's --chunksize
          SendLimit,   \* kMaxPayload, the longest payload that send takes
          HeaderLen,   \* sizeof(PacketHeader)
          CountMod,    \* fragment_idx and fragment_count are modulo this
          Stream,      \* the stream ids the client sends on
          MaxSessions, \* bound: how often moq_client is run
          None

UnitId == 0 .. NumUnits - 1

ASSUME PipeAssumption ==
    /\ NumUnits \in Nat
    /\ Size \in [UnitId -> Nat \ {0}]
    /\ MaxPayload \in Nat \ {0}
    /\ SendLimit \in Nat \ {0}
    /\ HeaderLen \in Nat \ {0}
    /\ CountMod \in Nat \ {0}
    /\ MaxSessions \in Nat \ {0}

VARIABLES
  unit, frag,   \* the client's send loop: the packet it sends next
  target,       \* stream_idx, chosen for the unit
  client,       \* where moq_client is
  queued,       \* stream -> bytes given to StreamSend
  wire,         \* stream -> the packets in them, each with its offset
  completed,    \* send_complete_count_
  lost,         \* the connection is gone
  session,      \* how many times moq_client has been run
  begun,        \* history: how many units runs before this one had begun
  arrived,      \* stream -> bytes appended to StreamState.buffer
  parser,       \* stream -> the rest of StreamState
  parsing,      \* the stream handle_stream_bytes is running for
  flushing,     \* it is in flush_contiguous
  buffer,       \* the Reassembler's buffer_: unit id -> ReassemblyBuffer
  expected,     \* expected_id_
  file          \* what writer_ was given, one element per unit

vars == <<unit, frag, target, client, queued, wire, completed, lost,
          session, begun, arrived, parser, parsing, flushing, buffer, expected, file>>

sender == <<unit, frag, target, client, queued, wire>>
connection == <<lost, session, begun>>
framing == <<arrived, parser, parsing>>
reassembly == <<flushing, buffer, expected, file>>

-----------------------------------------------------------------------------
(* DefaultPacketizer                                                       *)

\* fragment_count, before it is cast to uint16_t.
NumFragments(u) == (Size[u] + MaxPayload - 1) \div MaxPayload

\* The cast loses nothing.  The packetizer does not check it: 65536 fragments
\* of a unit would be counted as none.
ASSUME FragmentsFit == \A u \in UnitId : NumFragments(u) < CountMod

FragmentLen(u, i) == IF i < NumFragments(u) - 1
                       THEN MaxPayload
                       ELSE Size[u] - i * MaxPayload

Packet(u, i) == [unit  |-> u,
                 idx   |-> i % CountMod,
                 count |-> NumFragments(u) % CountMod,
                 len   |-> FragmentLen(u, i)]

\* moq_client counts them all before it sends, for set_send_expected.
AllPackets == UNION {{u} \X (0 .. NumFragments(u) - 1) : u \in UnitId}

TotalPackets == Cardinality(AllPackets)

\* Those the loop has sent, in this run.
IsSent(u, i) == u < unit \/ (u = unit /\ i < frag)
SentPackets == {p \in AllPackets : IsSent(p[1], p[2])}

-----------------------------------------------------------------------------
NewParser == [readingHeader |-> TRUE, offset |-> 0, needed |-> HeaderLen,
              header |-> None]

EmptySlot == [total |-> 0, received |-> 0, fragments |-> {}]

Init == /\ unit = 0
        /\ frag = 0
        /\ target = None
        /\ client = "sending"
        /\ queued = [s \in Stream |-> 0]
        /\ wire = [s \in Stream |-> {}]
        /\ completed = 0
        /\ lost = FALSE
        /\ session = 1
        /\ begun = 0
        /\ arrived = [s \in Stream |-> 0]
        /\ parser = [s \in Stream |-> NewParser]
        /\ parsing = None
        /\ flushing = FALSE
        /\ buffer = [u \in {} |-> EmptySlot]
        /\ expected = 0
        /\ file = <<>>

-----------------------------------------------------------------------------
(* The client                                                              *)

\* One iteration of the send loop.  The stream is chosen once per unit; any
\* choice among the open streams is allowed.
SendPacket ==
    /\ client = "sending"
    /\ unit < NumUnits
    /\ ~lost
    /\ FragmentLen(unit, frag) <= SendLimit
    /\ \E s \in Stream :
          /\ target \in {None, s}
          /\ wire' = [wire EXCEPT ![s] =
                         @ \cup {[at |-> queued[s], packet |-> Packet(unit, frag)]}]
          /\ queued' = [queued EXCEPT ![s] = @ + HeaderLen + FragmentLen(unit, frag)]
          /\ IF frag + 1 < NumFragments(unit)
               THEN unit' = unit /\ frag' = frag + 1 /\ target' = s
               ELSE unit' = unit + 1 /\ frag' = 0 /\ target' = None
    /\ UNCHANGED <<client, completed, connection, framing, reassembly>>

\* send returns false, and moq_client returns 4, which ends its connection.
SendFails ==
    /\ client = "sending"
    /\ unit < NumUnits
    /\ lost \/ FragmentLen(unit, frag) > SendLimit
    /\ client' = "failed"
    /\ lost' = TRUE
    /\ UNCHANGED <<unit, frag, target, queued, wire, completed, session, begun, framing,
                   reassembly>>

EnterWait ==
    /\ client = "sending"
    /\ unit = NumUnits
    /\ client' = "waiting"
    /\ UNCHANGED <<unit, frag, target, queued, wire, completed, connection, framing,
                   reassembly>>

\* wait_all_sends_done finds every completion it waits for ...
Finish ==
    /\ client = "waiting"
    /\ completed >= TotalPackets
    /\ client' = "done"
    /\ UNCHANGED <<unit, frag, target, queued, wire, completed, connection, framing,
                   reassembly>>

\* ... or gives up, and moq_client returns 5.
WaitTimesOut ==
    /\ client = "waiting"
    /\ client' = "timed out"
    /\ UNCHANGED <<unit, frag, target, queued, wire, completed, connection, framing,
                   reassembly>>

\* How many units have been begun, in this run of moq_client or an earlier one.
Begun == LET n == IF frag > 0 THEN unit + 1 ELSE unit
         IN  IF n > begun THEN n ELSE begun

\* SEND_COMPLETE.  A completion of a connection that is gone is a canceled
\* one; it counts all the same.
SendComplete ==
    /\ completed < Cardinality(SentPackets)
    /\ completed' = completed + 1
    /\ UNCHANGED <<sender, connection, framing, reassembly>>

LoseConnection ==
    /\ ~lost
    /\ lost' = TRUE
    /\ UNCHANGED <<sender, completed, session, begun, framing, reassembly>>

\* moq_client has given up, or has not noticed that its packets were canceled,
\* and is run again, for the same file: another connection, with streams of
\* its own; the server, and its Reassembler, go on.  (A stream whose handle
\* comes at an address that was in use before is the subject of ServerStreams.)
RunAgain ==
    /\ lost
    /\ client \notin {"sending", "waiting"}
    /\ session < MaxSessions
    /\ parsing = None
    /\ session' = session + 1
    /\ begun' = Begun
    /\ lost' = FALSE
    /\ unit' = 0 /\ frag' = 0 /\ target' = None
    /\ client' = "sending"
    /\ queued' = [s \in Stream |-> 0]
    /\ wire' = [s \in Stream |-> {}]
    /\ completed' = 0
    /\ arrived' = [s \in Stream |-> 0]
    /\ parser' = [s \in Stream |-> NewParser]
    /\ UNCHANGED <<parsing, reassembly>>

-----------------------------------------------------------------------------
(* The server: handle_stream_receive and handle_stream_bytes               *)

\* A RECEIVE event gives one run of bytes to handle_stream_bytes.
Receive(s) ==
    /\ parsing = None
    /\ ~lost
    /\ \E n \in 1 .. queued[s] - arrived[s] :
          arrived' = [arrived EXCEPT ![s] = @ + n]
    /\ parsing' = s
    /\ UNCHANGED <<sender, completed, connection, parser, reassembly>>

Available(s) == arrived[s] - parser[s].offset

\* The header that starts at an offset of the stream, None where none does.
HeaderAt(s, o) == IF \E p \in wire[s] : p.at = o
                    THEN (CHOOSE p \in wire[s] : p.at = o).packet
                    ELSE None

HasPartOfHeader(s) == parser[s].readingHeader /\ Available(s) > 0

HasHeader(s) == parser[s].readingHeader /\ Available(s) >= HeaderLen
HasPayload(s) == ~parser[s].readingHeader /\ Available(s) >= parser[s].needed

ReadHeader(s) ==
    /\ parsing = s
    /\ ~flushing
    /\ HasHeader(s)
    /\ LET h == HeaderAt(s, parser[s].offset)
       IN  parser' = [parser EXCEPT ![s] =
                        [readingHeader |-> FALSE,
                         offset        |-> @.offset + HeaderLen,
                         needed        |-> h.len,
                         header        |-> h]]
    /\ UNCHANGED <<sender, completed, connection, arrived, parsing, reassembly>>

(***************************************************************************)
(* Reassembler::on_packet, up to its call of flush_contiguous.             *)
(***************************************************************************)
SlotOf(u) == IF u \in DOMAIN buffer THEN buffer[u] ELSE EmptySlot

CountedAgain(slot, h) ==
    [total     |-> IF slot.total = 0 THEN h.count ELSE slot.total,
     received  |-> (slot.received + 1) % CountMod,
     fragments |-> slot.fragments \cup {h.idx}]

\* A fragment that is there already was sent by an earlier run of moq_client.
Stored(slot, h) ==
    IF h.idx \in slot.fragments
      THEN slot
      ELSE [total     |-> IF slot.total = 0 THEN h.count ELSE slot.total,
            received  |-> (slot.received + 1) % CountMod,
            fragments |-> slot.fragments \cup {h.idx}]

OnPacket(h) ==
    /\ buffer' = [u \in DOMAIN buffer \cup {h.unit} |->
                     IF u = h.unit THEN Stored(SlotOf(u), h) ELSE buffer[u]]
    /\ flushing' = TRUE
    /\ UNCHANGED <<expected, file>>

ReadPayloadOnly(s) ==
    /\ parsing = s
    /\ ~flushing
    /\ HasPayload(s)
    /\ OnPacket(parser[s].header)
    /\ parser' = [parser EXCEPT ![s].readingHeader = TRUE,
                                ![s].needed = HeaderLen]
    /\ UNCHANGED <<sender, completed, connection, arrived, parsing>>

\* A packet is complete: recv_cb_, and on to the next header.
ReadPayload(s) ==
    /\ parsing = s
    /\ ~flushing
    /\ HasPayload(s)
    /\ OnPacket(parser[s].header)
    /\ parser' = [parser EXCEPT ![s].readingHeader = TRUE,
                                ![s].offset = @ + parser[s].needed,
                                ![s].needed = HeaderLen]
    /\ UNCHANGED <<sender, completed, connection, arrived, parsing>>

\* handle_stream_bytes returns: more bytes are needed.
StopParsing(s) ==
    /\ parsing = s
    /\ ~flushing
    /\ ~HasHeader(s) /\ ~HasPayload(s)
    /\ parsing' = None
    /\ UNCHANGED <<sender, completed, connection, arrived, parser, reassembly>>

-----------------------------------------------------------------------------
(* Reassembler::flush_contiguous                                           *)

IsComplete(slot) == slot.total > 0 /\ slot.received = slot.total

CanFlush(u) == u \in DOMAIN buffer /\ IsComplete(buffer[u])

\* What the loop over fragments.at(i) writes for a unit.
Written(u) == [unit |-> u, fragments |-> 0 .. buffer[u].total - 1]

FlushAnyComplete ==
    /\ flushing
    /\ \E u \in DOMAIN buffer :
          /\ IsComplete(buffer[u])
          /\ file' = Append(file, Written(u))
          /\ buffer' = Restrict(buffer, DOMAIN buffer \ {u})
    /\ expected' = expected + 1
    /\ UNCHANGED <<sender, completed, connection, framing, flushing>>

FlushOneOnly ==
    /\ flushing
    /\ CanFlush(expected)
    /\ file' = Append(file, Written(expected))
    /\ buffer' = Restrict(buffer, DOMAIN buffer \ {expected})
    /\ expected' = expected + 1
    /\ flushing' = FALSE
    /\ UNCHANGED <<sender, completed, connection, framing>>

\* One iteration: the unit that is expected is complete, written and freed.
Flush ==
    /\ flushing
    /\ CanFlush(expected)
    /\ file' = Append(file, Written(expected))
    /\ buffer' = Restrict(buffer, DOMAIN buffer \ {expected})
    /\ expected' = expected + 1
    /\ UNCHANGED <<sender, completed, connection, framing, flushing>>

StopFlushing ==
    /\ flushing
    /\ ~CanFlush(expected)
    /\ flushing' = FALSE
    /\ UNCHANGED <<sender, completed, connection, framing, buffer, expected, file>>

-----------------------------------------------------------------------------
ClientStep == SendPacket \/ SendFails \/ EnterWait

ServerStep == \/ Flush
              \/ StopFlushing
              \/ \E s \in Stream : ReadHeader(s) \/ ReadPayload(s) \/ StopParsing(s)

Next == \/ ClientStep
        \/ Finish
        \/ WaitTimesOut
        \/ LoseConnection
        \/ RunAgain
        \/ ServerStep
        \/ SendComplete
        \/ \E s \in Stream : Receive(s)

Spec == Init /\ [][Next]_vars

(***************************************************************************)
(* The client's loop and the server's callback go on, and QUIC delivers    *)
(* every byte of every stream as long as the connection lasts.             *)
(***************************************************************************)
FairSpec == /\ Spec
            /\ WF_vars(ClientStep)
            /\ WF_vars(ServerStep)
            /\ WF_vars(SendComplete)
            /\ \A s \in Stream : SF_vars(Receive(s))

-----------------------------------------------------------------------------
(* Properties                                                              *)

Unit(u) == [unit |-> u, fragments |-> 0 .. NumFragments(u) - 1]

TypeOK ==
    /\ unit \in 0 .. NumUnits
    /\ frag \in Nat
    /\ target \in Stream \cup {None}
    /\ client \in {"sending", "waiting", "done", "timed out", "failed"}
    /\ queued \in [Stream -> Nat]
    /\ completed \in 0 .. TotalPackets
    /\ session \in 1 .. MaxSessions
    /\ begun \in 0 .. NumUnits
    /\ lost \in BOOLEAN
    /\ arrived \in [Stream -> Nat]
    /\ \A s \in Stream : /\ parser[s].readingHeader \in BOOLEAN
                         /\ parser[s].offset \in 0 .. arrived[s]
                         /\ arrived[s] <= queued[s]
    /\ parsing \in Stream \cup {None}
    /\ flushing \in BOOLEAN
    /\ DOMAIN buffer \subseteq UnitId
    /\ expected \in 0 .. NumUnits

(***************************************************************************)
(* However RECEIVE cuts the bytes (a header split over events, several     *)
(* packets in one event), a header is read where the client put one: the   *)
(* state that survives between events never loses alignment.               *)
(***************************************************************************)
FramesAligned == \A s \in Stream :
    /\ ~parser[s].readingHeader =>
          \E p \in wire[s] : /\ parser[s].header = p.packet
                             /\ parser[s].offset = p.at + HeaderLen
    /\ parser[s].readingHeader =>
          \/ parser[s].offset = queued[s]
          \/ \E p \in wire[s] : parser[s].offset = p.at

(***************************************************************************)
(* What the Reassembler keeps, over all runs of moq_client: a slot that    *)
(* counts as complete has no gap, or fragments.at(i) would throw in the    *)
(* worker (is_complete only counts), and of a unit that has been written   *)
(* it keeps only what a later run has sent of it again.                    *)
(***************************************************************************)
BufferSound ==
    \A u \in DOMAIN buffer :
        /\ IsComplete(buffer[u]) => 0 .. buffer[u].total - 1 \subseteq buffer[u].fragments
        /\ u < expected => session > 1

(***************************************************************************)
(* The whole source reaches the file in the end, unless the last           *)
(* connection is lost: no packet waits for ever behind another stream's,   *)
(* and a second run of moq_client fills in what the first has left.        *)
(***************************************************************************)
EverythingArrives == <>[](lost \/ Len(file) = NumUnits)

(***************************************************************************)
(* The pipeline implements OrderedDelivery: however the units are spread   *)
(* over streams, the streams interleave, and moq_client is run again, the  *)
(* file has every unit whole, once, and in order.                          *)
(***************************************************************************)
Delivery == INSTANCE OrderedDelivery
                WITH handed <- Begun,
                     Content <- [u \in UnitId |-> Unit(u)]

ImplementsDelivery == Delivery!Spec
=============================================================================
