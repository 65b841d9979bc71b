---------------------------- MODULE ServerStreams ----------------------------
(***************************************************************************)
(* The streams of all clients at the server: the handles MsQuic gives for  *)
(* them, streams_, the parser states in stream_states_, and the limit on   *)
(* the streams a peer may have (src/transport/msquic_transport.cpp).       *)
(*                                                                         *)
(* A handle is an address, which MsQuic uses again once StreamClose has    *)
(* freed it; stream_states_ is keyed by it and never erased.  A packet is  *)
(* sent as two pieces, header and payload: where a RECEIVE event cuts the  *)
(* bytes within them is the subject of MediaPipe.  Each connection has a   *)
(* worker of its own, so that callbacks of different connections           *)
(* interleave; both tables are locked, and each access is one step.        *)
(***************************************************************************)
EXTENDS Naturals, Sequences, FiniteSets

CONSTANTS Stream,      \* streams, numbered as the clients open them
          Conn,        \* connections
          Home,        \* the connection each stream belongs to
          Addr,        \* addresses of stream handles at the server, numbered
          Limit,       \* PeerBidiStreamCount
          Packets,     \* bound: packets the client sends on each stream
          None

ASSUME StreamsAssumption == /\ Stream \subseteq Nat \ {0}
                            /\ IsFiniteSet(Stream)
                            /\ Home \in [Stream -> Conn]
                            /\ Addr \subseteq Nat
                            /\ Limit \in Nat \ {0}
                            /\ Packets \in [Stream -> Nat]
                            /\ None \notin Addr

VARIABLES
  up,      \* the connections that are up
  life,    \* each stream, at the client
  sent,    \* how many packets the client has sent on it
  srv,     \* the stream at the server (ServerSide)
  addr,    \* its handle there
  sid,     \* the id streams_ gave it
  born,    \* what stream_states_ held for that address when it started
  read,    \* how many of its pieces have been parsed
  got,     \* what recv_cb_ was called with for it
  streams, \* streams_
  states,  \* stream_states_
  nextId   \* next_stream_id_

client == <<up, life, sent>>
server == <<srv, addr, sid, born, read, got, streams, states, nextId>>
vars == <<client, server>>

ServerSide == {"none",     \* not started
               "up",
               "aborted",  \* StreamShutdown(ABORT): SHUTDOWN_COMPLETE owed
               "erased",   \* out of streams_, StreamClose still to come
               "closed"}

Piece(s, k) == [stream |-> s, packet |-> k \div 2 + 1,
                part |-> IF k % 2 = 0 THEN "header" ELSE "payload"]
Pieces == [stream : Stream, packet : Nat,
           part : {"header", "payload"}]

\* A StreamState: the id, and current_header while its payload is awaited
\* (reading_header = false).  Absurd is a header with a length above 2^26.
Absurd == [stream |-> 0, packet |-> 0, part |-> "header"]
StreamState == [stream_id : Nat, held : Pieces \cup {None, Absurd}]
NewState(i) == [stream_id |-> i, held |-> None]

ASSUME NoneAssumption == None \notin Pieces \cup {Absurd} \cup StreamState

Init == /\ up = Conn
        /\ life = [s \in Stream |-> "none"]
        /\ sent = [s \in Stream |-> 0]
        /\ srv = [s \in Stream |-> "none"]
        /\ addr = [s \in Stream |-> None]
        /\ sid = [s \in Stream |-> 0]
        /\ born = [s \in Stream |-> None]
        /\ read = [s \in Stream |-> 0]
        /\ got = [s \in Stream |-> << >>]
        /\ streams = << >>
        /\ states = [a \in Addr |-> None]
        /\ nextId = 1

-----------------------------------------------------------------------------
(* The clients                                                             *)

OpenStream(s) ==
    /\ Home[s] \in up
    /\ life[s] = "none"
    /\ \A t \in Stream : t < s /\ Home[t] = Home[s] => life[t] # "none"
    /\ life' = [life EXCEPT ![s] = "open"]
    /\ UNCHANGED <<up, sent, server>>

SendPacket(s) ==
    /\ life[s] = "open"
    /\ Home[s] \in up
    /\ sent[s] < Packets[s]
    /\ sent' = [sent EXCEPT ![s] = @ + 1]
    /\ UNCHANGED <<up, life, server>>

\* close_stream: the client's direction ends after what has been sent.
CloseStream(s) ==
    /\ life[s] = "open"
    /\ life' = [life EXCEPT ![s] = "closed"]
    /\ UNCHANGED <<up, sent, server>>

\* drop_stream: both directions are aborted.
DropStream(s) ==
    /\ life[s] = "open"
    /\ life' = [life EXCEPT ![s] = "dropped"]
    /\ UNCHANGED <<up, sent, server>>

LoseConnection(c) ==
    /\ c \in up
    /\ up' = up \ {c}
    /\ UNCHANGED <<life, sent, server>>

-----------------------------------------------------------------------------
(* The server                                                              *)

\* MsQuic counts a peer's stream until both directions have ended.  The
\* server never ends its own, so that a stream closed gracefully counts for
\* as long as its connection lasts.
InUse(c) == {s \in Stream : Home[s] = c /\ srv[s] \in {"up", "aborted"}}

\* Streams start in order; one that finds no credit waits at the client.  The
\* handle's address is any that is free; those never used are alike, and the
\* lowest stands for them.
MayStart(s) ==
    /\ srv[s] = "none"
    /\ life[s] # "none"
    /\ Home[s] \in up
    /\ \A t \in Stream : t < s /\ Home[t] = Home[s] /\ life[t] # "dropped"
                            => srv[t] # "none"
    /\ Cardinality(InUse(Home[s])) < Limit

\* The stream gets an address that is free, and under mtx_ the next id.
AtAddress(s, a) ==
    /\ MayStart(s)
    /\ \A t \in Stream : addr[t] # a
    /\ \A b \in Addr : b < a => states[b] # None
    /\ srv' = [srv EXCEPT ![s] = "up"]
    /\ addr' = [addr EXCEPT ![s] = a]
    /\ sid' = [sid EXCEPT ![s] = nextId]
    /\ born' = [born EXCEPT ![s] = states[a]]
    /\ streams' = [i \in DOMAIN streams \cup {nextId} |->
                     IF i = nextId THEN a ELSE streams[i]]
    /\ UNCHANGED <<client, read, got>>

PeerStreamUnprepared(s, a) ==
    /\ AtAddress(s, a)
    /\ nextId' = nextId + 1
    /\ states' = [states EXCEPT ![a] = IF @ = None THEN NewState(0) ELSE @]

PeerStreamKeepingId(s, a) ==
    /\ AtAddress(s, a)
    /\ nextId' = nextId
    /\ states' = [states EXCEPT ![a] = IF @ = None THEN NewState(nextId) ELSE @]

\* PEER_STREAM_STARTED: next_stream_id_++, and stream_states_ gets an entry
\* if it has none for that address (emplace).
PeerStreamStarted(s, a) ==
    /\ AtAddress(s, a)
    /\ nextId' = nextId + 1
    /\ states' = [states EXCEPT ![a] = IF @ = None THEN NewState(nextId) ELSE @]

Hold(s, h) == states' = [states EXCEPT ![addr[s]].held = h]

\* handle_stream_bytes for the next piece, where a header is expected: a
\* payload that is taken for a header announces some length, or one that is
\* refused.
ReadHeader(s, p) ==
    /\ states[addr[s]].held = None
    /\ \/ Hold(s, p) /\ srv' = srv
       \/ /\ p.part = "payload"
          /\ Hold(s, Absurd)
          /\ srv' = [srv EXCEPT ![s] = "aborted"]
    /\ got' = got

ReadPayloadOnly(s, p) ==
    LET st == states[addr[s]] IN
    /\ st.held \in Pieces
    /\ got' = [got EXCEPT ![s] = Append(@, [stream_id |-> st.stream_id,
                                            header |-> st.held,
                                            payload |-> p])]
    /\ states' = states
    /\ srv' = srv

\* ... where the payload of the header at hand is expected: recv_cb_ ...
ReadPayload(s, p) ==
    LET st == states[addr[s]] IN
    /\ st.held \in Pieces
    /\ got' = [got EXCEPT ![s] = Append(@, [stream_id |-> st.stream_id,
                                            header |-> st.held,
                                            payload |-> p])]
    /\ Hold(s, None)
    /\ srv' = srv

\* ... and with an absurd length at hand every stream is aborted at once.
RefuseLength(s) ==
    /\ states[addr[s]].held = Absurd
    /\ srv' = [srv EXCEPT ![s] = "aborted"]
    /\ UNCHANGED <<got, states>>

Receive(s) ==
    /\ srv[s] = "up"
    /\ Home[s] \in up
    /\ read[s] < 2 * sent[s]
    /\ LET p == Piece(s, read[s])
       IN  ReadHeader(s, p) \/ ReadPayload(s, p) \/ RefuseLength(s)
    /\ read' = [read EXCEPT ![s] = @ + 1]
    /\ UNCHANGED <<client, addr, sid, born, streams, nextId>>

Ended(s) == /\ srv[s] \in {"up", "aborted"}
            /\ \/ srv[s] = "aborted"
               \/ life[s] = "dropped"
               \/ Home[s] \notin up

EraseNothing(s) ==
    /\ Ended(s)
    /\ srv' = [srv EXCEPT ![s] = "erased"]
    /\ UNCHANGED <<client, addr, sid, born, read, got, streams, states, nextId>>

\* SHUTDOWN_COMPLETE: under mtx_ the callback looks for the handle in
\* streams_ and takes it out ...
EraseStream(s) ==
    /\ Ended(s)
    /\ \E i \in DOMAIN streams :
         /\ streams[i] = addr[s]
         /\ streams' = [j \in DOMAIN streams \ {i} |-> streams[j]]
    /\ srv' = [srv EXCEPT ![s] = "erased"]
    /\ UNCHANGED <<client, addr, sid, born, read, got, states, nextId>>

\* ... and calls StreamClose, which frees the address.
StreamClose(s) ==
    /\ srv[s] = "erased"
    /\ srv' = [srv EXCEPT ![s] = "closed"]
    /\ addr' = [addr EXCEPT ![s] = None]
    /\ UNCHANGED <<client, sid, born, read, got, streams, states, nextId>>

-----------------------------------------------------------------------------
ServerStep(s) == \/ \E a \in Addr : PeerStreamStarted(s, a)
                 \/ Receive(s) \/ EraseStream(s) \/ StreamClose(s)

Next == \/ \E s \in Stream : \/ OpenStream(s)
                             \/ SendPacket(s) \/ CloseStream(s) \/ DropStream(s)
                             \/ ServerStep(s)
        \/ \E c \in Conn : LoseConnection(c)

Spec == Init /\ [][Next]_vars

\* MsQuic delivers what it has, stream by stream.
FairSpec == Spec /\ \A s \in Stream : WF_vars(ServerStep(s))

-----------------------------------------------------------------------------
(* Properties                                                              *)

Delivery == [stream_id : Nat, header : Pieces, payload : Pieces]

TypeOK == /\ up \subseteq Conn
          /\ life \in [Stream -> {"none", "open", "closed", "dropped"}]
          /\ \A s \in Stream : sent[s] \in 0 .. Packets[s]
          /\ srv \in [Stream -> ServerSide]
          /\ addr \in [Stream -> Addr \cup {None}]
          /\ sid \in [Stream -> Nat]
          /\ born \in [Stream -> StreamState \cup {None}]
          /\ \A s \in Stream : read[s] \in 0 .. 2 * sent[s]
          /\ got \in [Stream -> Seq(Delivery)]
          /\ DOMAIN streams \subseteq 1 .. nextId - 1
          /\ \A i \in DOMAIN streams : streams[i] \in Addr
          /\ states \in [Addr -> StreamState \cup {None}]
          /\ nextId \in Nat \ {0}

(***************************************************************************)
(* streams_ has each stream that is up under its own id and nothing else:  *)
(* SHUTDOWN_COMPLETE looks a handle up by its address, while workers of    *)
(* other connections start streams at addresses that have become free.     *)
(***************************************************************************)
TableExact ==
    /\ DOMAIN streams = {sid[s] : s \in {t \in Stream :
                                           srv[t] \in {"up", "aborted"}}}
    /\ \A s \in Stream :
         srv[s] \in {"up", "aborted"} => streams[sid[s]] = addr[s]

(***************************************************************************)
(* What reaches the application of a stream is its packets, whole and in   *)
(* order, whatever the streams beside it do, unless the stream before it   *)
(* at its address ended within a packet.  They come under its own id if    *)
(* the address is new, and under the id of the first stream that had it    *)
(* otherwise.                                                              *)
(***************************************************************************)
Cut(s) == born[s] # None /\ born[s].held # None

WholeUnlessCut ==
    \A s \in Stream : ~Cut(s) =>
        \A n \in DOMAIN got[s] :
            /\ got[s][n].header = Piece(s, 2 * n - 2)
            /\ got[s][n].payload = Piece(s, 2 * n - 1)
            /\ got[s][n].stream_id =
                 IF born[s] = None THEN sid[s] ELSE born[s].stream_id

(***************************************************************************)
(* What is sent arrives, unless the stream is dropped, its connection is   *)
(* lost, its parser begins within a packet of an earlier stream, or the    *)
(* limit is used up by streams still open or closed gracefully: those the  *)
(* server never gives back.                                                *)
(***************************************************************************)
Blocked(s) ==
    /\ srv[s] = "none"
    /\ \E T \in SUBSET {t \in Stream : life[t] \in {"open", "closed"}} :
         /\ Cardinality(T) >= Limit
         /\ \A t \in T : Home[t] = Home[s] /\ t < s

Arrives ==
    \A s \in Stream :
        []<>(\/ Len(got[s]) = sent[s]
             \/ life[s] = "dropped" \/ Home[s] \notin up
             \/ Cut(s) \/ Blocked(s))
=============================================================================
