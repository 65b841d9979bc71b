------------------------ MODULE ServerStreamsProofs ------------------------
(***************************************************************************)
(* Proofs about ServerStreams, for any set of connections and addresses,   *)
(* any finite set of streams and any limit.                                *)
(***************************************************************************)
EXTENDS ServerStreams, TLAPS

\* Where the counters are defined.
Counters == sent \in [Stream -> Nat] /\ read \in [Stream -> Nat]

\* A stream has a handle from PEER_STREAM_STARTED until StreamClose.
Live == {"up", "aborted", "erased"}

(***************************************************************************)
(* No two handles have the same address at the same time, and no two       *)
(* streams the same id, ever.                                              *)
(***************************************************************************)
HandlesDistinct ==
    /\ \A s \in Stream :
         /\ srv[s] \in Live => addr[s] \in Addr /\ states[addr[s]] \in StreamState
         /\ srv[s] \notin Live => addr[s] = None
         /\ srv[s] # "none" => sid[s] \in 1 .. nextId - 1
    /\ \A s, t \in Stream : s # t =>
         /\ addr[s] \in Addr => addr[t] # addr[s]
         /\ srv[s] # "none" /\ srv[t] # "none" => sid[t] # sid[s]

(***************************************************************************)
(* Where the parser of a stream that was not born within a packet is: it   *)
(* has delivered what it has read, but for the header it holds.            *)
(***************************************************************************)
ParserInStep ==
    \A s \in Stream : srv[s] = "up" /\ ~Cut(s) =>
        LET st == states[addr[s]] IN
        /\ st.stream_id = IF born[s] = None THEN sid[s] ELSE born[s].stream_id
        /\ IF st.held = None
             THEN read[s] = 2 * Len(got[s])
             ELSE read[s] = 2 * Len(got[s]) + 1 /\ st.held = Piece(s, 2 * Len(got[s]))

\* A stream that has not started has delivered nothing.
NothingBefore == \A s \in Stream : srv[s] = "none" => read[s] = 0 /\ got[s] = << >>

\* The inductive invariant.
IInv == /\ TypeOK
        /\ Counters
        /\ HandlesDistinct
        /\ TableExact
        /\ ParserInStep
        /\ NothingBefore
        /\ WholeUnlessCut

(***************************************************************************)
(* The pieces of a stream alternate between headers and payloads, and are  *)
(* never confused with None or with a refused header.                      *)
(***************************************************************************)
LEMMA PieceFacts ==
    ASSUME NEW s \in Stream, NEW k \in Nat
    PROVE  /\ Piece(s, k) \in Pieces
           /\ Piece(s, k).part = "payload" <=> k % 2 = 1
           /\ Piece(s, k) # None /\ Piece(s, k) # Absurd
<1>1. k \div 2 + 1 \in Nat
    OBVIOUS
<1>2. Piece(s, k) \in Pieces
    BY <1>1 DEF Piece, Pieces
<1>3. Piece(s, k).part = "payload" <=> k % 2 = 1
    BY DEF Piece
<1>4. Piece(s, k).stream = s /\ Absurd.stream = 0 /\ s # 0
    BY StreamsAssumption DEF Piece, Absurd
<1> QED
    BY <1>2, <1>3, <1>4, NoneAssumption

(***************************************************************************)
(* Nothing has started.                                                    *)
(***************************************************************************)
LEMMA InitIInv == Init => IInv
<1> SUFFICES ASSUME Init PROVE IInv
    OBVIOUS
<1> USE StreamsAssumption
<1>1. TypeOK
    BY DEF Init, TypeOK, ServerSide
<1> QED
    BY <1>1
       DEF Init, IInv, Counters, HandlesDistinct, TableExact, ParserInStep,
           NothingBefore, WholeUnlessCut, Live

(***************************************************************************)
(* What a client does changes nothing at the server.                       *)
(***************************************************************************)
LEMMA ClientKeeps ==
    ASSUME IInv,
           \/ \E s \in Stream : \/ OpenStream(s) \/ SendPacket(s)
                                \/ CloseStream(s) \/ DropStream(s)
           \/ \E c \in Conn : LoseConnection(c)
           \/ UNCHANGED vars
    PROVE  IInv'
<1> USE DEF IInv
<1>1. UNCHANGED server
    BY DEF OpenStream, SendPacket, CloseStream, DropStream, LoseConnection, vars
<1>2. TypeOK' /\ Counters'
  <2>1. /\ up' \subseteq Conn
        /\ life' \in [Stream -> {"none", "open", "closed", "dropped"}]
    BY DEF OpenStream, SendPacket, CloseStream, DropStream, LoseConnection, vars, client,
           TypeOK
  <2>2. /\ sent' \in [Stream -> Nat]
        /\ \A s \in Stream : sent'[s] \in 0 .. Packets[s] /\ sent[s] <= sent'[s]
    <3>1. \/ sent' = sent
          \/ \E s \in Stream : sent[s] < Packets[s] /\ sent' = [sent EXCEPT ![s] = @ + 1]
      BY DEF OpenStream, SendPacket, CloseStream, DropStream, LoseConnection, vars, client
    <3>2. CASE sent' = sent
      BY <3>2 DEF TypeOK, Counters
    <3>3. CASE \E s \in Stream : sent[s] < Packets[s] /\ sent' = [sent EXCEPT ![s] = @ + 1]
      <4>1. PICK s \in Stream : sent[s] < Packets[s] /\ sent' = [sent EXCEPT ![s] = @ + 1]
        BY <3>3
      <4>2. sent \in [Stream -> Nat] /\ Packets \in [Stream -> Nat]
        BY StreamsAssumption DEF Counters
      <4>3. sent' \in [Stream -> Nat] /\ \A t \in Stream : sent[t] <= sent'[t]
        BY <4>1, <4>2
      <4>4. \A t \in Stream : sent'[t] \in 0 .. Packets[t]
        BY <4>1, <4>2 DEF TypeOK
      <4> QED
        BY <4>3, <4>4
    <3> QED
      BY <3>1, <3>2, <3>3
  <2>3. \A s \in Stream : read'[s] \in 0 .. 2 * sent'[s]
    BY <1>1, <2>2 DEF server, TypeOK, Counters
  <2> QED
    BY <1>1, <2>1, <2>2, <2>3 DEF server, TypeOK, Counters
<1>3. HandlesDistinct' /\ TableExact' /\ ParserInStep' /\ NothingBefore' /\ WholeUnlessCut'
    BY <1>1
       DEF server, HandlesDistinct, TableExact, ParserInStep, NothingBefore,
           WholeUnlessCut, Cut
<1> QED
    BY <1>2, <1>3

(***************************************************************************)
(* A stream that starts gets an address nobody has and an id nobody had.   *)
(***************************************************************************)
LEMMA StartKeeps ==
    ASSUME IInv, NEW s \in Stream, NEW a \in Addr, PeerStreamStarted(s, a)
    PROVE  IInv'
<1> USE StreamsAssumption DEF IInv
<1>1. /\ srv[s] = "none" /\ srv' = [srv EXCEPT ![s] = "up"]
      /\ addr' = [addr EXCEPT ![s] = a] /\ \A t \in Stream : addr[t] # a
      /\ sid' = [sid EXCEPT ![s] = nextId]
      /\ born' = [born EXCEPT ![s] = states[a]]
      /\ nextId \in Nat \ {0} /\ nextId' = nextId + 1
      /\ UNCHANGED <<up, life, sent, read, got>>
    BY DEF PeerStreamStarted, AtAddress, MayStart, client, TypeOK
<1>2. /\ DOMAIN streams' = DOMAIN streams \cup {nextId}
      /\ nextId \notin DOMAIN streams /\ streams'[nextId] = a
      /\ \A i \in DOMAIN streams : streams'[i] = streams[i]
    BY DEF PeerStreamStarted, AtAddress, TypeOK
<1>3. /\ states' = [states EXCEPT ![a] = IF @ = None THEN NewState(nextId) ELSE @]
      /\ NewState(nextId) \in StreamState
    BY <1>1 DEF PeerStreamStarted, NewState, StreamState
<1>4. states' \in [Addr -> StreamState \cup {None}] /\ states'[a] \in StreamState
    BY <1>3 DEF TypeOK
<1>5. TypeOK' /\ Counters'
  <2>1. srv' \in [Stream -> ServerSide] /\ addr' \in [Stream -> Addr \cup {None}]
    BY <1>1 DEF TypeOK, ServerSide
  <2>2. /\ sid' \in [Stream -> Nat] /\ born' \in [Stream -> StreamState \cup {None}]
        /\ nextId' \in Nat \ {0}
    BY <1>1 DEF TypeOK
  <2>3. /\ DOMAIN streams' \subseteq 1 .. nextId' - 1
        /\ \A i \in DOMAIN streams' : streams'[i] \in Addr
    BY <1>1, <1>2 DEF TypeOK
  <2> QED
    BY <1>1, <1>4, <2>1, <2>2, <2>3 DEF TypeOK, Counters
<1>6. HandlesDistinct'
    BY <1>1, <1>3, <1>4 DEF HandlesDistinct, TypeOK, Live
<1>7. TableExact'
  <2>1. \A t \in Stream : t # s => srv'[t] = srv[t] /\ sid'[t] = sid[t] /\ addr'[t] = addr[t]
    BY <1>1 DEF TypeOK
  <2>2. srv'[s] = "up" /\ sid'[s] = nextId /\ addr'[s] = a
    BY <1>1 DEF TypeOK
  <2>3. \A t \in Stream : srv[t] \in {"up", "aborted"}
                          => sid[t] \in DOMAIN streams /\ streams[sid[t]] = addr[t]
    BY DEF TableExact
  <2>4. DOMAIN streams' = {sid'[t] : t \in {u \in Stream : srv'[u] \in {"up", "aborted"}}}
    BY <1>1, <1>2, <2>1, <2>2 DEF TableExact
  <2>5. \A t \in Stream : srv'[t] \in {"up", "aborted"} => streams'[sid'[t]] = addr'[t]
    BY <1>2, <2>1, <2>2, <2>3
  <2> QED
    BY <2>4, <2>5 DEF TableExact
<1>8. ParserInStep'
  <2> SUFFICES ASSUME NEW t \in Stream, (srv[t] = "up" /\ ~Cut(t))'
               PROVE  LET st == states'[addr'[t]] IN
                      /\ st.stream_id = IF born'[t] = None THEN sid'[t]
                                        ELSE born'[t].stream_id
                      /\ IF st.held = None
                           THEN read'[t] = 2 * Len(got'[t])
                           ELSE read'[t] = 2 * Len(got'[t]) + 1
                                  /\ st.held = Piece(t, 2 * Len(got'[t]))
    BY DEF ParserInStep
  <2>1. CASE t = s
    <3>1. born'[s] = states[a] /\ addr'[s] = a /\ sid'[s] = nextId
      BY <1>1 DEF TypeOK
    <3>2. read'[s] = 0 /\ Len(got'[s]) = 0
      BY <1>1 DEF NothingBefore
    <3>3. CASE states[a] = None
      BY <1>3, <2>1, <3>1, <3>2, <3>3 DEF NewState, TypeOK
    <3>4. CASE states[a] # None
      BY <1>3, <2>1, <3>1, <3>2, <3>4 DEF Cut, TypeOK
    <3> QED
      BY <3>3, <3>4
  <2>2. CASE t # s
    <3>1. addr'[t] = addr[t] /\ born'[t] = born[t] /\ sid'[t] = sid[t] /\ srv[t] = "up"
      BY <1>1, <2>2 DEF TypeOK
    <3>2. addr[t] \in Addr /\ addr[t] # a
      BY <1>1, <3>1 DEF HandlesDistinct, Live
    <3> QED
      BY <1>1, <1>3, <3>1, <3>2 DEF ParserInStep, Cut, TypeOK
  <2> QED
    BY <2>1, <2>2
<1>9. NothingBefore'
    BY <1>1 DEF NothingBefore, TypeOK
<1>10. WholeUnlessCut'
  <2> SUFFICES ASSUME NEW t \in Stream, ~Cut(t)', NEW n \in DOMAIN got'[t]
               PROVE  /\ got'[t][n].header = Piece(t, 2 * n - 2)
                      /\ got'[t][n].payload = Piece(t, 2 * n - 1)
                      /\ got'[t][n].stream_id =
                           IF born'[t] = None THEN sid'[t] ELSE born'[t].stream_id
    BY DEF WholeUnlessCut
  <2>1. t # s
    BY <1>1 DEF NothingBefore
  <2>2. born'[t] = born[t] /\ sid'[t] = sid[t]
    BY <1>1, <2>1 DEF TypeOK
  <2> QED
    BY <1>1, <2>2 DEF WholeUnlessCut, Cut
<1> QED
    BY <1>5, <1>6, <1>7, <1>8, <1>9, <1>10

(***************************************************************************)
(* RECEIVE: the parser takes the next piece of its stream, and touches no  *)
(* state but that of its own address.                                      *)
(***************************************************************************)
LEMMA ReceiveKeeps ==
    ASSUME IInv, NEW s \in Stream, Receive(s)
    PROVE  IInv'
<1> USE StreamsAssumption DEF IInv
<1> DEFINE a == addr[s]
           st == states[a]
           p == Piece(s, read[s])
<1>1. /\ srv[s] = "up" /\ read[s] < 2 * sent[s] /\ read' = [read EXCEPT ![s] = @ + 1]
      /\ a \in Addr /\ st \in StreamState /\ read[s] \in Nat
      /\ \A t \in Stream : t # s => addr[t] # a
      /\ UNCHANGED <<up, life, sent, addr, sid, born, streams, nextId>>
    BY DEF Receive, client, HandlesDistinct, Live, Counters
<1>2. ReadHeader(s, p) \/ ReadPayload(s, p) \/ RefuseLength(s)
    BY DEF Receive
<1>3. /\ \A t \in Stream : t # s => srv'[t] = srv[t] /\ got'[t] = got[t]
      /\ srv' \in [Stream -> ServerSide] /\ srv'[s] \in {"up", "aborted"}
    BY <1>1, <1>2 DEF ReadHeader, ReadPayload, RefuseLength, TypeOK, ServerSide
<1>4. p \in Pieces /\ p # None /\ p # Absurd /\ (p.part = "payload" <=> read[s] % 2 = 1)
    BY <1>1, PieceFacts
<1>5. \E h \in Pieces \cup {None, Absurd} : states' = [states EXCEPT ![a].held = h]
  <2>1. CASE ReadHeader(s, p)
    BY <1>4, <2>1 DEF ReadHeader, Hold
  <2>2. CASE ReadPayload(s, p)
    BY <2>2 DEF ReadPayload, Hold
  <2>3. CASE RefuseLength(s)
    <3>1. st.held \in Pieces \cup {None, Absurd} /\ states' = states
      BY <1>1, <2>3 DEF RefuseLength, StreamState
    <3>2. states = [states EXCEPT ![a].held = st.held]
      BY <1>1 DEF StreamState, TypeOK
    <3> QED
      BY <3>1, <3>2
  <2> QED
    BY <1>2, <2>1, <2>2, <2>3
<1>6. /\ states' \in [Addr -> StreamState \cup {None}] /\ states'[a] \in StreamState
      /\ states'[a].stream_id = st.stream_id
      /\ \A b \in Addr : b # a => states'[b] = states[b]
  <2>1. PICK h \in Pieces \cup {None, Absurd} : states' = [states EXCEPT ![a].held = h]
    BY <1>5
  <2>2. [st EXCEPT !.held = h] \in StreamState /\ [st EXCEPT !.held = h].stream_id = st.stream_id
    BY <1>1 DEF StreamState
  <2> QED
    BY <1>1, <2>1, <2>2 DEF TypeOK
<1>7. st.stream_id \in Nat
    BY <1>1 DEF StreamState
<1>8. got' \in [Stream -> Seq(Delivery)]
  <2>1. CASE ReadPayload(s, p)
    <3> DEFINE d == [stream_id |-> st.stream_id, header |-> st.held, payload |-> p]
    <3>1. d \in Delivery
      BY <1>4, <1>7, <2>1 DEF ReadPayload, Delivery
    <3>2. Append(got[s], d) \in Seq(Delivery)
      BY <3>1 DEF TypeOK
    <3> QED
      BY <2>1, <3>2 DEF ReadPayload, TypeOK
  <2> QED
    BY <1>2, <2>1 DEF ReadHeader, RefuseLength, TypeOK
<1>9. TypeOK' /\ Counters'
  <2>1. read' \in [Stream -> Nat] /\ \A t \in Stream : read'[t] \in 0 .. 2 * sent[t]
    BY <1>1 DEF TypeOK, Counters
  <2> QED
    BY <1>1, <1>3, <1>6, <1>8, <2>1 DEF TypeOK, Counters
<1>10. HandlesDistinct'
    BY <1>1, <1>3, <1>6 DEF HandlesDistinct, Live
<1>11. TableExact'
    BY <1>1, <1>3 DEF TableExact
<1>12. NothingBefore'
    BY <1>1, <1>3 DEF NothingBefore, Counters
<1>13. \A t \in Stream : Cut(t)' <=> Cut(t)
    BY <1>1 DEF Cut
<1>14. ASSUME ~Cut(s)
       PROVE  IF st.held = None
                THEN /\ srv'[s] = "up" /\ states'[a].held = p /\ got'[s] = got[s]
                     /\ read[s] = 2 * Len(got[s])
                ELSE /\ srv'[s] = "up" /\ states'[a].held = None
                     /\ got'[s] = Append(got[s], [stream_id |-> st.stream_id,
                                                  header    |-> Piece(s, 2 * Len(got[s])),
                                                  payload   |-> p])
                     /\ read[s] = 2 * Len(got[s]) + 1
  <2>1. Len(got[s]) \in Nat
    BY DEF TypeOK
  <2>2. IF st.held = None
          THEN read[s] = 2 * Len(got[s])
          ELSE read[s] = 2 * Len(got[s]) + 1 /\ st.held = Piece(s, 2 * Len(got[s]))
    BY <1>1, <1>14 DEF ParserInStep
  <2>3. CASE st.held = None
    <3>1. p.part # "payload"
      BY <1>4, <2>1, <2>2, <2>3
    <3>2. ReadHeader(s, p) /\ Hold(s, p) /\ srv' = srv
      BY <1>2, <2>3, <3>1, NoneAssumption DEF ReadHeader, ReadPayload, RefuseLength, Absurd
    <3> QED
      BY <1>1, <2>2, <2>3, <3>2 DEF ReadHeader, Hold, TypeOK, StreamState
  <2>4. CASE st.held # None
    <3>1. st.held \in Pieces /\ st.held # Absurd
      BY <2>1, <2>2, <2>4, PieceFacts
    <3>2. ReadPayload(s, p)
      BY <1>2, <2>4, <3>1 DEF ReadHeader, RefuseLength
    <3> QED
      BY <1>1, <2>2, <2>4, <3>2 DEF ReadPayload, Hold, TypeOK, StreamState
  <2> QED
    BY <2>3, <2>4
<1>15. ParserInStep'
  <2> SUFFICES ASSUME NEW t \in Stream, (srv[t] = "up" /\ ~Cut(t))'
               PROVE  LET u == states'[addr'[t]] IN
                      /\ u.stream_id = IF born'[t] = None THEN sid'[t]
                                       ELSE born'[t].stream_id
                      /\ IF u.held = None
                           THEN read'[t] = 2 * Len(got'[t])
                           ELSE read'[t] = 2 * Len(got'[t]) + 1
                                  /\ u.held = Piece(t, 2 * Len(got'[t]))
    BY DEF ParserInStep
  <2>1. CASE t = s
    <3>1. ~Cut(s)
      BY <1>13, <2>1
    <3>2. st.stream_id = IF born[s] = None THEN sid[s] ELSE born[s].stream_id
      BY <1>1, <3>1 DEF ParserInStep
    <3>3. read'[s] = read[s] + 1 /\ addr'[s] = a
      BY <1>1 DEF TypeOK, Counters
    <3>4. CASE st.held = None
      <4>1. /\ states'[a].held = p /\ got'[s] = got[s] /\ read[s] = 2 * Len(got[s])
        BY <1>14, <3>1, <3>4
      <4> QED
        BY <1>1, <1>4, <1>6, <2>1, <3>2, <3>3, <4>1
    <3>5. CASE st.held # None
      <4>1. /\ states'[a].held = None /\ read[s] = 2 * Len(got[s]) + 1
            /\ got'[s] = Append(got[s], [stream_id |-> st.stream_id,
                                         header    |-> Piece(s, 2 * Len(got[s])),
                                         payload   |-> p])
        BY <1>14, <3>1, <3>5
      <4>2. Len(got'[s]) = Len(got[s]) + 1 /\ Len(got[s]) \in Nat
        BY <4>1 DEF TypeOK
      <4> QED
        BY <1>1, <1>6, <2>1, <3>2, <3>3, <4>1, <4>2
    <3> QED
      BY <3>4, <3>5
  <2>2. CASE t # s
    <3>1. /\ srv[t] = "up" /\ ~Cut(t) /\ addr[t] \in Addr /\ addr[t] # a
          /\ got'[t] = got[t] /\ read'[t] = read[t] /\ states'[addr[t]] = states[addr[t]]
      BY <1>1, <1>3, <1>6, <1>13, <2>2 DEF HandlesDistinct, Live, Counters
    <3> QED
      BY <1>1, <3>1 DEF ParserInStep
  <2> QED
    BY <2>1, <2>2
<1>16. WholeUnlessCut'
  <2> SUFFICES ASSUME NEW t \in Stream, ~Cut(t)', NEW n \in DOMAIN got'[t]
               PROVE  /\ got'[t][n].header = Piece(t, 2 * n - 2)
                      /\ got'[t][n].payload = Piece(t, 2 * n - 1)
                      /\ got'[t][n].stream_id =
                           IF born'[t] = None THEN sid'[t] ELSE born'[t].stream_id
    BY DEF WholeUnlessCut
  <2>1. ~Cut(t)
    BY <1>13
  <2>2. CASE got'[t] = got[t]
    BY <1>1, <2>1, <2>2 DEF WholeUnlessCut
  <2>3. CASE got'[t] # got[t]
    <3>1. t = s /\ st.held # None
      BY <1>3, <1>14, <2>1, <2>3
    <3>2. /\ read[s] = 2 * Len(got[s]) + 1
          /\ got'[s] = Append(got[s], [stream_id |-> st.stream_id,
                                       header    |-> Piece(s, 2 * Len(got[s])),
                                       payload   |-> p])
      BY <1>14, <2>1, <3>1
    <3>3. st.stream_id = IF born[s] = None THEN sid[s] ELSE born[s].stream_id
      BY <1>1, <2>1, <3>1 DEF ParserInStep
    <3>4. CASE n \in DOMAIN got[s]
      <4>1. got'[s][n] = got[s][n]
        BY <3>2, <3>4 DEF TypeOK
      <4> QED
        BY <1>1, <2>1, <3>1, <3>4, <4>1 DEF WholeUnlessCut
    <3>5. CASE n \notin DOMAIN got[s]
      <4> DEFINE d == [stream_id |-> st.stream_id,
                       header    |-> Piece(s, 2 * Len(got[s])),
                       payload   |-> p]
      <4>1. n = Len(got[s]) + 1 /\ Len(got[s]) \in Nat /\ got'[s][n] = d
        BY <3>1, <3>2, <3>5 DEF TypeOK
      <4>2. 2 * Len(got[s]) = 2 * n - 2 /\ read[s] = 2 * n - 1
        BY <3>2, <4>1
      <4>3. d.header = Piece(s, 2 * n - 2) /\ d.payload = Piece(s, 2 * n - 1)
        BY <4>2
      <4> QED
        BY <1>1, <3>1, <3>3, <4>1, <4>3
    <3> QED
      BY <3>4, <3>5
  <2> QED
    BY <2>2, <2>3
<1> QED
    BY <1>9, <1>10, <1>11, <1>12, <1>15, <1>16

(***************************************************************************)
(* SHUTDOWN_COMPLETE: the entry with the stream's handle is the stream's   *)
(* own.                                                                    *)
(***************************************************************************)
LEMMA EraseKeeps ==
    ASSUME IInv, NEW s \in Stream, EraseStream(s)
    PROVE  IInv'
<1> USE StreamsAssumption DEF IInv
<1>1. PICK i \in DOMAIN streams :
         /\ streams[i] = addr[s]
         /\ streams' = [j \in DOMAIN streams \ {i} |-> streams[j]]
    BY DEF EraseStream
<1>2. /\ srv[s] \in {"up", "aborted"} /\ srv' = [srv EXCEPT ![s] = "erased"]
      /\ UNCHANGED <<up, life, sent, addr, sid, born, read, got, states, nextId>>
    BY DEF EraseStream, Ended, client
<1>3. /\ DOMAIN streams = {sid[t] : t \in {u \in Stream : srv[u] \in {"up", "aborted"}}}
      /\ \A t \in Stream : srv[t] \in {"up", "aborted"} => streams[sid[t]] = addr[t]
    BY DEF TableExact
<1>4. i = sid[s]
  <2>1. PICK t \in Stream : srv[t] \in {"up", "aborted"} /\ sid[t] = i
    BY <1>1, <1>3
  <2>2. addr[t] = addr[s]
    BY <1>1, <1>3, <2>1
  <2> QED
    BY <1>2, <2>1, <2>2 DEF HandlesDistinct, Live
<1>5. \A t \in Stream : t # s => srv'[t] = srv[t]
    BY <1>2
<1>6. srv'[s] = "erased" /\ srv' \in [Stream -> ServerSide]
    BY <1>2 DEF TypeOK, ServerSide
<1>7. TypeOK' /\ Counters'
    BY <1>1, <1>2, <1>6 DEF TypeOK, Counters
<1>8. HandlesDistinct'
    BY <1>2, <1>5, <1>6 DEF HandlesDistinct, Live
<1>9. TableExact'
  <2>1. \A t \in Stream : t # s /\ srv[t] \in {"up", "aborted"} => sid[t] # sid[s]
    BY <1>2 DEF HandlesDistinct, Live, TypeOK
  <2> QED
    BY <1>1, <1>2, <1>3, <1>4, <1>5, <1>6, <2>1 DEF TableExact
<1>10. ParserInStep' /\ NothingBefore' /\ WholeUnlessCut'
    BY <1>2, <1>5, <1>6 DEF ParserInStep, NothingBefore, WholeUnlessCut, Cut
<1> QED
    BY <1>7, <1>8, <1>9, <1>10

(***************************************************************************)
(* StreamClose: the address is free again.                                 *)
(***************************************************************************)
LEMMA CloseKeeps ==
    ASSUME IInv, NEW s \in Stream, StreamClose(s)
    PROVE  IInv'
<1> USE StreamsAssumption DEF IInv
<1>1. /\ srv[s] = "erased" /\ srv' = [srv EXCEPT ![s] = "closed"]
      /\ addr' = [addr EXCEPT ![s] = None]
      /\ UNCHANGED <<up, life, sent, sid, born, read, got, streams, states, nextId>>
    BY DEF StreamClose, client
<1>2. /\ \A t \in Stream : t # s => srv'[t] = srv[t] /\ addr'[t] = addr[t]
      /\ srv'[s] = "closed" /\ addr'[s] = None
      /\ srv' \in [Stream -> ServerSide] /\ addr' \in [Stream -> Addr \cup {None}]
    BY <1>1 DEF TypeOK, ServerSide
<1>3. TypeOK' /\ Counters'
    BY <1>1, <1>2 DEF TypeOK, Counters
<1>4. HandlesDistinct'
    BY <1>1, <1>2 DEF HandlesDistinct, Live
<1>5. TableExact'
    BY <1>1, <1>2 DEF TableExact
<1>6. ParserInStep' /\ NothingBefore' /\ WholeUnlessCut'
    BY <1>1, <1>2 DEF ParserInStep, NothingBefore, WholeUnlessCut, Cut
<1> QED
    BY <1>3, <1>4, <1>5, <1>6

(***************************************************************************)
(* Every step keeps the inductive invariant, which therefore holds always. *)
(***************************************************************************)
LEMMA NextIInv == IInv /\ [Next]_vars => IInv'
<1> SUFFICES ASSUME IInv, [Next]_vars PROVE IInv'
    OBVIOUS
<1>1. CASE \E s \in Stream, a \in Addr : PeerStreamStarted(s, a)
    BY <1>1, StartKeeps
<1>2. CASE \E s \in Stream : Receive(s)
    BY <1>2, ReceiveKeeps
<1>3. CASE \E s \in Stream : EraseStream(s)
    BY <1>3, EraseKeeps
<1>4. CASE \E s \in Stream : StreamClose(s)
    BY <1>4, CloseKeeps
<1> QED
    BY <1>1, <1>2, <1>3, <1>4, ClientKeeps DEF Next, ServerStep

LEMMA Invariance == Spec => []IInv
<1>1. Init => IInv
    BY InitIInv
<1>2. IInv /\ [Next]_vars => IInv'
    BY NextIInv
<1> QED
    BY <1>1, <1>2, PTL DEF Spec

(***************************************************************************)
(* Every table of the server and every stream of a client has its type,    *)
(* for any number of streams, connections and addresses.                   *)
(***************************************************************************)
THEOREM StreamsTypeCorrect == Spec => []TypeOK
<1>1. IInv => TypeOK
    BY DEF IInv
<1> QED
    BY <1>1, Invariance, PTL

(***************************************************************************)
(* streams_ has exactly the streams that are up, each under the id it was  *)
(* given and with its own handle, however often addresses are used again:  *)
(* SHUTDOWN_COMPLETE, which looks a handle up by its address, never takes  *)
(* out another stream's entry.                                             *)
(***************************************************************************)
THEOREM StreamTableIsExact == Spec => []TableExact
<1>1. IInv => TableExact
    BY DEF IInv
<1> QED
    BY <1>1, Invariance, PTL

(***************************************************************************)
(* recv_cb_ gets the packets of a stream whole and in order unless the     *)
(* stream before it at its address ended within one, and always under one  *)
(* id.                                                                     *)
(***************************************************************************)
THEOREM PacketsComeWhole == Spec => []WholeUnlessCut
<1>1. IInv => WholeUnlessCut
    BY DEF IInv
<1> QED
    BY <1>1, Invariance, PTL
=============================================================================
