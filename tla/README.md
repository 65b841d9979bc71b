# A TLA+ development for the QUIC media system

This directory models the parts of the repository that carry its protocol logic: the C++ library
`src/QUIC_media_sys` (a QUIC transport over MsQuic, packetizer, reassembler, two command-line
programs) and the Python programs of `src/python` that stream VVC sub-pictures live over it. It holds
one module per component, small instances for TLC, and machine-checked proofs: every invariant, every
action property and both refinements that TLC finds to hold are theorems for all values of the constants.

To check it: `tlc -config X.cfg M` for each pair below, `tlapm M.tla` for each of the eight `...Proofs`
modules (about half an hour in all, most of it for LiveSenderProofs, VvcDecoderProofs and
MediaPipeProofs).

## 1. The system

```
 live_streaming_client.py                            run_vvc_server_live_decode.py
   frame source, feature worker, gate thread           on_receive / on_stream_close   (MsQuic worker)
        | quic_connection.py, quic_media_py.cpp             |  PlaybackBuffer, lifecycle maps
        v                                                   v  playback thread -> VvcDecoder
   QuicMediaClient                                     QuicMediaServer
        |                                                   |
   MsQuicTransport (client side)  ==== QUIC ====>      MsQuicTransport (server side)
        ^                                                   v
   moq_client: parser, packetizer                      moq_server: Reassembler, sink
```

Two applications use the transport. `moq_client`/`moq_server` send a file of H.265 NALUs or AV1
frames, packetized, over a fixed number of streams, and write it again in order. The live client
sends VVC sub-pictures, one stream each, and INIT and CONFIG objects on a common stream; the
receiver plays a frame when all active sub-pictures of it have arrived. A third, `run_server.py`,
only logs what it receives.

### Components

| Component (source) | State it keeps | Operations | Talks to |
|---|---|---|---|
| Stream handles of the client transport (`msquic_transport.cpp`) | `streams_`, `closing_streams_`, `next_stream_id_`, `stream_ready_`, what MsQuic knows of each handle | `open_stream`, `close_stream`, `drop_stream`, `open_and_start_client_streams`, stream callbacks | MsQuic's worker thread; `mtx_` |
| Connection, locks and waits (same file, `quic_media_client.cpp`, `quic_media_py.cpp`) | `running_`, `connected_`, `mtx_`, condition variables, the GIL | `start_client`, `wait_connected`, `wait_stream_ready`, `open_stream`, `close_stream`, `drop_stream`, `send`, `set_stream_priority`, `get_network_stats`, `disconnect`, the destructor, all callbacks | Python, MsQuic's worker |
| Packetizer, framing, reassembly (`packetizer.cpp`, `handle_stream_bytes`, `reassembler.cpp`, `moq_client.cpp`) | send counters, per-stream parser state, `buffer_`, `expected_id_` | packetize, send loop, `wait_all_sends_done`, RECEIVE, `on_packet`, `flush_contiguous` | the file at both ends |
| Live receiver (`run_vvc_server_live_decode.py`, `playback_buffer.py`) | lifecycle maps and sets, `frames`, `next_frame`, `started` | `on_receive`, `on_stream_close`, the playback loop: drain, `pop_next_ready`, decode | MsQuic's worker calls it; the decoder |
| Server transport: life (`msquic_transport.cpp`, `quic_media_server.cpp`, `quic_media_py.cpp`) | listener, `client_connections_`, `running_`, `recv_cb_` and its mutex, the GIL | `start_server`, `set_recv_callback`, `run`, `stop_server`, the destructors, listener and connection callbacks | Python, one worker per connection |
| Server transport: streams (`msquic_transport.cpp`) | `streams_`, `stream_states_`, `next_stream_id_` | PEER_STREAM_STARTED, RECEIVE, SHUTDOWN_COMPLETE of a stream | the receiver or `moq_server` |
| Live source, sender gate, feature worker (`live_streaming_client*.py`) | `ReadyQueue`, the active object and its offset, `feature_queue`, two events | release a frame, push its objects, gate step, retry, three joins, closing the streams | the transport through `quic_connection.py` |
| VVC decoder wrapper (`vvc_decoder.py`) | codec per sub-picture, pending frame ids | `set_config`, `append_frame`, `flush_subpic` | called by two threads; PyAV |
| File parsers (`h265_parser.cpp`, `av1_parser.cpp`), choice of stream (`moq_client.cpp`) | none | `open`, `is_important` | the packetizer |
| VVC splitting (`lib/vvc_splitter.py`, `decode_received_subpics.py`) | none | parse, split into frames, put together again | the live source; offline |
| Sinks, scheduler; controller, features, log tools, data preparation, tests, ns-3, VTM | none that is shared | sequential code, offline tools, vendored code | |

### How they interact, and what is hard about it

* MsQuic has one worker thread per connection. It runs all callbacks, and also every `GetParam` and
  `SetParam`, for which the calling thread waits. Callbacks take `mtx_` and, through the Python
  binding, the GIL. Who waits for whom is the subject of `ClientSession`.
* A stream handle is used by application threads, detached by whichever of `close_stream`,
  `drop_stream` and the callbacks comes first, and closed by a callback outside the lock. Exactly-once
  closing, under every interleaving, is the subject of `StreamTable`.
* QUIC orders the bytes of one stream and nothing across streams; RECEIVE events cut bytes anywhere.
  What survives between two events, and what the Reassembler makes of units that arrive out of order,
  is the subject of `MediaPipe`.
* The live receiver has two threads, several locks and a loop that looks at a state under one lock and
  acts on it under another, while sub-pictures end and come back. That is `PlaybackReceiver`.
* The live client cuts each object into chunks as the congestion window allows, and tries a refused one
  again; three threads end by two events, two queues and three joins. That is `LiveSender`.
* The decoder wrapper matches pictures to frame ids by counting: ids wait in a deque for pictures that
  the codec delays, loses or drops, while another thread may create a codec. That is `VvcDecoder`.
* The server has a worker for each connection, and all of them call one Python function under one lock
  and the GIL, while the owner clears that function, stops and destroys the server. That is
  `ServerSession`. Streams of several clients share two tables, one keyed by ids, the other by handle
  addresses that MsQuic uses again. That is `ServerStreams`.
* Failures: a refused start of a connection or a stream, a handshake that fails, a connection lost at
  any point, a canceled send, a stream dropped after any number of its packets, a program run again
  against a server that goes on.

What makes each component correct: a handle has one owner and is closed once, and an id means one stream
for ever (stream handles); waits end, calls return but in known cases, and no call runs beside the callback
that fills `streams_` (connection); the written file has every unit whole, once and in order, and becomes
all of it (pipeline); what is ready is played, what is drained leaves nothing behind, and playback stops
only in known ways (live receiver); a stream gets its objects whole, in order and once, whatever is
retried, and the video ends (sender); a picture comes out with the id of the frame it belongs to, and no id
survives its codec (decoder); nothing is in Python once the callback is cleared, no freed connection is
touched, and the server ends (server); each stream delivers its own packets whole, under its own id (server
streams); units cover the file, and frames the bitstream (parsers, splitter). PROJECT.json lists the
hazards line by line, with the properties that cover each.

## 2. Modules

| Module | What it is |
|---|---|
| `StreamLifecycle` | abstract: what the transport promises of a stream, from unused to released |
| `StreamTable` | the transport's stream table, three handles to any number of them |
| `ClientSession` | connection, locks and waits of the client |
| `OrderedDelivery` | abstract: what the media pipeline promises to the file |
| `MediaPipe` | packetizer, stream bytes, parser, Reassembler |
| `PlaybackReceiver` | the live receiver |
| `LiveSender` | the live client's source, gate and feature worker |
| `VvcDecoder` | the decoder wrapper under its two threads |
| `ServerSession` | the server from start to destruction: who waits for whom |
| `ServerStreams` | the server's stream tables and parser states |
| `AnnexB`, `IvfFile` | functions: the file parsers, the choice of a stream |
| `VvcSplitter` | functions: bitstream to frames and back |
| `MC...` | instances: small sets, no definition of the model replaced |
| `StreamTableProofs`, `ClientSessionProofs`, `MediaPipeProofs`, `PlaybackReceiverProofs`, `LiveSenderProofs`, `VvcDecoderProofs`, `ServerSessionProofs`, `ServerStreamsProofs` | the inductive invariant of the module they are named after, its theorems and their proofs |

**StreamTable.** A critical section under `mtx_` is one step, and so is each MsQuic call outside it.
`open_stream` is `OpenStream`, `StartStream`, `Register` (lines 478-506); `drop_stream` is `DropStream`
and, after the lock, `AbortStream`; `close_stream` is one step, its `StreamShutdown` being under the
lock. A callback that closes a handle detaches it under `mtx_` (`StartFailed`, `ShutdownComplete`) and
calls `StreamClose` in a second step (`CloseVictim`), with any application step in between. MsQuic is
modelled from how the code uses it, as `quic[h]`: the contract is that a stream whose start failed gets
no further event, and a started one gets SHUTDOWN_COMPLETE once both directions are closed, which an
abort or the loss of the connection brings about and a graceful close of the sending direction alone
does not. `StreamLifecycle` is the abstraction; the refinement mapping is `Phase`.

**ClientSession.** Two programs use the client, and the variable `program` says which it is. The Python
client goes through the binding: there is a GIL and an acknowledgement callback, `num_streams` keeps its
default 0 (`quic_transport.hpp:69`; `quic_media_client.cpp:20-34` does not set it), `wait_stream_ready`
returns at once, and streams are opened by `open_stream`. `moq_client` has `NumStreams` configured streams
and no GIL; it has one thread where the model lets it have as many as the other.
`start_client` is split where the callbacks may run: after `ConnectionStart`, before `running_` and before
`connected_` is stored. `mtx` and `gil` are variables because `set_stream_priority` and `disconnect(false)`
block while they hold them; every other critical section is one step guarded by `mtx = None`. A callback
is split at each point at which it waits for a lock: after CONNECTED's store and before its notify, in a
failed START_COMPLETE, twice in a stream's SHUTDOWN_COMPLETE, in the acknowledgement callback, at the end
of the connection. `OpenStreams` starts all configured streams, or those before the first that MsQuic
refuses; the caller ignores which (line 741), and the first START_COMPLETE makes the client usable anyway.
Each handle has its state here too, without its id, because the destructor waits for the last one: a
handle nobody closes hangs it. `Destroy` is the last reference to the client going away: in Python
`~MsQuicTransport` runs with the GIL held and waits in `ConnectionClose` for the worker, which may be in
the acknowledgement callback unless `disconnect` has cleared it (`ForgetAckCallback`).

**MediaPipe.** A stream is a set of packets, each with the offset at which it starts; a payload is its
place (unit, fragment), never bytes. `Receive` hands over any number of bytes, `ReadHeader` and
`ReadPayload` are the two halves of the loop of `handle_stream_bytes`, `OnPacket` is
`Reassembler::on_packet`, `Flush` one iteration of `flush_contiguous`. `send` takes no fragment of more
than `SendLimit` bytes (1 MB; `--chunksize` may ask for more): moq_client then returns, and its connection
ends, as after a loss (`SendFails`). The 16-bit counters wrap at `CountMod`. A header read where none
starts would be `None` and stop TLC, so that misalignment cannot hide. `RunAgain` is moq_client started
again for the same file after it has ended in any way: streams, parsers and counters are new, while the
server's Reassembler goes on with what it has. `OrderedDelivery` is the abstraction: units handed over,
units written.

**PlaybackReceiver.** One step per critical section: `on_receive` is `Activate` (lifecycle lock) and
`Push` (buffer lock); a round of the loop is `BeginDrain`, `CheckPending` and `Drop` per closing
stream, `Expect`, `FindReady` or `FindNothing`, `PopFrame`, `Advance` (which takes no lock), `Decode`.
The decoder appears as far as the two threads can be ended by it: `codecs` is which sub-pictures have a
codec, which a CONFIG makes on MsQuic's thread (`ReceiveConfig`, `MakeCodec`, `FeedConfig`), `Decode` on
the playback thread, and a drain deletes. An exception ends the thread that meets it: in `FeedConfig` that
of MsQuic, after which nothing is received; in `FlushRaises` the playback thread, whose `flush_subpic` has
no `try` around it, with the stream still in `closing_streams_`; in `DecodeRaises` the same one, when the
CONFIG is missing, does not feed, or `set_config` makes the codec at the same time and pops it on failing.
When a codec raises is left open.
The order of INIT, CONFIG and the media streams is free, as they travel on different streams. The
callers of `on_stream_close` live in the compiled binding (`set_stream_close_callback`), which is newer
than the C++ headers in the repository; the model takes from its use that it comes on the same worker,
after the last packet of the stream, at any point of it if the stream was dropped. The clock is not
modelled: a started playback finds its next frame due, or not yet.

**LiveSender.** `src`, `gate` and `worker` say where each thread is. A byte is its object's number in the
stream and its offset there, and `wire[s]` is what has been given to `send_raw`. INIT goes out with a
CONFIG for each sub-picture that has one (`NumConfigs`). A frame is released by `ReleaseFrame`, which puts
the feature job; `BuildObject` is one sub-picture of the loop of `build_frame_objects`, and `PushFrame`
gives the queue the objects of the frame together. A chunk is what is left of the object or of the window,
whichever is smaller. The window's room is any number up to `MaxBudget`, or none. `send_raw` is modelled
from its use: it takes the chunk or refuses it, always refuses it after `LoseConnection`, and the gate
tries it again from the same offset. Timed waits only decide how soon a loop comes round, and are left out.
What may raise does: `build_frame_objects` in the source (`SourceRaises`) and the extraction of features
(`WorkerRaises`, after which the job is never marked done).

**VvcDecoder.** All state of the wrapper is kept by sub-picture, so that the model is of one. A step is
one access to a dictionary or a deque, or one use of the codec; `net` is the thread of `set_config`,
`play` that of `append_frame` and `flush_subpic`, and both run `_new_codec`. The codec is PyAV's: the
parser holds at most one picture, until the next begins; the decoder delays up to `Delay`; any packet
may be an error, and what packets before it had yielded in the same call is then dropped, as the
exception leaves the list behind. Reordering of pictures by the decoder, and two threads inside one codec
at the same moment, are left out. `upset` is a history variable that records what has gone wrong so far.

**ServerSession.** `pc[Owner]` follows what both Python servers do: set the callback, serve until Ctrl+C,
`set_recv_callback(None)`, `stop_server`, destruction; `wpc[c]` is where the worker of connection `c` is
in a callback. `gil` and `recvMtx` are variables because they are held across waits; `mtx_` never is, so
that its critical sections are single steps. `stop_server` is `ListenerStop`, `ShutdownClients` and
`ForgetCallback`; the destructor is `TakeConnections`, one `CloseConnection` per handle it took,
`ListenerClose`, which waits for a NEW_CONNECTION in progress, as `ListenerStop` does not, and
`RegistrationClose`, which MsQuic lets return when no connection of the registration is open.

**ServerStreams.** `addr[s]` is the address of the handle MsQuic gives stream `s`, `streams_` maps ids to
addresses, `stream_states_` addresses to a parser state that is never erased. SHUTDOWN_COMPLETE is
`EraseStream` and, after the lock, `StreamClose`, which frees the address. A packet is two pieces,
header and payload: `Receive` gives the parser the next piece, and an abort or a lost connection may come
between the two. A client's stream starts only while fewer than `Limit` of its streams are at the
server, as the server closes its direction of none. `born[s]` is a history variable: what
`stream_states_` held for the address when `s` started.

**AnnexB, IvfFile, VvcSplitter** have no state; they are recursive functions over a sequence of bytes
or NALUs, and their properties are assumptions of the MC modules that TLC evaluates (section 3). They
give `MediaPipe` the sizes of its units and `LiveSender` the objects it sends.

## 3. Runs

| Run | Question | Result |
|---|---|---|
| `stream_table` (MCStreamTable.cfg) | Two threads, the worker, three handles, one configured stream: one owner per handle, no freed handle in a table, callbacks close only finished handles, ids are never rebound, doomed streams are freed, `StreamLifecycle` is implemented | holds |
| `failed_start` | Is a handle whose start failed always closed, as the comment at 834-836 says? | violated: not if the failure comes before `open_stream` has registered it or after it was moved to `closing_streams_` |
| `client_session` | Either program, two threads, four calls, two streams to open or configured, of which any may fail, the destructor, any order of callbacks: no lost wakeup, `wait_connected` gives up rightly, no call runs beside the filling of `streams_`, calls and the destructor return except in the four deadlocks named | holds |
| `client_calls` | Do `wait_connected`, `set_stream_priority` and `disconnect(false)` return, as the header documents? | violated, for each of them: `start_client` overwrites what a fast callback stored; the priority call waits for the worker, which waits for what it holds; `disconnect(false)` locks `mtx_` twice |
| `media_pipe` | Two units, two streams, RECEIVE cut anywhere, loss at any point, up to three runs of moq_client: framing is aligned, what the Reassembler keeps is sound, everything arrives, `OrderedDelivery` is implemented | holds |
| `playback` | Two sub-pictures, one closed and reopened: nothing ready goes missing, drains lose nothing, playback ends only in the ways named, an exception in either thread among them | holds |
| `reopen` | Is a reopened sub-picture decoded, as `vvc_decoder.py:258` says? | violated: the frames between are expected of it, and nobody sends them |
| `live_sender` | Two sub-pictures, three frames, chunks of any size, refusals and a loss at any point: streams in order, INIT and CONFIG first, closed streams whole, the video ends | holds |
| `decoder` | Four frames, two CONFIGs on the other thread, delays, errors and flushes: ids ascend, none crosses a flush, and each is right unless a named event has upset the count | holds |
| `server_session` | Three clients, the owner, a thread in `run`: nobody is in Python once the callback is cleared, no closed connection is touched, a waiting `run` ends, and after Ctrl+C the server is gone except in the three ways named | holds |
| `server_stops` | Does Ctrl+C stop the server, as `run_server.py:79` says? | violated: the owner waits for `recv_cb_mtx_` with the GIL, a worker for the GIL with `recv_cb_mtx_` |
| `server_streams` | Two clients, three streams, two addresses used again: `streams_` is exact, packets come whole unless the address was left within one, and what is sent arrives unless the limit is used up | holds |

The violated properties state what a doc or comment says and are findings in PROJECT.json. TLC stops at
the first trace of a violated property; the other cases of `client_calls` are the states that
`CallsReturn` of `client_session` names (`SelfDeadlock`, `PriorityDeadlock`). No exception is idle: with
any one of the four states of `CallsReturn`, or of the three of `StopEnds`, taken out, TLC finds the
property violated. `disconnect(false)` does not need unusual scheduling:
`moq_client` ends with it (`moq_client.cpp:259`). The rest need an event at an unlucky moment, which
TLC's traces show.

Two runs also evaluate facts about the functions, stated as named assumptions of their MC modules:

| Fact (module) | Over | Says |
|---|---|---|
| `FileIsItsFrames`, `FramesCoverFile` (MCMediaPipe) | all IVF files of up to 6 bytes | the units joined are the file, but for a last frame that is cut off; each has its headers |
| `NalusCoverFile` (MCMediaPipe) | all files of up to 7 bytes over 0, 1, 2 | the NALUs joined are the file from its first start code on; each begins with one and has no other |
| `ScannersAgree` (MCMediaPipe) | the same files | the C++ and the Python scanner find the same start codes, except one in the last three bytes |
| `ImportantOnFirst` (MCMediaPipe) | 1 to 4 streams | an important unit goes on stream 0, which has no other if there are two streams |
| `SplitsWell`, `SplitIsLossless` (MCLiveSender) | all sequences of up to 6 NALUs of four types | what can be split is put together again as it was, exactly if its parameter sets come first; each frame has one picture header |

### Other divergences between code and text

These were met while modelling and need no run to be seen.

* `quic_transport.hpp:108` documents stream indices 0 to `num_streams` - 1, and `moq_client.cpp:140,192`
  send on 0, but `next_stream_id_` starts at 1 and so do the ids of the configured streams.
* `msquic_transport.hpp:121` promises of `wait_all_sends_done` that "all packets were acknowledged", while
  `msquic_transport.cpp:934` counts a canceled send as done.
* `vvc_decoder.py:414` says that a picture gets its own frame's id. After a decode error (line 302) the
  newest pending id is removed, which need not be that of the picture that failed: `RightIdsUnlessUpset`
  holds only with the exceptions it names.
* The comment at `quic_media_server.cpp:49` says that the GIL is definitely held by whoever calls
  `stop_server`; the binding of `stop_server` (`quic_media_py.cpp:119`) releases it.
* The comment at `msquic_transport.cpp:799-808` leaves a connection's handle to the destructor, but a
  connection that has ended by itself was erased from `client_connections_` and the destructor does not
  see it (`HandleMissed`).
* `Av1Frame::is_important` stops at a temporal delimiter that has a size field, as those of an IVF file
  have: a sequence header behind one is not found, and such a frame is not important.
* `find_start_codes` of `vvc_splitter.py` ignores a start code in the last three bytes, and what precedes
  a picture header (an SEI, an access unit delimiter) goes with the previous frame. `merge` reads a
  manifest and a `common.vvc` that the splitter no longer writes.

### Bounds, and why they are enough

No safety property depends on the bounds: type correctness, the other invariants, the action properties
and the refinements are theorems for every value of the constants (section 4). The bounds matter to the
liveness properties, to the violated ones, and to what is worth trying to prove.

* *StreamTable.* Handles are never reused, so that the set `Handle` bounds the run: three are one
  configured stream, one opened by each thread, or one opened after another was closed, with every pair
  of calls and callbacks overlapping. No property relates more than two handles and two threads.
* *ClientSession.* `MaxCalls` bounds the calls made after connecting; four let two threads both be
  inside a call, with an acknowledgement and an ended stream pending, which is what the deadlocks need.
  Two handles let one be leaked while the worker is in a callback of the other, and `NumStreams` of two lets
  one configured stream start, which makes the client usable, while the other fails.
* *MediaPipe.* Units of two and one fragments, `MaxPayload` 2 and `HeaderLen` 2, so that headers and
  payloads can be split and a unit can be the last fragment's remainder; `CountMod` 4 is the 2^16 of
  the counters, with `FragmentsFit` saying that no unit exceeds it. Two units on two streams are the
  fewest for which one can be complete behind another that is not. Three runs let one run repeat what
  the first has written and another find what the second has left of it. `SendLimit` is 2, so that this
  instance refuses nothing: what a refusal leaves is what a loss leaves at the same fragment, and the
  theorems cover any limit.
* *PlaybackReceiver.* Two sub-pictures, the first of which plays two frames, is closed for one and
  reopened for the fourth on a new stream. `NumFrags` is 2 in `playback`, so that partial frames exist
  (`drop_incomplete` has something to do), and 1 in `reopen`, which is what the live client sends.
* *LiveSender.* Objects of three bytes and a window of up to two, so that an object takes two or three
  chunks and any of them may be the short one; three frames are the fewest for which the gate can be in
  one while the next waits and a third is released. What is sent is what the splitter makes of two
  bitstreams, with parameter sets between frames and NALUs behind the last slice.
* *VvcDecoder.* Four frames and a delay of one, next to the one picture the parser holds, let an error
  hit a picture other than the one just appended, with ids before and after it; two CONFIGs are a first
  one and one for a codec in use.
* *ServerSession.* Three clients: one whose worker is in the callback, one that has ended, one that is
  being accepted, at the same moment. One thread in `run` is what the programs have.
* *ServerStreams.* Two addresses for three streams of two clients, so that a stream may follow, at its
  address, one of its own client or of the other; two packets on one of them, so that it may be cut in
  the second; a limit of one, so that a client's second stream has to wait. Handles are the only way by
  which streams affect one another, and the chain of three covers a state that is inherited twice.
* `CHECK_DEADLOCK FALSE` everywhere: all these systems legitimately stop, when every handle is used, the
  call bound is reached, the file is written, or everything is played. That they do not stop too early is
  what the liveness properties say.

### Fairness

* *StreamTable*: weak fairness of the worker's end of a callback, of SHUTDOWN_COMPLETE of a stream MsQuic
  has finished with, and of a thread inside a call (no lock is held across steps there, so nothing
  blocks it). None for calls, for starts, or for losing the link.
* *ClientSession*: weak fairness of the connecting thread, of the callback in progress, and of each kind of
  event, those of streams for each handle, since MsQuic's queue is worked off; strong fairness of a
  parameter call, which shares that queue and is enabled only between callbacks. None for application
  calls, `Destroy`, `LoseLink`, or the winner of the handshake.
* *MediaPipe*: weak fairness of the send loop, the server's callback and completions; strong of `Receive`,
  because other streams' events disable it between; none of the timeout, of the loss, or of another run.
  `EverythingArrives` therefore says "unless the last connection is lost".
* *PlaybackReceiver*: weak fairness of both threads, strong of `FindReady`, because a frame that stays
  ready falls due in time, although the loop looks away in between. The sender is assumed to close every
  stream in the end, as `process_video` does.
* *LiveSender*: weak fairness of the three threads; strong of `GateBudget`, because acknowledgements make
  room in the window again and again, and of `GateSend`, because a connection that is up takes a chunk in
  the end. None of the loss or the exceptions, so that `VideoEnds` names the loss and the worker's death.
* *VvcDecoder*: none, as only safety is checked.
* *ServerSession*: weak fairness of the owner's steps, except for when it calls `set_recv_callback`,
  of `run`'s look at `running_`, of each worker's callback and of each SHUTDOWN_COMPLETE. Nobody has to
  connect, send, leave, call `run` or press Ctrl+C. Weak fairness is enough for the locks: the owner waits
  for `recv_cb_mtx_` with the GIL in its hands, or with the callback cleared already, so that no worker
  comes back for the lock again and again.
* *ServerStreams*: weak fairness of the server's steps for each stream. Clients need not send, close or stay.

## 4. Proofs

One `...Proofs` module for each module with state. Each has an inductive invariant `IInv`, a lemma for
the initial state, one that a step keeps it (by action, and under each action by the conjuncts it can
disturb), and theorems that follow. `IInv` was checked by TLC on the module's run before it was proved.

| Theorem | Says |
|---|---|
| *StreamTableProofs* | any handles and threads, any number of configured streams |
| `TypeCorrect`, `SingleOwnership`, `NoFreedHandleInTables`, `CallbacksCloseFinished` | `[]TypeOK`; a handle has one owner; no table holds a freed handle; callbacks close only what MsQuic has finished with |
| `StreamIdsAreUnique` | `IdsNeverRebound`: an id means one stream for ever |
| `TransportRefinesLifecycle` | every step is one of `StreamLifecycle` or a stutter |
| *ClientSessionProofs* | either program, any threads, handles, configured streams and calls |
| `SessionTypeCorrect`, `CallbackOpensAlone` | `[]TypeOK`; `[]OpensAlone`: no call runs beside the filling of `streams_`, whichever streams fail |
| `ConnectGivesUpRightly` | `GivesUpOnlyWhenDown`: only on a connection that has ended |
| `DeadlocksAreForEver` | the four exceptions of `CallsReturn` are never left |
| *MediaPipeProofs* | any units, sizes, streams and runs of moq_client |
| `PipeTypeCorrect`, `FramingStaysAligned`, `ReassemblerIsSound` | `[]TypeOK`; the parser is where a packet starts or within the one it knows; a slot that counts as complete is |
| `PipeImplementsDelivery` | every step is one of `OrderedDelivery` or a stutter |
| *PlaybackReceiverProofs* | any sub-pictures, streams, fragments and start-up |
| `ReceiverTypeCorrect`, `DrainedStreamsAreEmpty`, `MapsAgree` | `[]TypeOK`; nothing buffered is left of a drained stream; the lifecycle maps agree |
| `FoundFramesAreThere` | `NeverMissing`: what was ready under one lock is there under the other |
| *LiveSenderProofs* | any sub-pictures, frames with and without data, object sizes, windows |
| `SenderTypeCorrect`, `StreamsInOrder`, `ControlGoesFirst`, `ClosedStreamsSentAll` | `[]TypeOK`; `[]WireInOrder`; `[]ControlFirst`; `[]ClosedStreamsAreWhole` |
| *VvcDecoderProofs* | any number of frames and CONFIGs, any delay |
| `DecoderTypeCorrect`, `IdsAlwaysAscend`, `LivesStayApart`, `RightIds` | `[]TypeOK`; ids ascend; none crosses a flush; each is right unless a named event has upset the count |
| *ServerSessionProofs* | any connections |
| `ServerTypeCorrect`, `NobodyInPythonOnceCleared`, `ServerTouchesOpenHandles` | `[]TypeOK`; `[]SilentOnceCleared`; `[]ListedAreOpen` |
| `StopExceptionsAreForEver` | the three exceptions of `StopEnds` are never left |
| *ServerStreamsProofs* | any connections, streams, addresses and limit |
| `StreamsTypeCorrect`, `StreamTableIsExact`, `PacketsComeWhole` | `[]TypeOK`; `streams_` has the live handles and no other; packets come whole, under one id, unless the address was left within one |

### The invariants, and why they are needed

* *StreamTable.* `CallsHoldHandles` ties the local variable of a call in progress to what MsQuic knows of
  the handle: opened before `StreamStart`, started or ended before registration. Without it nothing would
  keep `Register` from storing a handle that has been closed. The refinement rests on `PhaseMoves`: if
  exactly one handle's phase changes, by a permitted move, the step is a step of `StreamLifecycle`.
* *ClientSession.* `OpenedOnce` says that no stream has an event before CONNECTED is through, so that
  `stream_ready_` is still false when `streams_` is filled, and `ConnectingKnows` how far the connecting
  thread is: past its waits only with no stream configured or with `stream_ready_` set, which together keep
  every call away from `OpenStreams`; and while it has yet to decide and finds `running_` false, the callback
  for the end of the connection has been through, which is what `GivesUpOnlyWhenDown` comes to.
  `HandlesPlaced` says that a handle is in one table, or in the `open_stream` that has yet to store it, and
  `LocksHeld` who has `mtx_` and the GIL: they are why the deadlocks last. A leaked handle is never closed
  because no event of it is left and the threads have ended their calls.
* *MediaPipe.* A parser that has read a payload is at a header again only because the packets of a stream
  lie end to end (`Layout`), and it knows which packet it is within (`Awaits`). A slot that counts as
  complete has no gap because what it counts is what it has (`Slots`) and a run sends no fragment twice
  (`SentOnce`); in the first run a unit that has been written cannot come back (`FirstRun`). The refinement
  follows action by action: `SendPacket` may hand over the next unit, `Flush` writes one, and no other step
  is visible in `OrderedDelivery`.
* *PlaybackReceiver.* Two threads look at one thing under two locks. A stream that is being drained is
  closed, so that no packet of it is at hand (`Handled`, `ClosedAreClosed`) and no other stream adds to what
  it has sent a part of (`OneSource`): what is incomplete stays so (`Incomplete`), and what was found
  complete stays until it is popped (`FoundStays`).
* *LiveSender.* What is on the wire is in order because what waits is (`Ordered`), because a stream ends
  with the last byte sent of the active object or of one before all that wait (`Ends`), and because each
  object pushed is in the queue, at hand or on the wire (`Covered`). Control objects come first because the
  queue has been empty in between (`NoControlLater`, `ControlGone`); a stream is whole when it is closed
  because of how the threads end (`SourceFacts`, `GateFacts`, `Owed`).
* *VvcDecoder.* Pending ids are above all given out and not above the frame at hand (`Tracking`, `Below`);
  neither an id nor a picture outlives the flush that ends its life (`OneLife`, `Drained`); as long as
  nothing has gone wrong, the pending ids are those of the pictures inside the codec, in order (`InStep`).
* *ServerSession.* `WorkersHold` says that only the worker that has `recv_cb_mtx_` can be in the callback or
  in Python, and `Cleared` that there is no callback once the owner is past it; together they make
  `SilentOnceCleared` inductive. `ListedAreOpen` needs that a handle is in one list at most (`ListsApart`).
* *ServerStreams.* Handles alive at the same time have different addresses, and streams different ids
  (`HandlesDistinct`). `ParserInStep` says how many pieces a parser is past its last packet; a stream whose
  address was left within a packet is outside it, which is the exception in `WholeUnlessCut`.

`DeadlocksLast` and `StuckForEver` are about the exceptions of `CallsReturn` and `StopEnds`. An exception
that can be left would excuse a mere delay, and hide a call that hangs elsewhere; as each of these states
is stable, a behaviour that is excused has really stopped there.

### What is assumed of the constants

Numbers are natural numbers, positive where the code has at least one (streams, sub-pictures, fragments of
a payload, bytes of an object); sets of streams are of ids. The assumptions that are more than types:

* `None` is no handle, thread, codec, object or piece: it stands for `nullptr`, `None`, an unlocked mutex.
* `FragmentsFit` (MediaPipe): a unit has fewer than `CountMod` fragments. The packetizer does not check it
  (the hazard at `packetizer.cpp:22`): with the default payload of 1200 bytes it is true of units below
  78 MB, and beyond that the theorems of MediaPipe say nothing.
* `ReceiverAssumption`: a stream carries one sub-picture, and frames from its first to its last, or none. It is
  what the live client opens a stream for. CONFIG objects come one for each sub-picture.
* `SenderAssumption`: `Sent` says which frames have data for which sub-picture, and may be any set of pairs.
* `StreamsAssumption`: finitely many streams, because `InUse` counts those of a client.

TLC evaluates all of them in the runs. Each bound on a run (`MaxCalls`, `MaxSessions`, `MaxConfigs`,
`Packets`) is a constant of which the theorems assume only that it is a natural number.

### Only model-checked

* Liveness, on the bounds of section 3: `DoomedStreamFreed`, `ConnectDecides`, `CallsReturn`,
  `EverythingArrives`, `PlaysToTheEnd`, `VideoEnds`, `RunnerWoken`, `StopEnds`, `Arrives`. A proof from
  fairness needs ENABLED, which the prover does not support.
* What the recursive functions of `AnnexB`, `IvfFile` and `VvcSplitter` compute: that takes an induction
  over data, whose theorem has an operator as parameter, and the installed backends cannot instantiate it.
  `MediaPipe` and `LiveSender` take only numbers and sets from them, so that their theorems do not depend
  on it.
* The violated properties, by the traces TLC finds.

## 5. What is not modelled

* Around the live sender: the statistics thread (it only logs), and `activate_subpic`,
  `deactivate_subpic` and `mark_last_for_close`, which nothing calls. Around the decoder: `reset`, which
  nothing calls, and the receiver's `close`, whose `flush_all` (a `flush_subpic` of each sub-picture) runs
  on a third thread when the playback thread has not ended within five seconds.
* In the parts that are modelled: the clock and all timing records, logging, statistics and their
  contents, TLS and certificates, priorities as numbers, the contents of payloads.
* What the codecs make of their input: the receiver's decoder may raise wherever one can, so that the exceptions
  in `PlaysToTheEnd` are wider than those of any given stream of bytes.
* Undefined behaviour, which has no value in the model: the data races on `ack_cb_` (assigned by
  `disconnect`, read by the worker) and on `streams_` (line 740 reads its size without `mtx_`; with no
  configured stream, a call may store one beside it, and neither outcome has an effect), `StreamShutdown`
  on a handle `StreamClose` has freed, and two clients of one moq_server at the same time, whose workers
  share a Reassembler without a lock.
* `send` and `set_stream_priority` do not change the stream table and are no actions of it; `CanSend` is
  what they rely on. The server opens no stream and sends nothing, so that `ServerStreams` has no such step.
* Different files sent to one moq_server one after the other (the second is ignored up to the number of
  units of the first), several videos over one live connection, frames skipped by the sender.
* `recv_cb_` and its mutex are destroyed before the transport that calls them; `SilentOnceCleared` is why
  the two Python servers are safe from it.
* `set_stream_close_callback` and the fields of the receive callback that the Python receiver uses are in
  the compiled binding, but not in `quic_media_server.hpp`: modelled from their use.
* `FileSink` writes what it is given, and nothing calls `Scheduler`. `merge` of the splitter, the external
  decoder and extractor, and their CSV and trace files.
* The ns-3 set-up, a test bed outside the program. Three facts of it matter to an experiment: replies go
  to the address the latest datagram came from, so that it serves one client; a receive loop ends with
  the first receive that fails; and the stop time is set after `Simulator::Stop`, so that
  `StopApplication` does not run, although INSTALL.md says so.
* The controller and the extraction of features (numeric, no protocol state), tests, data preparation, log
  analysis, and the vendored VTM, which is most of the repository's lines and which no code of the
  system calls as a library.

## 6. Plan

1. *Done*: StreamTable and its proofs, ClientSession, MediaPipe, PlaybackReceiver, their abstractions.
2. *Done*: LiveSender, VvcDecoder.
3. *Done*: ServerSession, ServerStreams, the parsers and the splitter, repeated runs of moq_client, the
   client's destructor.
4. *Done*: the inductive invariant of every module with state, and from it all safety properties and both
   refinements as theorems.
5. **Composition**: LiveSender and PlaybackReceiver over an abstract connection, in place of the fixed
   `Carries`, with several videos. Its theorem would be that what the receiver is handed of a sub-picture
   is what the sender was given, in order and from frame 0, which `WireInOrder` and
   `PlaybackReceiver`'s assumption on `Carries` say of either side.
6. **The safety half of the liveness properties**: what makes each of their exceptions the only one is
   partly an invariant (in `ConnectDecides`, that a thread that waits for a connection that is up has its
   wakeup still to come), and can be proved where the liveness itself cannot.
