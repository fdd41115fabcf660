# Live_Streamer: specifications and proofs

Live_Streamer lets players switch cameras to *live* (stream to an RTMP server),
*local* (record to a file) or *off*. A camera runs `StreamerClient`; a server runs
`StreamerServer`, which keeps one JSON file per camera. The camera connects every
few seconds, reports its status, and is told an action until the two agree; players
store the action they want over a WebSocket.

This directory models that loop in TLA+, checks it with TLC and proves what matters
most about the status files, and that the programs use them in this way, with TLAPS. Beside the loop it models the two other
protocols of the repository: software updates of the cameras (`OTAServer`,
`OTAClient`) and the WebSocket library with its echo server. Paths below are relative
to `src/`.

## 1. Inventory

| Component | State | Operations | Talks to |
|---|---|---|---|
| **Status files** (`StreamerServer/src/srvrJson.c`, `trigger` in `main.c`) | `status/<id>.json`: `streamId`, `status`, `action` | `setJsonValue`, `getJsonValueFromFile`, `newJsonFile`; `trigger` marks every stream `off` at start and on each SIGALRM (30 s) | called by every thread of the server, no lock |
| **Stream server** (`StreamerServer.c`, `srvrComm.c`) | globals `strmID`, `clntSock`, `ACK`, `tempBufS`, one thread per connection | `ThreadMain`, `clientComm`, `receive`, `msgParse`, `SIGAct`, `SIGAck` | cameras over TCP, status files |
| **Player server** (`PlayerServer.c`) | `tempBufP`, connections inside libwebsockets | `ws_service_callback`, `websocket_write_back`: store an action and answer `ACK`, or answer with the status | players over WebSocket, status files |
| **Players** (`ws/client`) | the test player's `connection_flag`, `writeable_flag`, `destroy_flag`, shared by its two threads; a browser page | ask for the status, then for `live`; end with the next message | the player server |
| **Client control** (`StreamerClient/src/TCPClient`) | `status`, `srvrSock` | `clientComm`, `SIGStatus`, `msgParse`, `receive`, `intHandler`, `main` | the stream server, the pipeline |
| **GStreamer pipeline** (`VA_gstreamer.c`) | `pipeline`, `loop`, `bus`, `bin`, a thread that runs the main loop | `setAll`, `startStreaming`, `stopStreaming`, `initLive`, `startLive`, `stopLive`, `bus_call` | client control, GStreamer |
| **Client properties** (`PropJson.c`) | a properties file, only read | `getJsonValueFromFile` | client |
| **OTA update** (`OTAServer`, `OTAClient`) | version numbers on both sides | compare, download, run the update script, record the version | each other, shell |
| **WebSocket library** (`wsServer`, `wsClient`) | per connection: socket, strand, `send_queue`, `closed`, two timers; the set of open connections | connect, handshake, `send`, `send_close`, `read_message`, timeouts, release; an echo endpoint and a demo client | each other |
| **Restart scripts** (`Backup/backup/script_pc/Autorestart`) | - | restart a program that stopped | server processes |
| Older programs (`TCPServer`, `TCPClient`), `ws`, `OTA`, `JSON`, `Backup` | - | predecessors, prototypes, copies | - |

**What is hard here.**

* *Interleaving.* Status files are read, changed and rewritten without a lock by the
  handlers, the player thread and the main thread; a write is a truncation followed
  by a write, so that a reader may find the file empty. The handlers share their
  socket, their stream id, their buffer and their loop condition.
* *Stale state.* `msgParse` of the server reads the action up to four times for one
  decision; `SIGAck` stores `done` without reading at all.
* *Crashes.* Pointers that may be NULL are passed on; one handler's crash ends the
  server for every camera. What a crash truncates meets the next start.
* *Ignored results.* `msgParse` of the client goes on after an `initLive` that has failed and
  released the pipeline.
* *Protocol.* Report and answer alternate on blocking sockets; either end that misses
  its turn hangs the session. The client's `off` loops until `stopStreaming` succeeds.
* *Timeouts.* The alarm, `sleep(5)` between sessions, the restart loop; the request and
  idle timers of the WebSocket library, whose handlers may be queued when the timer is
  cancelled; the test player's `sleep(1)`, after which a late answer is taken for the end.
* *Closing.* Either end of a WebSocket closes, answers a close, times out or fails, at
  any point of the other's; sockets, timers and queued frames must all come to an end.

**What makes each part correct.**

* Status files: an update is atomic unless another overtook it; every readable file
  is complete; empty files are writes in progress; a crash needs an overlap; the
  server comes back unless a file was left empty.
* Sessions: no hang with both ends waiting; orders go to the camera they name; an ACK
  answers the status in force; a command is obeyed before it is acknowledged, and is
  acknowledged in the end.
* Client: the status it reports is what its pipeline does.
* Pipeline: the status tells whether it plays; what plays is listened to; one pipeline
  at a time holds the camera; a thread ends with its stream; nothing is used after it
  was released.
* OTA: the version recorded is installed; a client catches up with the last version.
* Player server: what it has acknowledged is stored, whenever it is killed; answers are
  in the order of requests; each request gets its answer; one slow player or one that
  ends delays no other.
* WebSocket library: a connection is a pair of channels, which lose frames only by a cut
  or after a close; one write at a time; a close ends both ends, once, and both release
  everything.

## 2. Modules

| Module | Models |
|---|---|
| `AtomicStatus` | Abstract: a record per stream, created with defaults, then changed one key at a time |
| `StatusFiles` | The status directory, one step per file access; `trigger`, start, alarm, exit and kill of the process |
| `StatusFilesProofs` | Theorems about `StatusFiles` |
| `Connections` | The TCP connections as both programs use them |
| `StreamerServer` | The threads of the server: extends `StatusFiles` and `Connections` |
| `StreamerClient` | The control part of the camera, with what it sees of the pipeline |
| `CameraSession` | Abstract: the dialogue of cameras and server, a report and its answer, one camera at a time |
| `StreamerSystem` | Cameras, server and players together; the system's properties |
| `StreamerSystemProofs` | Theorems about `StreamerSystem`, for sessions that may overlap: its use of the files, its types, the status of a camera |
| `StreamerSessionProofs` | Theorems about one session at a time: whose turn it is, for whom an order and an ACK are, which command counts, and that the system implements `CameraSession` |
| `GstPipeline` | The pipeline on a camera: the library calls of `VA_gstreamer.c` in two kinds of threads |
| `GstPipelineProofs` | Theorems about `GstPipeline` |
| `PlayerServer` | The player server with its connections, the test player and browsers: extends `StatusFiles` |
| `PlayerServerProofs` | Theorems about `PlayerServer`: its use of the files, and what it promises of them |
| `PlayerAnswersProofs` | Theorems about its conversations with players |
| `OtaUpdate` | OTAClient and OTAServer: request, answer, installation, record |
| `OtaUpdateProofs` | Theorems about `OtaUpdate` |
| `FrameChannel` | Abstract: what a WebSocket connection promises to the programs at its ends |
| `WsConnection` | One connection of the WebSocket library, both ends, with the echo endpoint |
| `WsConnectionProofs` | Theorems about `WsConnection`: its types, one writer at a time, and that it implements `FrameChannel` |
| `MCStatusFiles`, `MCStreamerSystem`, `MCPlayerServer` | Values for TLC |

### StatusFiles

`disk[s]` is the file of stream `s`: `Absent`, `Empty` (truncated by
`json_object_to_file`, not yet written) or a document, a function from the keys it
has to values. A thread's call is `op[t]` (function, key, value, file), `pc[t]` is
its next file access and `buf[t]` the JSON object it holds. `ReadFile` is
`JsonFromFile`, with `newJsonFile` (`newTruncate`, `newWrite`, `reread`) when the
file cannot be read; `ReadEntry` is `trigger`'s read, which has no such test;
`Proceed` is what the three functions do with the document. `phase` follows the
process: `boot` is `trigger` before the threads exist (`main.c:58`), `serving` the
loop in which alarms arrive; when `opendir` fails there the alarm is never set again
(`Alarm`). `last` and `fresh` are history: the last document
written to each file, and whether a thread's document is still made from it.

`AtomicWhenFresh` says that a write that nobody has overtaken is a step of
`AtomicStatus`; `ImplementsAtomicStatus` says that without concurrency everything
is (`rec <- last`).

### Connections, StreamerServer, StreamerClient, StreamerSystem

A connection has two queues of frames and two ends. Both programs always send 254
bytes, so that a frame is one message and `recv` takes one. A frame is a record with
the JSON fields it has: a missing field is what `getJsonValueFromObj` answers with
NULL. Text, `printf` and the write of `tempBuf[MAXDATASIZE]` one past the buffer are
left out.

`at[c]` is where the handler of connection `c` is. A step is one access to a file or
to a socket with the statements on the globals up to the next access; a buffer that
was received or formatted stays in `tempBufS` for one step before it is used, which
is where another handler can replace it. The calls of file functions are those of
`StatusFiles`: `CallFrom` starts one, `ServerFileStep` performs its accesses, and
`ret[c]` is the result. A crash loses all memory and all sockets, not the files.

The client's `doing[d]` is its place in `main` and `clientComm`. `pipeline[d]` is
all that `ClientComm.c` depends on of `VA_gstreamer.c`: `none` at first, `built`
after a `setAll` that failed half-way, `playing`, `freed` after `stopStreaming`,
which releases the pipeline and keeps the pointer, or `lost`: released by an `initLive`
that failed, after which `msgParse` goes on to play it and to set the status `live`
(`LiveBranchFails`). What C leaves undefined (a use of a released pipeline) is a choice
between going on and crashing. A handler sends what is in `tempBufS` by then, so that a
camera may be sent a report, its own or another's: one that names the camera and lacks an
action gives NULL to `strcmp` and ends the client, as an empty frame does (`LacksField`,
`ReceiveNothing`), and one for another is ignored and answered by the next report
(`Ignore`).

`StreamerSystem` conjoins the two, with `pending[s]`, a history variable: the command
stored for `s` that no race has touched. It is set when the player's call begins, and
cleared by an ACK, by a call that overlaps on the same file, or when the command is
stored while a handler is between its reading of the action and its ACK.

`CameraSession` says what the two programs are for each other: a camera reports, gets one
answer, and obeys it or ends the session; its mode changes at no other time and to nothing
else. `ImplementsCameraSession` maps `status` to the mode and reads the turn and the order
off `doing` and what the camera finds in `recv` (`TalkOf`, `OrderOf`); the handler, its file
calls, the globals and the wire towards the server are stutters. What order is given is left
open there: it is the last of several readings of the file (`stuck_off`). Only a command
that nobody disturbs is obeyed before the ACK (`ObeyedBeforeAck`).

### PlayerServer

`StreamerSystem` has a player as a call on the files; this module is what lies around
that call. One thread of the server calls `lws_service`, which calls
`websocket_write_back` for one message at a time: `Receive` takes a message and starts
its call on the files (`Execute`), `ServiceFileStep` performs the call, `WriteBack`
sends the answer and ends the turn. `serving` is the message in between. The files are
those of `StatusFiles`, so that a kill may come between any two accesses, and
`HandlerReports` lets a device's report reach the same files between two requests
(overlapping calls are the business of `files`).

A player has a connection (`link`), two queues of messages and, in the test player, the
three flags of `client.c`. `Connect`, `Disconnected`, `TakeReply` and `Writeable` are
the cases of its callback; `Routine` is `pthread_routine`, which waits for the
connection, asks for the status, sleeps a second and asks to be called back; `Destroy`
is the end of `main`, with the other thread anywhere. `UsesFreed` is what C leaves
undefined: `pthread_routine` goes on with a connection that has been closed and freed.
A browser sends what its page makes it send, a malformed message included, by which
`strcmp` is given NULL and the server stops.

`acked`, `asked` and `answers` are history. `AckedIsStored` follows an ACK through kills
and restarts; `AnswersMatchRequests` is what a player needs to tell answers apart, as
an ACK does not say of what; `EveryRequestIsServed` holds although the test player ends
at a late first answer, before its command is acknowledged: the command is stored all
the same.

### FrameChannel and WsConnection

A step of `WsConnection` is one handler of `boost::asio`, or the completion of one
asynchronous operation. `strand[e]` holds the handlers posted to the strand of a
`Connection` in their order: `enqueue` (`send`), `write` (`send_from_queue`) and `wrote`
(its completion handler). `writing[e]` are the writes under way, `wire[e]` what they
have put on the TCP connection: a header and a content, which the server writes one
after the other and the client together. `reader[e]` is what the end reads next, from
connect and handshake to `stopped`. `sock[e]` tells whether the socket works, has been
reset by the other end, or was closed here; data that meet a closed socket, and a
socket closed with data unread, reset the other end, as TCP does.

`FrameChannel` says what all this is for: a queue of frames per direction, from which
frames are taken in order, one close frame per end, and loss only after a cut or a
close. `ImplementsFrameChannel` maps the frames on the wire, in the queue and in the
strand to that queue (`OnWire`, `Waiting`); it is about safety, `CloseCompletes` and
`EndsAreReleased` about what must happen in the end.

Two errors end the server's process, and the model has them (`Crash`): the request
timer's `shutdown()` throws on a socket that was reset, and nothing catches that
(`server_ws.hpp:328`); and a response that cannot be written makes `connection_error`
cancel an idle timer that `connection_open` has not made yet (`:412-413`).
`CloseCompletes` excepts a server that has crashed.

### GstPipeline

`StreamerClient` sees of the pipeline only whether it plays; this module is what lies
below. Each function of `VA_gstreamer.c` is a sequence of library calls
(`stopStreaming`, `stopLive`, `initialize`, `setAll`, `startLive`, `play`), `Obeys`
is the sequence for an order (`msgParse`, `ClientComm.c:31-68`), and `script[t]` what
thread `t` has still to call: `Control` obeys orders, a thread of `GstThreads` is
created by each `startStreaming`, plays, and sits in `g_main_loop_run`, from which
`BusCall` makes it run `stopStreaming` on an error or end of stream. One step is one
call, on what the global pointers point to by then, so that all calls of two threads
interleave.

`pipes` and `loops` are the objects made so far; the pointers are their last members,
as the code never resets them. A call on a released object (`Undefined`) crashes the
process or does nothing, and is noted in `misused`. GStreamer is modelled by what
these calls need: an element that is not in the NULL state is not disposed of;
`g_main_loop_run` holds a reference and forgets an earlier quit; removing an unknown
source only warns. `StatusTellsPipeline` is the assumption `StreamerClient` makes with
its variable `pipeline`.

`initLive` fails in three ways, and nobody looks at its result: an element is missing, and
`bin` stays loose; the pad template is missing, or the tee cannot be linked, and it releases
the pipeline (`LoseBranch`). From `ready` nobody else holds it, and it is `lost`: what
`startStreaming` plays then is gone and the status becomes `live`. `StatusTellsPipeline`
names that as the one way in which a status is untrue before a stream error. In
`startLive` the pipeline is paused, is not disposed of, and plays on without the branch.

`crossed` notes that a stream error arrived while an order was being obeyed, or an
order while an error was being handled. Then `startLive` may play what `bus_call` has
just stopped, or `bus_call` stop what `setAll` has just built: a race the code has,
which `PlayingIsWatched`, `OneHoldsTheCamera` and `StopEndsThread` except.
`StatusTellsPipeline` is about the time before the first stream error, because the
code leaves the status as it is when a stream fails (`bus_call` does not set it).

### OtaUpdate

The server of `OTAServer` has a thread per connection and the globals `clntSock` and
`tempBuff`. `hand[c]` follows the handler of client `c`: `take` sets `clntSock`,
`call` and `recv` are the two ends of a `recv` on the descriptor `fd[c]` that
`clntSock` was then, `parse` reads `tempBuff`, `offer` reads the version from
`status.json` a second time, `send` sends what `tempBuff` is by then, `close` closes
what `clntSock` is. Two sessions can therefore exchange frames, answer the wrong
client and close each other's sockets, and any frame may reach any client.

`at[c]` follows the client: `asked`, then the script at `clientComm.c:40` command by
command (`wget`, `tar` with `rm`, `sh`), then the two halves of `setJsonValue`. Each
command may fail, and each is followed by the next. `tarball`, `unpacked` and
`installed` say what each has left; `recorded` is the version in the client's
`status.json`. Uploading a package and publishing its version are done by hand and
are two steps. A `recv` of no bytes leaves a blank text, and one that fails ends the
server (`Received`, `RecvReturns`).

## 3. Runs

| Run | Shows | Bounds |
|---|---|---|
| `files` | `TypeOK`, `NoTornAtRest`, `CompleteDocuments`, `AtomicWhenFresh`, `CrashNeedsOverlap` with two workers, `trigger` and kills | 1 stream, 2 workers, 1 alarm, 1 kill |
| `files_never_back` (violation) | `exit(1)` of one thread in the middle of another's write stops the server for ever | 1 stream, 2 workers, no alarm, no kill |
| `sessions` | Cameras one after the other and player requests: no hang, ACKs answer the status in force, what a session leaves in the globals does not misdirect the next, commands obeyed before the ACK; the system implements `CameraSession` | 2 cameras, 1 connection at a time, 2 requests |
| `interrupt` | SIGINT in a session gives two handlers on the same globals, which may mix up frames; the files are still used as `StatusFiles` says | 1 camera, 2 connections, 1 SIGINT, 1 kill |
| `commands_end` | Commands end, the stored status comes to be the device's again and again (fairness); the reported status follows the pipeline | 1 camera, 1 request, 1 alarm, 1 failing `setAll` or `initLive`, 1 stream error |
| `cross_talk` (violation) | One camera is sent the order for another | 2 cameras, 2 connections |
| `stuck_off` (violation) | `off` reaches a camera that has nothing to stop | 1 request |
| `gst_life` | `StatusTellsPipeline`, `PlayingIsWatched`, `OneHoldsTheCamera`, and `StopEndsThread` under fairness, through orders, a failing build or live branch, and a stream error | 2 GST threads, 3 builds, 1 failure, 1 error |
| `gst_misuse` (violation) | After `off`, `setAll` releases again what is released | 3 builds |
| `players` | The directory implements `AtomicStatus` when updates do not overlap; the server serves again unless a file was left empty; `AckedIsStored`, `AnswersMatchRequests`; requests are served and the test player ends (fairness) | 1 test player, 1 browser with 1 request, 1 report, 1 kill |
| `ota` | `RecordIsInstalled` with crossing sessions and publication in between; `UpToDate` (fairness) | 2 clients, 3 versions of which one is not parsable, 1 failure or loss of power |
| `ws_echo` | The connection implements `FrameChannel`; `OneWriter`; a close ends both ends and both release their sockets (fairness) | 1 frame of the client's program with its echo or pong, any closes, 1 cut, the idle timer in use |

**Why the bounds are enough.** A file is only ever disturbed by calls on the same
file, so one stream shows every race on it; two streams are there where files or
cameras could be mixed up. A race is between two calls, or a call and `trigger`: two
workers and the main thread cover each pair and one triple. One kill leaves every
possible state on the disk, and starts are not bounded. Sessions repeat without bound
in every run, as do reports in a session; only requests, alarms, kills and failures
are counted. Two requests are enough for the second to meet the first one's session.
The theorems of section 4 hold without any of these bounds. Three builds of the
pipeline are a first one, a second that meets its leftovers and a third that meets
what the second left after a failure; a GST thread ends and is used again, and two of
them can be there at once. Three versions let one be published while another is being
installed, and a package left over be older than the one offered.
The test player makes two requests and a browser one, so that two players' requests and
the two answers of one player meet; more of them only repeat these. In `ws_echo` the
client's frame, its answer and a close frame are in the same queue, in either order, and
each end may close for four reasons at any time; two frames of the program make no new
order of the handlers and more states than a run can visit.

**Deadlock.** The `files` runs check it. In the system runs a camera may exit or loop
in `off` and a server without a camera only waits, so the system may really stop;
`SomeoneHasTheTurn` is the deadlock property there. A camera's process may crash in
`GstPipeline`; an OTAClient that has lost its `status.json` never runs again, and one
whose answer went elsewhere waits for ever (`ota`); players end (`players`), and so does
a connection (`ws_echo`).

**Fairness.** Weak fairness of the restart loop (`autorestartC.sh` is an endless
loop), of each thread's next step (the operating system runs them; `recv` counts only
when there is something to receive), of the accept loop and of each client's next
step, the end of its sleep included. Nothing obliges a player to ask, an alarm to
come, a process to be killed, SIGINT or a failing stream to occur. In `GstPipeline`
each thread's next call and the return from a loop that was quit are weakly fair. In
`OtaUpdate` so are handlers, clients, the restart loop and the second half of a
publication; that a client is run again and again, and now and then finds a server
that is up, is strong fairness, and an assumption about who runs it. In `PlayerServer` the
server's threads, the callbacks of players and `pthread_routine` are weakly fair, and so
is the restart; that a player's message is received while the server is restarted now
and then and others send too is strong fairness, as `lws_service` looks at every
connection in turn. In `WsConnection` handlers that are ready run and operations that
can complete do; timers may run out and programs may send or close, but need not.

**Assumptions.** `Prompt`, in the passing runs of `GstPipeline`: a thread that was
created reaches its loop before the control thread takes its next order. That is
`sleep(1)` in each round of `clientComm` (`ClientComm.c:17`). Without it a stop may
come before the thread's `g_main_loop_run`, which forgets it, and the thread stays in
its loop for ever. `Sparse` says that a camera connects only when no other session is
under way. With one camera it is `sleep(5)` outlasting the end of the last handler,
which has one file call and a `close` left; with several it is luck. Every passing
system run assumes it, and `interrupt` breaks it by one SIGINT. `cross_talk` shows
what happens without it. `players` has no alarm: an alarm
undoes nothing that was acknowledged by itself, but its `setJsonValue` may overlap with
the player's and write back the record it read before (`MaxAlarms` in `files`).
libwebsockets, which is external, delivers the messages of a connection in order, lets a
client read what came before a close, and calls one callback at a time. `WsConnection`
runs the handlers of an end on one thread, as both programs do (`num_threads` is 1 in
`server_ws.cpp:9`); with more, the test and the setting of `closed`
(`server_ws.hpp:281-283`) would be two steps, and two close frames could be sent.

**Findings.** Each violation is a sentence of the repository against its code.

* `files_never_back`: `main.c:32` passes on NULL for an empty file, on every start. In the
  run the file is left empty by the `exit(1)` of a thread whose `recv` fails
  (`srvrComm.c:94`) while another is about to write; `autorestartC.sh:30` restarts for ever.
* `cross_talk`: `srvrComm.c:4` and `Server.h:68` speak of the client's descriptor; it
  is one global for all clients.
* `stuck_off`: `msgParse` decides on one reading of the action and sends another; an
  `off` between them reaches a camera that is ready, whose loop on `stopStreaming`
  never ends.
* `gst_misuse`: `VA_gstreamer.c:414` says "clean up nicely"; `pipeline` and `loop` are
  released and kept, and `setAll` releases them again.

More disagreements are in the models without a run of their own. `ClientComm.c:43` ignores
the result of `initLive`; when the pad template is missing or the tee cannot be linked that
has released the pipeline (`VA_gstreamer.c:286`, `:299`), and `:46` says "Device is Live
now." with nothing playing. `StatusTellsPipeline` and `PipelineMatchesStatus` are false
without their exception for this `lost` pipeline. After SIGINT the
status is `off`, which `msgParse` of the client treats as none of its cases, so that it
reports `live` without a pipeline until it exits (`PipelineMatchesStatus` excepts a
device that is leaving). A failed update is recorded and announced as "System is
Updated successfully" (`clientComm.c:51`; `RecordIsInstalled` excepts it). Two
OTAClients at a time may leave one waiting for ever, its socket closed by nobody
(`UpToDate` excepts crossing sessions). The test player may end before its command is
acknowledged (`client.c:90`), and any player stops the server by a message without an
action (`PlayerServer.c:36`), which `PlayerServer` has as a step.

## 4. Proofs

`StatusFilesProofs` proves, for any sets of streams, workers, values and updates and
any number of alarms and kills, under `ConstantsAssumption` (the special values are
distinct, the main thread is no worker, the values include the strings the program
itself writes):

| Theorem | Statement |
|---|---|
| `TypeCorrect` | `Spec => []TypeOK` |
| `Invariance` | `Spec => []IInv` |
| `TornFilesHaveWriters` | `Spec => []NoTornAtRest` |
| `DocumentsComplete` | `Spec => []CompleteDocuments` |
| `FreshWritesAreAtomic` | `Spec => AtomicWhenFresh` |
| `CrashesNeedOverlap` | `Spec => CrashNeedsOverlap` |

None of the properties is inductive. `IInv` is the conjunction of `TypeOK` and

* `TornExplained`: while serving, an empty file has a call that is about to write it;
  during the boot it is still to be visited by `trigger`, or being worked on by it.
  `NoTornAtRest` is about `serving` only and holds when serving begins because the
  boot has been through every file, and would have crashed on an empty one;
* `DiskHistory`: a readable file holds `last` and has all keys, an absent one was
  never written;
* `Held`: what a call is going to write has all keys, and while it is fresh it is the
  default of a record that does not exist, or `last` with one key changed. This is
  what `AtomicWhenFresh` and `CompleteDocuments` need;
* `FileThere`: the later reads of a call find a file that exists, so that the crash
  of such a read needs a truncation by another thread (`CrashNeedsOverlap`);
* `Quiet`: no call outlives the process, and only `trigger` runs during the boot.

`InitInv` and `NextInv`, with a lemma for each kind of step, prove it inductive, and
the theorems follow from it.

**The two programs use the files as `StatusFiles` says**, so that the theorems about files
are facts about the programs. `StatusFiles` lets its workers make any call at any time, and
its `Next` stands for every access and every way in which the process ends; what is to be
shown of a program is that it makes no other call, and stops only where `Exit` allows.

| Theorem | Statement |
|---|---|
| `StreamerSystemProofs!SystemUsesFiles` | `SystemSpec => ImplementsStatusFiles` |
| `StreamerSystemProofs!SystemMeetsNoTornFile` | `SystemSpec => [](NoTornAtRest /\ CompleteDocuments)` |
| `PlayerServerProofs!PlayersUseFiles` | `PlayerSpec => Spec` |
| `PlayerServerProofs!PlayersMeetNoTornFile` | `PlayerSpec => [](NoTornAtRest /\ CompleteDocuments)` |
| `PlayerServerProofs!AcknowledgedIsStored` | `PlayerSpec => []AckedIsStored` |

`SystemUsesFiles` assumes neither `Sparse` nor a bound on anything: handlers that share
their globals, interrupts and kills are all in it. The invariant is `SInv`: `IInv`, and

* `Memory`: the buffers hold frames, `ret` values, and as soon as `msgParse` has named a
  stream (`at[c]` in `Naming`) `strmID` is one for ever, whichever handler wrote it. So no
  file function is called with a NULL name; a first frame without a name ends the process
  in `msgParse`, which is `Exit`;
* `Reports`: what is on its way to the server are frames with a stream and a status
  (`Wires`), as a client only sends its own.

`IInv` is part of it, as what a file function returns is a value only because documents
are complete (`ReturnedType`).

`AcknowledgedIsStored` rests on `PInv`: `IInv`, the types of messages (`Messages`), and

* `Turns`: while the server serves only the player thread works on files, and its call is
  that of the request in `serving`, or of a report, which stores no action;
* `Kept`: an acknowledged action is in the file, and in every document that a call is
  going to write to it, until a request for another one is taken;
* `Stored`: when the call of a request is over its action is in the file, which is the
  moment at which `WriteBack` acknowledges.

The report of a device takes its turn between requests in this module; overlapping calls
do lose actions, which `CrashNeedsOverlap` and `AtomicWhenFresh` of `files` are about.

**The atomic records.** In `PlayerServer` calls do not overlap, so that `Turns` gives more:
`PlayersImplementAtomicStatus` (`PlayerSpec => ImplementsAtomicStatus`) is the refinement of
`AtomicStatus` with `rec <- last`. No call is ever overtaken (`AllFresh`), so that each write
is one step of `AtomicStatus`, by `AtomicWhenFresh`, and every other step, kills included,
leaves `last` alone (`WritesAlone`). For handlers and players together it is false, and
`AtomicWhenFresh` is what is left of it.

**Conversations with players** (`PlayerAnswersProofs`).

| Theorem | Statement |
|---|---|
| `PlayerTypes` | `PlayerSpec => []PlayerTypeOK` |
| `AnswersBelong` | `PlayerSpec => []AnswersMatchRequests` |

The invariant is `AInv`, next to `PInv`. `InOrder`: what a player sent on an open connection
is answered, being served, or on its way, in this order, so that the number of answers tells
which request the next one is for. `KindsMatch`: what it has not read yet are the last
answers, each an ACK or a status as its request calls for. `StatusFound`: a record has a
status, so that no request for one is answered with NULL; it needs the complete documents of
`IInv`. `FewRequests` counts what a test player may still send, for the bounds in
`PlayerTypeOK`.

**Sessions** (`StreamerSystemProofs`, `StreamerSessionProofs`).

| Theorem | Statement | Assumes |
|---|---|---|
| `SystemTypes` | `SystemSpec => []SystemTypeOK` | |
| `ReportedStatusIsTrue` | `SystemSpec => []PipelineMatchesStatus` | |
| `SessionsHaveTurns` | `SystemSpec => []SomeoneHasTheTurn` | `Sparse`, `MaxInterrupts = 0` |
| `OrdersAreAddressed` | `SystemSpec => []OrdersReachTheirDevice` | the same |
| `AcksFitTheDevice` | `SystemSpec => []AckMatchesReport` | the same |
| `SystemImplementsSessions` | `SystemSpec => ImplementsCameraSession` | the same |
| `CommandsAreObeyed` | `SystemSpec => ObeyedBeforeAck` | and `"done" \notin Commands` |

The first two hold however sessions overlap, for any numbers of cameras, interrupts and
kills: `SystemTypes` from `SInv` and the types of the clients (`Rest`), `ReportedStatusIsTrue`
from `LeavingWhenOff`, that only SIGINT makes a status `off`. Both it and `StatusIsTold` below
name the pipeline that `initLive` has released as the only exception, which the code does
meet.

The others are false in general, as `cross_talk` shows, and a SIGINT suffices: the handlers
share `clntSock`, `tempBufS`, `strmID` and `ACK`. They are proved where the code keeps
sessions apart, which is what `Sparse` and no SIGINT mean (see Assumptions above). The
invariant is `TalkInv`: `SInv` and `OneSession`, that there is no session or exactly one
(`Placed`: its client, its handler, and the globals that are its own), in one of nine
situations (`Turn`): the camera is at work (`Busy`), its report is on the wire (`Sent`), in the
buffer (`Arriving`) or being judged (`Deliberating`), an order (`Ordered`) or the ACK
(`Acked`) is on its way back, the camera has given up (`Abandoned`), both ends are done
(`Closed`), or the camera has crashed (`Crashed`). The three invariants about sessions can be
read off this list; the proof takes the steps of the server, of the client and of the
connections through it.

`SystemImplementsSessions` is read off it, too. In a session only its camera talks
(`OthersAreOutside`, `OneTalks`), so that each step is one at that camera. Of the server's
steps only the two that send are heard (`UnheardSteps`), and they are taken in `Deliberating`,
where nothing is on the wire and the buffer holds an order for this camera or the ACK: one
answer to one report (`AnswerTalks`). What the camera takes is all there is, `Ordered` or
`Acked`, and its mode is then as the order says or as it was (`ObeyTalks`). A stream that
fails by itself changes the pipeline and no mode.

`CommandsAreObeyed` relates the session to the file between player and handler. `ObeyInv`
adds to `TalkInv`: a command that counts (`pending`) is on its way to the file or in it, in
every document that a call is about to write included (`Promised`, `Kept`); nobody else sets
an action while it counts (`Setters`); a handler that looks at the action looks at its own
stream's (`Asks`), and one that has decided for an ACK has been told of the mode that the
command asks for (`Decides`). `done` is what handlers store themselves; from a player it
would ask for no mode.

**The pipeline** (`GstPipelineProofs`).

| Theorem | Statement | Assumes |
|---|---|---|
| `PipelineTypes` | `PipelineSpec => []PipelineTypeOK` | |
| `StagesHold` | `PipelineSpec => [](TInv /\ StageInv)` | `Prompt` |
| `StatusIsTold` | `PipelineSpec => []StatusTellsPipeline` | `Prompt` |
| `StreamsAreWatched` | `PipelineSpec => []PlayingIsWatched` | `Prompt` |
| `CameraIsHeldOnce` | `PipelineSpec => []OneHoldsTheCamera` | `Prompt` |

An order is a sequence of library calls of which a thread makes one at a time, so that every
invariant has to say how far each thread has come. What is left of an order is the end of one
of five sequences (`BuildLive`, `BuildLocal`, `StartsLive`, `StopsLive`, `StopsAll`), which
are divided into parts (`MakesLoop`, `MakesPipe`, `Spawns`, `Reports`, `Pauses`, ...); a lemma
for each says which calls it has and which part follows. `ScriptsOK` is that control is in
one of them, with the objects it needs, and `TInv` adds the types of the objects
(`ObjectsOK`): it holds of any interleaving, also where released objects are used, which
`gst_misuse` shows they are.

`Stage` says for each part what is true of the last pipeline and the last loop (stopped,
stopped but for a loop that is on, built, paused, playing, about to play in a thread that
is on its way to its loop, or lost by `initLive`), and `Alone` that no earlier pipeline or loop is in use and that no
two threads run the same loop. Both hold as long as no error on the bus crosses an order
(`StageInv`); the code does not guard against that, and the properties except it. TLC has
checked `StageInv` before it was proved. Without `Prompt` it is false: a stop may come before
the loop it should end.

**Updates** (`OtaUpdateProofs`).

| Theorem | Statement |
|---|---|
| `OtaTypes` | `OtaSpec => []OtaTypeOK` |
| `RecordsAreInstalled` | `OtaSpec => []RecordIsInstalled` |

`OtaInv` is `OtaTypeOK` and `Handlers` (where a handler uses a global that handlers share, it
holds a value of the kind it needs, though perhaps another client's), `NothingAhead` (nobody
is offered, told or has recorded a version before it is published, nor is one published
before its package) and `Progress`: until a command fails or power is lost, what an update
has fetched, unpacked and installed is at every command not older than what the client was
told and has recorded. It is `NothingAhead` that makes a fetched package new enough. Sessions
may cross.

**WebSocket connections** (`WsConnectionProofs`).

| Theorem | Statement |
|---|---|
| `OneWriterAtATime` | `WsSpec => []OneWriter` |
| `WsTypes` | `WsSpec => []WsTypeOK` |
| `ConnectionIsChannel` | `WsSpec => ImplementsFrameChannel` |

They hold for any number of frames, closes, timeouts and cuts. `OneWriterAtATime` has
`OneWriter` itself as its invariant, with the strands and queues being sequences (`Queues`):
`enqueue` posts a `write` only for a frame that finds the queue empty, and `wrote` posts the
next or leaves the queue empty after an error. `WsTypes` needs the order of the handshake
(`Handshake`): until both ends read frames nothing is sent but a request and its response, so
that what an end reads as a frame is one. Together they are `TInv`.

`ConnectionIsChannel` takes every step to a step of `FrameChannel` or a stutter: a step of
a strand is none, a write that completes is none unless it meets a closed socket, which
cuts, a content read delivers, a header read is none unless its frame ends the reading, and
an error gives up. The invariant is `CInv`, `TInv` with

* `Sending`: what is being written is the head of the queue, and the wire ends within a frame
  exactly when a header is written and its content is not. So a frame that leaves the queue
  is the next one on the wire (`HeaderWritten`, `ContentWritten`, `FrameWritten`), and what a
  reader takes is the first one (`HeaderRead`, `ContentRead`);
* `Masked`: the server makes no frame that the client would stop at after its header, whose
  content could still be lost; and `Pairs`: the client's frames are on the wire whole, so
  that the one whose header makes the server stop is the first in flight;
* `SocketOf`: a socket is reset only by a cut, and closed without one only at an end that
  has nothing left to do. So a send or a read fails only after a cut, or when everything has
  arrived.

The assumptions are those on the constants: `ConstantsAssumption`, `ServerAssumption` (the
workers are the handlers and the player thread; `Updates` has what handlers and players
store), `ClientAssumption`, `PlayerAssumption` (requests name a stream and an action, or
are malformed; reports store no action), `WsAssumption`, `PipelineAssumption` and
`UpdateAssumption` (`None` is no version, client or frame). TLC evaluates them in the runs.

Every invariant, action property and refinement that a run checks is proved. Only
model-checked is what holds under fairness, which is out of TLAPS's reach:
`RecoversUnlessTorn`, `CommandsEnd`, `StatusCatchesUp`, `EveryRequestIsServed`,
`TestPlayerEnds`, `StopEndsThread`, `UpToDate`, `CloseCompletes` and `EndsAreReleased`.

## 5. Not modelled

* References to the bus (`VA_gstreamer.c:311` releases it once more; how many it has
  depends on the release of GStreamer), audio, which is commented out, and SIGINT in
  `GstPipeline`.
* In `OtaUpdate`: a `tempBuff` that is half written when another thread reads it (its
  outcome, a client or server that stops, is that of a blank one), and a client that
  asks again before the server has done with its last connection.
* Of the WebSocket library: the TLS variants, the text of the HTTP handshake, the coding
  of lengths and masks (`server_ws.hpp:502` shifts an `int` by up to 56 bits for the long
  form), fragmented messages, which the code does not treat, `stop()`, and bytes that
  arrive in one read with the handshake, which the echo server cannot cause as it never
  speaks first. The callbacks of frames queued behind a failed one are never called
  (`:98`, `:105`); no program here passes one that matters. `send` after a close is not
  prevented by the code and not by the model.
* Of the demo programs: three endpoints of `server_ws.cpp` that differ from `echo` in
  whom they answer.
* Of the player server: start-up (its `protocols` array has one entry and no terminator,
  `PlayerServer.c:122`), and the calls of libwebsockets in the test player from a second
  thread, beyond their outcome.
* Socket set-up of the stream server.
* A `close` in one handler while another is blocked in `recv` on that descriptor: the
  other gets 0 bytes once the client has closed, as without it.
* Writes of status files that fail, as on a full disk: the result of `json_object_to_file`
  is ignored (`srvrJson.c:38`), so that a status or an acknowledged action is then lost.
* Short reads and partial sends of the 254-byte frames.
* `SIGLive` and the client's `setJsonValue`, which nobody calls.
* Predecessors and prototypes: `TCPServer` (three servers in one program, which defines
  the same functions three times and does not link), `TCPClient`, `OTA`, `JSON`, and the
  libwebsockets example `ws/server`, which has no state.
* `Backup`: more than four fifths of the repository's C and C++ lines are here, most of
  them copies of an earthquake monitor for Arduino boards with a driver for a motion
  sensor, an unrelated project with third-party code, and older states of the programs
  above. Nothing of it is built or called, but for the restart scripts, which are modelled.
  A model of the whole system therefore covers a small part of the repository's lines.

## 6. Plan

Done, in this order: `AtomicStatus`, `StatusFiles`, `StatusFilesProofs`,
`Connections`, `StreamerServer`, `StreamerClient`, `StreamerSystem`, `GstPipeline`,
`OtaUpdate`, `PlayerServer`, `FrameChannel`, `WsConnection`, `PlayerServerProofs`,
`WsConnectionProofs`, `StreamerSystemProofs`, `OtaUpdateProofs`, `PlayerAnswersProofs`,
`StreamerSessionProofs`, `GstPipelineProofs`, `CameraSession`.

Next, by weight:

1. `GstPipeline`: SIGINT, and the implementation of the four states of `pipeline` in
   `StreamerClient` as a refinement instead of an invariant.
2. `CameraSession` with SIGINT: which of its promises are left when `intHandler` opens a
   second connection in the middle of a session.
