----------------------------- MODULE WsConnection -----------------------------
(***************************************************************************)
(* One connection of the WebSocket library: a SocketClient (client_ws.hpp) *)
(* and a SocketServer (server_ws.hpp) from connect to the release of both  *)
(* sockets, with the echo endpoint of server_ws.cpp and any program on the *)
(* client's side.                                                          *)
(*                                                                         *)
(* A step is one handler of boost::asio, or one asynchronous operation     *)
(* that completes.  Each end runs its handlers on one thread, as the two   *)
(* programs do.                                                            *)
(***************************************************************************)
EXTENDS Naturals, Sequences, SequencesExt, FiniteSets

CONSTANTS Idle,      \* timeout_idle > 0
          MaxSends,  \* bound: frames the client's program sends
          MaxCuts    \* bound: interruptions of the TCP connection

Client == "client"
Server == "server"
Ends == {Client, Server}
Peer(e) == IF e = Client THEN Server ELSE Client

VARIABLES
  reader,   \* reader[e]: what e is reading, or doing before it reads frames
  wire,     \* wire[e]: pieces sent by e and not yet read
  sock,     \* sock[e]: "open", "reset" (reads and writes fail) or "closed" by e
  strand,   \* strand[e]: handlers posted to the strand of e's Connection
  queue,    \* queue[e]: send_queue
  writing,  \* writing[e]: the asynchronous writes under way
  closed,   \* closed[e]: the flag of e's Connection
  listed,   \* the connection is in endpoint.connections
  requestTimer, idleTimer,  \* "off", "armed" or "due": its handler is queued
  crashed,  \* the server's process has ended on an error it does not handle
  ended,    \* history: ended[e] counts the calls of onclose and onerror
  cut,      \* history: the connection was interrupted
  sends, cuts  \* how many so far

wsVars == <<reader, wire, sock, strand, queue, writing, closed, listed,
            requestTimer, idleTimer, crashed, ended, cut, sends, cuts>>
sending  == <<strand, queue, writing, closed>>
timers   == <<requestTimer, idleTimer>>
counters == <<sends, cuts>>

ASSUME WsAssumption == Idle \in BOOLEAN /\ MaxSends \in Nat /\ MaxCuts \in Nat

\* n is the number of a frame, 0 for a pong, or the status code of a close frame.
Frames == [op : {"text", "ping", "unmasked"}, n : 0..MaxSends]
          \cup [op : {"pong"}, n : {0}]
          \cup [op : {"close"}, n : {1000, 1002}]

\* A frame is a header, with its length, and a content.
Pieces == [frame : Frames, part : {"header", "content"}]
Requests == {[op |-> "echo"], [op |-> "other"], [op |-> "accepted"]}

Enqueue(f) == [do |-> "enqueue", frame |-> f]
Write == [do |-> "write"]
Wrote(part, ok) == [do |-> "wrote", part |-> part, ok |-> ok]

Parts == {"header", "content", "all"}
Tasks == [do : {"enqueue"}, frame : Frames] \cup {Write}
         \cup [do : {"wrote"}, part : Parts, ok : BOOLEAN]

WsTypeOK ==
  /\ reader \in [Ends -> {"none", "connecting", "request", "response",
                          "header", "content", "stopped"}]
  /\ wire \in [Ends -> Seq(Pieces \cup Requests)]
  /\ sock \in [Ends -> {"none", "open", "reset", "closed"}]
  /\ strand \in [Ends -> Seq(Tasks)]
  /\ queue \in [Ends -> Seq(Frames)]
  /\ \A e \in Ends : writing[e] \subseteq [frame : Frames, part : Parts]
  /\ closed \in [Ends -> BOOLEAN]
  /\ listed \in BOOLEAN
  /\ requestTimer \in {"off", "armed", "due"}
  /\ idleTimer \in {"off", "armed", "due"}
  /\ crashed \in BOOLEAN
  /\ ended \in [Ends -> 0..1]
  /\ cut \in BOOLEAN
  /\ sends \in 0..MaxSends
  /\ cuts \in 0..MaxCuts

WsInit ==
  /\ reader = [e \in Ends |-> IF e = Client THEN "connecting" ELSE "none"]
  /\ wire = [e \in Ends |-> <<>>]
  /\ sock = [e \in Ends |-> "none"]
  /\ strand = [e \in Ends |-> <<>>]
  /\ queue = [e \in Ends |-> <<>>]
  /\ writing = [e \in Ends |-> {}]
  /\ closed = [e \in Ends |-> FALSE]
  /\ listed = FALSE
  /\ requestTimer = "off"
  /\ idleTimer = "off"
  /\ crashed = FALSE
  /\ ended = [e \in Ends |-> 0]
  /\ cut = FALSE
  /\ sends = 0
  /\ cuts = 0

Reads(e, what) == reader' = [reader EXCEPT ![e] = what]

\* A timer's cancel() stops its wait, unless the handler is queued already.
Cancelled(timer) == IF timer = "armed" THEN "off" ELSE timer

----------------------------------------------------------------------------
(* Sending *)

Post(e, task) == strand' = [strand EXCEPT ![e] = Append(@, task)]

\* send: the frame is made, and joins the queue in the strand.
send(e, f) == Post(e, Enqueue(f))

\* Mutant: the flag is not looked at.
SendCloseAgain(e, status) ==
  /\ closed' = [closed EXCEPT ![e] = TRUE]
  /\ send(e, [op |-> "close", n |-> status])

send_close(e, status) ==
  IF closed[e]
  THEN UNCHANGED <<closed, strand>>
  ELSE /\ closed' = [closed EXCEPT ![e] = TRUE]
       /\ send(e, [op |-> "close", n |-> status])

\* The server writes the header and then the message, the client both at once.
FirstPart(e) == IF e = Server THEN "header" ELSE "all"

NextTask(e, do) == strand[e] # <<>> /\ Head(strand[e]).do = do

StrandAfter(e, more) == strand' = [strand EXCEPT ![e] = Tail(@) \o more]

\* Mutant: every new frame starts the writing.
EnqueueAndWrite(e) ==
  /\ NextTask(e, "enqueue")
  /\ queue' = [queue EXCEPT ![e] = Append(@, Head(strand[e]).frame)]
  /\ StrandAfter(e, <<Write>>)
  /\ UNCHANGED writing

\* A new frame starts the writing only when it is alone in the queue.
EnqueueFrame(e) ==
  /\ NextTask(e, "enqueue")
  /\ queue' = [queue EXCEPT ![e] = Append(@, Head(strand[e]).frame)]
  /\ StrandAfter(e, IF queue[e] = <<>> THEN <<Write>> ELSE <<>>)
  /\ UNCHANGED writing

StartsWrite(e, part) ==
  writing' = [writing EXCEPT ![e] = @ \cup {[frame |-> Head(queue[e]), part |-> part]}]

send_from_queue(e) ==
  /\ NextTask(e, "write")
  /\ StartsWrite(e, FirstPart(e))
  /\ StrandAfter(e, <<>>)
  /\ UNCHANGED queue

\* Mutant: nothing follows a frame.
WriteHandlerStalls(e) ==
  /\ NextTask(e, "wrote")
  /\ LET done == Head(strand[e]) IN
     IF done.ok /\ done.part = "header"
     THEN StartsWrite(e, "content") /\ UNCHANGED queue
     ELSE queue' = [queue EXCEPT ![e] = Tail(@)] /\ UNCHANGED writing
  /\ StrandAfter(e, <<>>)

\* The header is written: the message follows.  The message is written: the next
\* frame follows.  An error empties the queue.
WriteHandler(e) ==
  /\ NextTask(e, "wrote")
  /\ LET done == Head(strand[e]) IN
     \/ /\ done.ok /\ done.part = "header"
        /\ StartsWrite(e, "content")
        /\ StrandAfter(e, <<>>)
        /\ UNCHANGED queue
     \/ /\ done.ok /\ done.part # "header"
        /\ queue' = [queue EXCEPT ![e] = Tail(@)]
        /\ StrandAfter(e, IF Len(queue[e]) > 1 THEN <<Write>> ELSE <<>>)
        /\ UNCHANGED writing
     \/ /\ ~done.ok
        /\ queue' = [queue EXCEPT ![e] = <<>>]
        /\ StrandAfter(e, <<>>)
        /\ UNCHANGED writing

StrandStep(e) ==
  /\ EnqueueFrame(e) \/ send_from_queue(e) \/ WriteHandler(e)
  /\ UNCHANGED <<reader, wire, sock, closed, listed, timers, crashed, ended, cut, counters>>

\* What a write puts on the wire.
Written(w) ==
  IF w.part = "all"
  THEN <<[frame |-> w.frame, part |-> "header"], [frame |-> w.frame, part |-> "content"]>>
  ELSE <<w>>

\* An asynchronous write completes.  What is sent to a socket that the other end
\* has closed is answered by a reset.
WriteCompletes(e) ==
  /\ \E w \in writing[e] :
       /\ writing' = [writing EXCEPT ![e] = @ \ {w}]
       /\ Post(e, Wrote(w.part, sock[e] = "open"))
       /\ IF sock[e] = "open"
          THEN /\ wire' = [wire EXCEPT ![e] = @ \o Written(w)]
               /\ sock' = [sock EXCEPT ![e] = IF sock[Peer(e)] = "closed" THEN "reset" ELSE @]
               /\ cut' = (cut \/ sock[Peer(e)] = "closed")
          ELSE UNCHANGED <<wire, sock, cut>>
  /\ UNCHANGED <<reader, queue, closed, listed, timers, crashed, ended, counters>>

----------------------------------------------------------------------------
(* Connecting *)

\* async_connect succeeds, and so does the server's async_accept.
Connect ==
  /\ reader[Client] = "connecting"
  /\ reader' = [e \in Ends |-> "request"]
  /\ sock' = [e \in Ends |-> "open"]
  /\ requestTimer' = "armed"
  /\ UNCHANGED <<wire, sending, listed, idleTimer, crashed, ended, cut, counters>>

\* Resolving the name or connecting fails.
ConnectFails ==
  /\ reader[Client] = "connecting"
  /\ Reads(Client, "stopped")
  /\ ended' = [ended EXCEPT ![Client] = @ + 1]
  /\ UNCHANGED <<wire, sock, sending, listed, timers, crashed, cut, counters>>

\* handshake of the client: the request is written.
SendRequest ==
  /\ reader[Client] = "request"
  /\ sock[Client] = "open"
  /\ \E op \in {"echo", "other"} : wire' = [wire EXCEPT ![Client] = Append(@, [op |-> op])]
  /\ Reads(Client, "response")
  /\ UNCHANGED <<sock, sending, listed, timers, crashed, ended, cut, counters>>

\* Something has arrived for e and e has not closed its socket.
Readable(e) == wire[Peer(e)] # <<>> /\ sock[e] \in {"open", "reset"}
Incoming(e) == Head(wire[Peer(e)])
Taken(e) == wire' = [wire EXCEPT ![Peer(e)] = Tail(@)]

\* read_handshake: without a matching endpoint the connection is dropped.
ReadRequest ==
  /\ reader[Server] = "request"
  /\ Readable(Server)
  /\ requestTimer' = Cancelled(requestTimer)
  /\ Reads(Server, IF Incoming(Server).op = "echo" THEN "response" ELSE "stopped")
  /\ Taken(Server)
  /\ UNCHANGED <<sock, sending, listed, idleTimer, crashed, ended, cut, counters>>

\* write_handshake completes: connection_open and read_message.
Open ==
  /\ reader[Server] = "response"
  /\ sock[Server] = "open"
  /\ wire' = [wire EXCEPT ![Server] = Append(@, [op |-> "accepted"])]
  /\ Reads(Server, "header")
  /\ idleTimer' = IF Idle THEN "armed" ELSE "off"
  /\ listed' = TRUE
  /\ UNCHANGED <<sock, sending, requestTimer, crashed, ended, cut, counters>>

\* The client has read the response: onopen and read_message.
ReadResponse ==
  /\ reader[Client] = "response"
  /\ Readable(Client)
  /\ Taken(Client)
  /\ Reads(Client, "header")
  /\ UNCHANGED <<sock, sending, listed, timers, crashed, ended, cut, counters>>

----------------------------------------------------------------------------
(* Reading frames *)

\* Mutant: connection_close leaves the idle timer armed.
EndedTimerKept(e) ==
  /\ Reads(e, "stopped")
  /\ ended' = [ended EXCEPT ![e] = @ + 1]
  /\ IF e = Server THEN listed' = FALSE ELSE UNCHANGED listed
  /\ UNCHANGED timers

\* A callback ends the connection at e: connection_close or connection_error of the
\* server, onclose or onerror of the client.  Nothing is read afterwards.
Ended(e) ==
  /\ Reads(e, "stopped")
  /\ ended' = [ended EXCEPT ![e] = @ + 1]
  /\ IF e = Server
     THEN listed' = FALSE /\ idleTimer' = Cancelled(idleTimer)
     ELSE UNCHANGED <<listed, idleTimer>>
  /\ UNCHANGED requestTimer

GoesOn(e, what) == Reads(e, what) /\ UNCHANGED <<ended, listed, timers>>

\* read_message: a frame that is not masked as it must be is a protocol error.
ReadHeader(e) ==
  /\ reader[e] = "header"
  /\ Readable(e)
  /\ IF Incoming(e).frame.op = "unmasked"
     THEN send_close(e, 1002) /\ Ended(e)
     ELSE GoesOn(e, "content") /\ UNCHANGED <<closed, strand>>

\* onmessage: the server echoes, as text; the client's program may close.
OnMessage(e, f) ==
  \/ e = Server /\ send(e, [f EXCEPT !.op = "text"]) /\ UNCHANGED closed
  \/ e = Client /\ UNCHANGED <<closed, strand>>
  \/ e = Client /\ send_close(e, 1000)

\* Mutant: reading goes on after a close frame.
ReadOnAfterClose(e) ==
  /\ reader[e] = "content"
  /\ Readable(e)
  /\ LET f == Incoming(e).frame IN
     IF f.op = "close"
     THEN /\ send_close(e, f.n)
          /\ Reads(e, "header")
          /\ ended' = [ended EXCEPT ![e] = @ + 1]
          /\ UNCHANGED <<listed, timers>>
     ELSE OnMessage(e, f) /\ GoesOn(e, "header")

\* read_message_content.  A pong is a message like any other.
ReadContent(e) ==
  /\ reader[e] = "content"
  /\ Readable(e)
  /\ LET f == Incoming(e).frame IN
     \/ f.op = "close" /\ send_close(e, f.n) /\ Ended(e)
     \/ f.op = "ping" /\ send(e, [op |-> "pong", n |-> 0]) /\ UNCHANGED closed /\ GoesOn(e, "header")
     \/ f.op \in {"text", "pong"} /\ OnMessage(e, f) /\ GoesOn(e, "header")

ReadFrame(e) ==
  /\ ReadHeader(e) \/ ReadContent(e)
  /\ Taken(e)
  /\ UNCHANGED <<sock, queue, writing, crashed, cut, counters>>

\* Reading fails: a reset, a socket closed by the request timer, or the end of what
\* the other end has sent before it closed.
ReadFails(e) ==
  \/ sock[e] \in {"reset", "closed"}
  \/ wire[Peer(e)] = <<>> /\ sock[Peer(e)] = "closed"

\* The server, reading a request, drops the connection without a callback.
DropRequest ==
  /\ reader[Server] = "request"
  /\ ReadFails(Server)
  /\ Reads(Server, "stopped")
  /\ requestTimer' = Cancelled(requestTimer)
  /\ UNCHANGED <<wire, sock, sending, listed, idleTimer, crashed, ended, cut, counters>>

\* onerror: of the client at any stage, of the server once it reads frames.
Error(e) ==
  /\ \/ e = Client /\ reader[e] \in {"response", "header", "content"} /\ ReadFails(e)
     \/ e = Client /\ reader[e] = "request" /\ sock[e] # "open"
     \/ e = Server /\ reader[e] \in {"header", "content"} /\ ReadFails(e)
     \/ e = Server /\ reader[e] = "response" /\ sock[e] # "open" /\ ~Idle
  /\ Ended(e)
  /\ UNCHANGED <<wire, sock, sending, crashed, cut, counters>>

\* The server's process ends, and its memory and its socket with it.
Crash ==
  /\ crashed' = TRUE
  /\ Reads(Server, "stopped")
  /\ sock' = [sock EXCEPT ![Server] = "closed"]
  /\ strand' = [strand EXCEPT ![Server] = <<>>]
  /\ queue' = [queue EXCEPT ![Server] = <<>>]
  /\ writing' = [writing EXCEPT ![Server] = {}]
  /\ listed' = FALSE
  /\ requestTimer' = "off"
  /\ idleTimer' = "off"
  /\ UNCHANGED <<wire, closed, ended, cut, counters>>

\* The response cannot be written: connection_error cancels an idle timer that
\* connection_open has not made yet.
ErrorBeforeOpen ==
  /\ Idle
  /\ reader[Server] = "response"
  /\ sock[Server] # "open"
  /\ Crash

----------------------------------------------------------------------------
(* Timers, programs and the connection below *)

\* The request timer runs out, and its handler closes the socket; its shutdown()
\* throws when the socket has been reset, and nothing catches that.
RequestTimerDue ==
  /\ requestTimer = "armed"
  /\ requestTimer' = "due"
  /\ UNCHANGED <<reader, wire, sock, sending, listed, idleTimer, crashed, ended, cut, counters>>

ShutdownThrows == requestTimer = "due" /\ sock[Server] = "reset" /\ Crash

RequestTimeout ==
  /\ requestTimer = "due"
  /\ sock[Server] # "reset"
  /\ requestTimer' = "off"
  /\ sock' = [e \in Ends |-> IF e = Server THEN "closed"
                             ELSE IF wire[e] # <<>> /\ sock[e] = "open" THEN "reset"
                             ELSE sock[e]]
  /\ cut' = TRUE
  /\ UNCHANGED <<reader, wire, sending, listed, idleTimer, crashed, ended, counters>>

\* The idle timer runs out: it is longer than a handshake.  Resetting it in send and
\* read_message_content only postpones it, and does nothing once it is due.
IdleTimerDue ==
  /\ idleTimer = "armed"
  /\ reader[Client] # "response"
  /\ idleTimer' = "due"
  /\ UNCHANGED <<reader, wire, sock, sending, listed, requestTimer, crashed, ended, cut, counters>>

IdleTimeout ==
  /\ idleTimer = "due"
  /\ idleTimer' = "off"
  /\ send_close(Server, 1000)
  /\ UNCHANGED <<reader, wire, sock, queue, writing, listed, requestTimer, crashed, ended, cut, counters>>

\* The client's program sends a frame (one that is not masked stands for a client
\* that is not this library), or closes.
ClientSends ==
  /\ reader[Client] \in {"header", "content"}
  /\ sends < MaxSends
  /\ sends' = sends + 1
  /\ \E op \in {"text", "ping", "unmasked"} : send(Client, [op |-> op, n |-> sends + 1])
  /\ UNCHANGED <<reader, wire, sock, queue, writing, closed, listed, timers, crashed, ended, cut, cuts>>

ClientCloses ==
  /\ reader[Client] \in {"header", "content"}
  /\ ~closed[Client]
  /\ send_close(Client, 1000)
  /\ UNCHANGED <<reader, wire, sock, queue, writing, listed, timers, crashed, ended, cut, counters>>

\* The TCP connection is interrupted.
CutOff ==
  /\ cuts < MaxCuts
  /\ cuts' = cuts + 1
  /\ \A e \in Ends : sock[e] = "open"
  /\ sock' = [e \in Ends |-> "reset"]
  /\ cut' = TRUE
  /\ UNCHANGED <<reader, wire, sending, listed, timers, crashed, ended, sends>>

\* Nothing refers to the Connection of e any more, or the client's start() returns
\* and its program ends.
Unused(e) ==
  /\ reader[e] = "stopped"
  /\ strand[e] = <<>>
  /\ writing[e] = {}
  /\ e = Server => requestTimer = "off" /\ idleTimer = "off"

\* The socket is closed with its Connection; data left unread make it a reset.
Release(e) ==
  /\ Unused(e)
  /\ sock[e] \in {"open", "reset"}
  /\ LET abrupt == wire[Peer(e)] # <<>> /\ sock[Peer(e)] = "open" IN
     /\ sock' = [sock EXCEPT ![e] = "closed", ![Peer(e)] = IF abrupt THEN "reset" ELSE @]
     /\ cut' = (cut \/ abrupt)
  /\ UNCHANGED <<reader, wire, sending, listed, timers, crashed, ended, counters>>

----------------------------------------------------------------------------

EndStep(e) ==
  \/ StrandStep(e) \/ WriteCompletes(e) \/ ReadFrame(e) \/ Error(e) \/ Release(e)

HandshakeStep ==
  \/ Connect \/ ConnectFails \/ SendRequest \/ ReadRequest \/ Open \/ ReadResponse
  \/ DropRequest \/ ErrorBeforeOpen

WsNext ==
  \/ HandshakeStep
  \/ \E e \in Ends : EndStep(e)
  \/ RequestTimerDue \/ RequestTimeout \/ ShutdownThrows \/ IdleTimerDue \/ IdleTimeout
  \/ ClientSends \/ ClientCloses \/ CutOff

WsSpec == WsInit /\ [][WsNext]_wsVars

\* Handlers that are ready run, and operations that can complete do.  Programs need
\* not send, timers that are armed need not expire, connections need not break.
FairWs ==
  /\ WsSpec
  /\ WF_wsVars(HandshakeStep)
  /\ WF_wsVars(RequestTimeout \/ ShutdownThrows) /\ WF_wsVars(IdleTimeout)
  /\ \A e \in Ends : /\ WF_wsVars(StrandStep(e)) /\ WF_wsVars(WriteCompletes(e))
                     /\ WF_wsVars(ReadFrame(e)) /\ WF_wsVars(Error(e))
                     /\ WF_wsVars(Release(e))

----------------------------------------------------------------------------
(* Properties *)

\* The handlers in a strand that write the head of the queue or have just done so.
Busy(tasks) == {i \in DOMAIN tasks : tasks[i].do \in {"write", "wrote"}}

\* The frames whose contents are among these pieces, of which headers and contents take
\* turns; the first of them is a content when its header has been read (ahead = 1).
Contents(pieces, ahead) ==
  [i \in 1..((Len(pieces) + ahead) \div 2) |-> pieces[2 * i - ahead].frame]

\* How far the reader of what e sends has come with a frame.
Ahead(e) == IF reader[Peer(e)] = "content" THEN 1 ELSE 0

\* Frames of e that are wholly on the wire.
OnWire(e) == Contents(wire[e], Ahead(e))

\* The frames in a strand that are on their way to the queue.
Posted(tasks) ==
  [i \in 1..(IF Busy(tasks) = {} THEN Len(tasks) ELSE Len(tasks) - 1) |->
     tasks[IF \E b \in Busy(tasks) : b <= i THEN i + 1 ELSE i].frame]

\* The head of the queue is written, and not yet removed.
WroteHead(e) ==
  \E i \in DOMAIN strand[e] :
    /\ strand[e][i].do = "wrote"
    /\ strand[e][i].ok
    /\ strand[e][i].part # "header"

\* Frames of e that are not wholly on the wire.
Waiting(e) == (IF WroteHead(e) THEN Tail(queue[e]) ELSE queue[e]) \o Posted(strand[e])

\* Frames of e that have been sent and can still arrive.
InFlight(e) ==
  IF reader[Peer(e)] = "stopped" THEN <<>>
  ELSE IF sock[e] = "open" THEN OnWire(e) \o Waiting(e)
  ELSE OnWire(e)

\* A connection is a pair of channels: frames arrive whole, once and in the order of
\* the calls of send; none is lost unless the connection is cut or closed.
Channel == INSTANCE FrameChannel WITH
  inFlight <- [e \in Ends |-> InFlight(e)],
  over <- [e \in Ends |-> reader[Peer(e)] = "stopped"],
  closing <- closed

ImplementsFrameChannel == Channel!Spec

\* One write at a time is under way or due while there are frames to send, none
\* otherwise: two would mix their bytes, none would leave the queue waiting for ever.
OneWriter ==
  \A e \in Ends :
    IF queue[e] = <<>>
    THEN writing[e] = {} /\ Busy(strand[e]) = {}
    ELSE \/ Busy(strand[e]) = {} /\ \E w \in writing[e] : writing[e] = {w}
         \/ writing[e] = {} /\ \E i \in Busy(strand[e]) : Busy(strand[e]) = {i}

\* Once an end has sent a close frame both ends are told that the connection is over,
\* also when the frame or its answer is lost.
CloseCompletes ==
  \A e \in Ends : closed[e] ~> crashed \/ \A x \in Ends : ended[x] = 1

\* A connection that has ended at one end leaves nothing behind: both sockets are
\* closed and the endpoint forgets it.
EndsAreReleased ==
  \A e \in Ends : ended[e] = 1 /\ sock[e] # "none"
                  ~> ~listed /\ \A x \in Ends : sock[x] = "closed"
=============================================================================
