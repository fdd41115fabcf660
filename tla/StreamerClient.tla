---------------------------- MODULE StreamerClient ----------------------------
(***************************************************************************)
(* The client on a camera (Client.c, ClientComm.c of StreamerClient): it   *)
(* connects, reports its status and obeys the actions it is sent until it  *)
(* gets an ACK, closes, sleeps and starts again.                           *)
(*                                                                         *)
(* Of VA_gstreamer.c only what ClientComm.c depends on is here: whether    *)
(* the pipeline was built, plays or has been released, which decides the   *)
(* result of the next stopStreaming.                                       *)
(***************************************************************************)
EXTENDS Connections

CONSTANTS NoConn,            \* no connection
          MaxInterrupts,     \* bound: SIGINTs
          MaxCameraFailures, \* bound: failures of setAll or initLive
          MaxStreamErrors    \* bound: end-of-stream and error messages of the bus

VARIABLES
  doing,     \* doing[d]: where the client is
  link,      \* link[d]: srvrSock, the connection it talks on
  status,    \* status[d]: the global status
  pipeline,  \* pipeline[d]: "none", "built" in part, "playing", "freed", or "lost":
             \* released by initLive, whose result nobody looks at
  leaving,   \* leaving[d]: it is in intHandler
  interrupts, cameraFailures, streamErrors  \* how many so far

clientVars == <<doing, link, status, pipeline, leaving,
                interrupts, cameraFailures, streamErrors>>

ASSUME ClientAssumption ==
  /\ NoConn \notin Conns
  /\ {MaxConns, MaxInterrupts, MaxCameraFailures, MaxStreamErrors} \subseteq Nat

\* "idle": in sleep(5); "report": about to send; "wait": in recv; "stopping": in
\* the loop around stopStreaming; "dead": crashed; "gone": exited.
Doings == {"idle", "report", "wait", "stopping", "dead", "gone"}

ClientTypeOK ==
  /\ doing \in [Devices -> Doings]
  /\ link \in [Devices -> Conns \cup {NoConn}]
  /\ status \in [Devices -> {"ready", "live", "local", "off"}]
  /\ pipeline \in [Devices -> {"none", "built", "playing", "freed", "lost"}]
  /\ leaving \in [Devices -> BOOLEAN]
  /\ interrupts \in 0..MaxInterrupts
  /\ cameraFailures \in 0..MaxCameraFailures
  /\ streamErrors \in 0..MaxStreamErrors

ClientInit ==
  /\ doing = [d \in Devices |-> "idle"]
  /\ link = [d \in Devices |-> NoConn]
  /\ status = [d \in Devices |-> "ready"]
  /\ pipeline = [d \in Devices |-> "none"]
  /\ leaving = [d \in Devices |-> FALSE]
  /\ interrupts = 0
  /\ cameraFailures = 0
  /\ streamErrors = 0

Now(d, what) == doing' = [doing EXCEPT ![d] = what]

counters == <<interrupts, cameraFailures, streamErrors>>

FreeConns == Conns \ DOMAIN conns

\* connect2Client succeeds: the server listens and a descriptor is free.
OpenLink(d) ==
  /\ FreeConns # {}
  /\ LET c == CHOOSE k \in FreeConns : \A j \in FreeConns : k <= j
     IN conns' = Opened(d, c) /\ link' = [link EXCEPT ![d] = c]
  /\ Now(d, "report")

Connect(d) ==
  /\ doing[d] = "idle"
  /\ OpenLink(d)
  /\ UNCHANGED <<status, pipeline, leaving, counters>>

SIGStatus(d) ==
  /\ doing[d] = "report"
  /\ conns' = SentToServer(link[d], Report(d, status[d]))
  /\ Now(d, "wait")
  /\ UNCHANGED <<link, status, pipeline, leaving, counters>>

\* The process of the device ends, and with it all its connections.
Gone(d, how, wire) ==
  /\ Now(d, how)
  /\ link' = [link EXCEPT ![d] = NoConn]
  /\ conns' = AllClientEndsClosed(wire, d)

\* What recv finds on the link of d.
Incoming(d) == conns[link[d]].toClient

Receives(d, frame) ==
  /\ doing[d] = "wait"
  /\ Incoming(d) # <<>>
  /\ frame = Head(Incoming(d))

\* An ACK ends clientComm: main closes the socket; intHandler exits.
ReceiveAck(d) ==
  /\ Receives(d, Ack)
  /\ IF leaving[d]
     THEN Gone(d, "gone", Received(link[d]))
     ELSE /\ conns' = ClientClosed(Received(link[d]), link[d])
          /\ link' = [link EXCEPT ![d] = NoConn]
          /\ Now(d, "idle")
  /\ UNCHANGED <<status, pipeline, leaving, counters>>

\* A frame in which msgParse does not find what it compares: no streamId, or its own
\* without an action, as in a report that the server sends from its shared buffer.
LacksField(d, frame) ==
  IF "streamId" \in DOMAIN frame
  THEN frame.streamId = d /\ "action" \notin DOMAIN frame
  ELSE frame # Ack

\* Nothing was received, or a frame that lacks a field: strcmp is given NULL.
ReceiveNothing(d) ==
  /\ doing[d] = "wait"
  /\ \/ Incoming(d) = <<>> /\ conns[link[d]].server = "closed" /\ Gone(d, "dead", conns)
     \/ /\ Incoming(d) # <<>>
        /\ LacksField(d, Head(Incoming(d)))
        /\ Gone(d, "dead", Received(link[d]))
  /\ UNCHANGED <<status, pipeline, leaving, counters>>

\* What the pointer pipeline points to has been released.
Released(d) == pipeline[d] \in {"freed", "lost"}

\* A function of VA_gstreamer.c uses what has been released before, and crashes.
Crashes(d) ==
  /\ Gone(d, "dead", Received(link[d]))
  /\ UNCHANGED <<status, pipeline, leaving, counters>>

\* msgParse comes to its end with a new status and pipeline; clientComm reports.
Becomes(d, newStatus, newPipeline) ==
  /\ status' = [status EXCEPT ![d] = newStatus]
  /\ pipeline' = [pipeline EXCEPT ![d] = newPipeline]
  /\ Now(d, "report")
  /\ conns' = Received(link[d])
  /\ UNCHANGED <<link, leaving>>

\* Mutant: the result of setAll is not looked at.
BuildUnchecked(d, newStatus) ==
  \/ Becomes(d, newStatus, "playing") /\ UNCHANGED counters
  \/ /\ cameraFailures < MaxCameraFailures
     /\ cameraFailures' = cameraFailures + 1
     /\ Becomes(d, newStatus, "built")
     /\ UNCHANGED <<interrupts, streamErrors>>

\* setAll builds the pipeline, or fails: an element cannot be made and the pipeline
\* stays as it is, or a pad cannot be linked and initLocal frees it.  It begins with
\* stopStreaming and stopLive, which may crash after an earlier stop.
Build(d, newStatus) ==
  \/ /\ Becomes(d, newStatus, "playing")
     /\ UNCHANGED counters
  \/ /\ cameraFailures < MaxCameraFailures
     /\ cameraFailures' = cameraFailures + 1
     /\ \E left \in {"built", "freed"} : Becomes(d, status[d], left)
     /\ UNCHANGED <<interrupts, streamErrors>>
  \/ (pipeline[d] = "built" \/ Released(d)) /\ Crashes(d)

\* initLive fails on what setAll has built: a pad template is missing or the tee
\* cannot be linked, and it releases the pipeline.  msgParse goes on: startStreaming
\* plays what is released, which may crash, and the status is set.  (When an element
\* cannot be made the local branch plays, as it does when initLive fails in startLive,
\* where the pipeline is paused and not disposed of.)
LiveBranchFails(d) ==
  /\ cameraFailures < MaxCameraFailures
  /\ \/ /\ Becomes(d, "live", "lost")
        /\ cameraFailures' = cameraFailures + 1
        /\ UNCHANGED <<interrupts, streamErrors>>
     \/ Crashes(d)

\* action "live": from ready all is built, from local the live branch is added to the
\* pipeline, which bus_call or initLive may have released.
GoLive(d) ==
  /\ Receives(d, Order(d, "live"))
  /\ \/ status[d] = "ready" /\ (Build(d, "live") \/ LiveBranchFails(d))
     \/ status[d] # "ready" /\ Becomes(d, "live", pipeline[d]) /\ UNCHANGED counters
     \/ status[d] = "local" /\ Released(d) /\ Crashes(d)

\* action "local": from live the live branch is removed; stopLive goes on using
\* the bin after its removal, and may crash.
GoLocal(d) ==
  /\ Receives(d, Order(d, "local"))
  /\ \/ status[d] = "ready" /\ Build(d, "local")
     \/ status[d] # "ready" /\ Becomes(d, "local", pipeline[d]) /\ UNCHANGED counters
     \/ status[d] = "live" /\ Crashes(d)

\* stopStreaming returns 1 (SUCCESS).
Stoppable(d) == pipeline[d] \in {"built", "playing"}

\* action "off": stopStreaming is repeated until it returns 1, which it does for a
\* pipeline.  Without one it returns 0 for ever, on a released one it may also crash.
GoOff(d) ==
  /\ Receives(d, Order(d, "off"))
  /\ \/ Stoppable(d) /\ Becomes(d, "ready", "freed") /\ UNCHANGED counters
     \/ /\ ~Stoppable(d)
        /\ Now(d, "stopping")
        /\ conns' = Received(link[d])
        /\ UNCHANGED <<link, status, pipeline, leaving, counters>>
     \/ Released(d) /\ Crashes(d)

\* A frame for another streamId, and any other action, change nothing.
Ignore(d) ==
  /\ doing[d] = "wait"
  /\ Incoming(d) # <<>>
  /\ "streamId" \in DOMAIN Head(Incoming(d))
  /\ ~LacksField(d, Head(Incoming(d)))
  /\ \A action \in {"live", "local", "off"} : Head(Incoming(d)) # Order(d, action)
  /\ Becomes(d, status[d], pipeline[d])
  /\ UNCHANGED counters

\* SIGINT: intHandler stops the stream, which may crash on a released one, reports
\* "off" over a new connection and exits after the ACK, or at once when the server
\* does not listen.
Interrupt(d, listening) ==
  /\ interrupts < MaxInterrupts
  /\ interrupts' = interrupts + 1
  /\ doing[d] \in {"idle", "report", "wait", "stopping"}
  /\ ~leaving[d]
  /\ leaving' = [leaving EXCEPT ![d] = TRUE]
  /\ status' = [status EXCEPT ![d] = "off"]
  /\ pipeline' = [pipeline EXCEPT ![d] = IF @ = "none" THEN "none" ELSE "freed"]
  /\ \/ listening /\ OpenLink(d)
     \/ ~listening /\ Gone(d, "gone", conns)
     \/ Released(d) /\ Gone(d, "dead", conns)
  /\ UNCHANGED <<cameraFailures, streamErrors>>

\* bus_call: an error or the end of the stream stops the pipeline; the status stays.
StreamError(d) ==
  /\ streamErrors < MaxStreamErrors
  /\ streamErrors' = streamErrors + 1
  /\ doing[d] \notin {"dead", "gone"}
  /\ pipeline[d] = "playing"
  /\ pipeline' = [pipeline EXCEPT ![d] = "freed"]
  /\ UNCHANGED <<doing, link, status, leaving, interrupts, cameraFailures, conns>>

Obey(d) == GoLive(d) \/ GoLocal(d) \/ GoOff(d) \/ Ignore(d)

Reply(d) == ReceiveAck(d) \/ ReceiveNothing(d) \/ Obey(d)
=============================================================================
