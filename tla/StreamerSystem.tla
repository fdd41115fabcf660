---------------------------- MODULE StreamerSystem ----------------------------
(***************************************************************************)
(* Cameras, StreamerServer and players together: the clients of            *)
(* StreamerClient and the threads of StreamerServer over the connections   *)
(* between them.                                                           *)
(***************************************************************************)
EXTENDS StreamerServer, StreamerClient

CONSTANT Sparse  \* TRUE: a device connects only when no other session is under
                 \* way, as with one device and a sleep(5) (Client.c:94) that
                 \* outlasts the end of its last handler

VARIABLE pending  \* history: pending[s] is the command for s that no thread has
                  \* yet had a chance to lose, or Null

systemVars == <<vars, serverVars, requests, conns, clientVars, pending>>

SystemTypeOK ==
  /\ TypeOK /\ ServerTypeOK /\ ClientTypeOK
  /\ pending \in [Streams -> Commands \cup {Null}]

SystemInit ==
  /\ ServerInit
  /\ conns = <<>>
  /\ ClientInit
  /\ pending = [s \in Streams |-> Null]

----------------------------------------------------------------------------
(* The command a session has to obey *)

\* Two calls are in progress on the file of s.
Overlap(s) ==
  \E t, u \in Threads : /\ t # u
                        /\ op[t] # Null /\ op[u] # Null
                        /\ op[t].file = s /\ op[u].file = s

\* A handler has read the action and not yet acted upon it: a command stored now
\* may be overwritten by SIGAck, which stores "done" without reading again.
Deciding == \E c \in Conns : at[c] \in {"isDone", "isOff", "differs", "ack", "sendAck"}

Commanding(s) == op[Player] # Null /\ op[Player].fn = "set" /\ op[Player].file = s

\* A command counts from the call that stores it, unless another call overlaps
\* with that one or a handler is deciding when it returns, until an ACK or an
\* overlap of later calls.
PendingNext ==
  pending' = [s \in Streams |->
    IF \/ Overlap(s)'
       \/ phase' = "down" /\ Commanding(s)
       \/ Deciding' /\ Commanding(s) /\ ~Commanding(s)'
       \/ \E c \in Conns : at[c] = "sendAck" /\ at'[c] = "loop" /\ strmID = s
    THEN Null
    ELSE IF Commanding(s)' /\ ~Commanding(s) THEN op'[Player].val ELSE pending[s]]

----------------------------------------------------------------------------

NoSession == DOMAIN conns = {} /\ \A c \in Conns : at[c] = "none"

DeviceAlone(d) ==
  \/ SIGStatus(d)
  \/ Reply(d)
  \/ StreamError(d)

DeviceStep(d) ==
  /\ \/ phase = "serving" /\ (Sparse => NoSession) /\ Connect(d)
     \/ DeviceAlone(d)
     \/ Interrupt(d, phase = "serving")
  /\ UNCHANGED <<vars, serverVars, requests>>

SystemNext ==
  /\ \/ ServerNext /\ UNCHANGED clientVars
     \/ \E d \in Devices : DeviceStep(d)
  /\ PendingNext

SystemSpec == SystemInit /\ [][SystemNext]_systemVars

\* The restart loop, every thread of the server and every client run on; a client
\* in sleep(5) wakes up.  Commands, alarms, kills, interrupts and failures need
\* not happen.
SystemFairness ==
  /\ WF_systemVars(/\ Boot \/ NextEntry \/ BootDone
                   /\ UNCHANGED <<serverVars, requests, conns, clientVars>>
                   /\ PendingNext)
  /\ \A t \in Threads :
       WF_systemVars(ServerFileStep(t) /\ UNCHANGED clientVars /\ PendingNext)
  /\ \A c \in Conns :
       WF_systemVars(/\ Accept(c) \/ HandlerStep(c)
                     /\ UNCHANGED clientVars
                     /\ PendingNext)
  /\ \A d \in Devices :
       WF_systemVars(/\ DeviceStep(d)
                     /\ UNCHANGED <<interrupts, streamErrors>>
                     /\ PendingNext)

FairSystem == SystemSpec /\ SystemFairness

----------------------------------------------------------------------------
(* Properties *)

\* The handlers use the files as StatusFiles says, so that what holds of the files
\* there holds in the running system.
ImplementsStatusFiles == Spec

\* The turn of a camera that is doing this and finds that in recv; "gone" counts as
\* "dead".
TalkOf(what, incoming) ==
  IF what = "gone" THEN "dead"
  ELSE IF what # "wait" THEN what
  ELSE IF incoming = <<>> THEN "wait"
  ELSE IF Head(incoming) = Ack THEN "acked" ELSE "ordered"

OrderOf(what, incoming) ==
  IF what = "wait" /\ incoming # <<>>
  THEN getJsonValueFromObj("action", Head(incoming))
  ELSE Null

Sessions == INSTANCE CameraSession WITH
  Cameras <- Devices, Orders <- Values, NoOrder <- Null,
  talk <- [d \in Devices |-> TalkOf(doing[d], Incoming(d))],
  order <- [d \in Devices |-> OrderOf(doing[d], Incoming(d))],
  mode <- status

\* With one session at a time and no interrupt, the two programs and what they share
\* come down to a dialogue of reports and answers.
ImplementsCameraSession == Sessions!Spec

\* One of the two ends has the turn: while a client waits for an answer there is a
\* frame on the wire, or a handler that will send one, or the server is gone.  If
\* both waited for each other the session would hang for ever.
SomeoneHasTheTurn ==
  \A d \in Devices : doing[d] = "wait" =>
    LET c == link[d] IN
      \/ conns[c].toServer # <<>>
      \/ conns[c].toClient # <<>>
      \/ conns[c].server = "closed"
      \/ at[c] \notin {"none", "recv"}

\* An order is addressed to the device at the other end of the connection it was
\* sent on: the handlers do not take each other's socket, buffer or stream id.
OrdersReachTheirDevice ==
  \A c \in DOMAIN conns : \A i \in 1..Len(conns[c].toClient) :
    LET frame == conns[c].toClient[i] IN
      "action" \in DOMAIN frame => frame.streamId = conns[c].device

\* A device is in the mode it last reported when it takes the ACK for that report.
AckMatchesReport ==
  \A d \in Devices, c \in Conns :
    link[d] = c /\ doing[d] = "wait" /\ at[c] \in {"ack", "sendAck"} =>
      Reported(c) = status[d]

\* The status tells whether the pipeline plays, whatever setAll returned and after any
\* order of actions, until the stream fails by itself or the device is leaving.  It
\* is untrue in one way only: initLive has lost the pipeline, and the status says live,
\* or local later, with nothing playing, until the device is told off.
PipelineMatchesStatus ==
  \A d \in Devices : streamErrors = 0 /\ ~leaving[d] =>
    (status[d] \in {"live", "local"} <=> pipeline[d] \in {"playing", "lost"})

\* The mode a device reports once it has obeyed a command.
Mode(command) == IF command = "off" THEN "ready" ELSE command

\* A command that reached the file undisturbed is not acknowledged away: the session
\* ends only when the device reports the mode that was asked for.
ObeyedBeforeAck ==
  [][\A c \in Conns :
       /\ at[c] = "sendAck" /\ at'[c] = "loop"
       /\ pending[strmID] # Null /\ op[Player] = Null
       => Reported(c) = Mode(pending[strmID])]_systemVars

\* With no failure, a command ends: some session acknowledges it or a second
\* request disturbs it, or the device hangs or is gone.
CommandsEnd ==
  \A d \in Devices :
    pending[d] # Null ~> \/ pending[d] = Null
                         \/ phase = "down"
                         \/ doing[d] \in {"stopping", "dead", "gone"}

\* What players read of a device that keeps reporting comes to be its status, again
\* and again: an alarm marks it off, whatever it does, and may meet its report.
StatusCatchesUp ==
  \A d \in Devices :
    []<>(\/ ~Unreadable(d) /\ disk[d]["status"] = status[d]
         \/ phase = "down"
         \/ doing[d] \in {"stopping", "dead", "gone"})

\* After "off" the device is ready: "Device is Off/Ready now." (ClientComm.c:64).
OffCompletes ==
  \A d \in Devices : doing[d] = "stopping" ~> status[d] = "ready" /\ doing[d] # "stopping"
=============================================================================
