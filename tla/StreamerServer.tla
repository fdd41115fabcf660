---------------------------- MODULE StreamerServer ----------------------------
(***************************************************************************)
(* The stream server (StreamerServer.c, srvrComm.c), one thread per        *)
(* connection, and the player server (PlayerServer.c), one thread for all  *)
(* players, on top of the status files.                                    *)
(*                                                                         *)
(* The handlers share the globals strmID, clntSock, ACK and tempBufS of    *)
(* srvrComm.c and Server.h; at, jobj and fd are what each has for itself.  *)
(* A step is one access to a file or to a socket, with the statements on   *)
(* the globals that follow it up to the next one, except that a received   *)
(* or formatted frame stays in tempBufS for a step of its own before it is *)
(* parsed or sent.                                                         *)
(***************************************************************************)
EXTENDS StatusFiles, Connections

CONSTANTS Player,      \* the service thread of the player server
          Commands,    \* actions a player asks for
          MaxRequests  \* bound: requests of players

VARIABLES
  at,        \* at[c]: where the handler of connection c is; "none" if not started
  fd,        \* fd[c]: the descriptor its recv was called with
  jobj,      \* jobj[c]: the frame it has parsed
  ret,       \* ret[t]: what thread t's last getJsonValueFromFile returned
  strmID, clntSock, ACK, tempBufS,  \* the globals
  requests   \* requests of players so far

handlerVars == <<at, fd, jobj, ret>>
globalVars  == <<strmID, clntSock, ACK, tempBufS>>
serverVars  == <<at, fd, jobj, ret, strmID, clntSock, ACK, tempBufS>>

ASSUME ServerAssumption ==
  /\ Player \notin Conns
  /\ Workers = Conns \cup {Player}
  /\ Devices \subseteq Streams
  /\ Commands \cup {"off", "live", "local", "ready", "done"} \subseteq Values
  /\ ({"streamId"} \X Streams) \cup ({"status"} \X (Values \cup {Null}))
       \cup ({"action"} \X (Commands \cup {"done"})) \subseteq Updates
  /\ MaxRequests \in Nat

Frames == {Ack, Blank} \cup [streamId : Streams, status : Values]
                       \cup [streamId : Streams, action : Values]

Places == {"none", "start", "comm", "loop", "recv", "parse", "setId", "setStatus",
           "getStatus", "getAction", "isDone", "isOff", "differs", "act", "sendAct",
           "ack", "sendAck", "close"}

ServerTypeOK ==
  /\ at \in [Conns -> Places]
  /\ fd \in [Conns -> Conns \cup {Null}]
  /\ jobj \in [Conns -> Frames]
  /\ ret \in [Workers -> Values \cup {Null}]
  /\ strmID \in Streams \cup {Null}
  /\ clntSock \in Conns \cup {Null}
  /\ ACK \in BOOLEAN
  /\ tempBufS \in Frames
  /\ requests \in 0..MaxRequests

\* The memory of a process that has just started.
FreshMemory ==
  /\ at = [c \in Conns |-> "none"]
  /\ fd = [c \in Conns |-> Null]
  /\ jobj = [c \in Conns |-> Blank]
  /\ ret = [t \in Workers |-> Null]
  /\ strmID = Null
  /\ clntSock = Null
  /\ ACK = FALSE
  /\ tempBufS = Blank

ServerInit == Init /\ FreshMemory /\ requests = 0

\* The process stops: its memory and its ends of the connections are gone.
MemoryLost ==
  /\ at' = [c \in Conns |-> "none"]
  /\ fd' = [c \in Conns |-> Null]
  /\ jobj' = [c \in Conns |-> Blank]
  /\ ret' = [t \in Workers |-> Null]
  /\ strmID' = Null
  /\ clntSock' = Null
  /\ ACK' = FALSE
  /\ tempBufS' = Blank
  /\ conns' = AllServerEndsClosed

\* exit(1) or a NULL dereference outside the file functions.
Crash == Exit /\ MemoryLost /\ UNCHANGED requests

getJsonValueFromObj(key, frame) == IF key \in DOMAIN frame THEN frame[key] ELSE Null

Reported(c) == getJsonValueFromObj("status", jobj[c])

----------------------------------------------------------------------------
(* A connection handler *)

\* Handler c is at a place with no file function in progress.
Handler(c, place) ==
  /\ phase = "serving"
  /\ at[c] = place
  /\ pc[c] = "idle"

Goto(c, place) == at' = [at EXCEPT ![c] = place]

NoFileAccess == UNCHANGED vars

\* The accept loop hands a connection to a new thread.
Accept(c) ==
  /\ phase = "serving"
  /\ InUse(c)
  /\ conns[c].server = "backlog"
  /\ at[c] = "none"
  /\ conns' = [conns EXCEPT ![c].server = "open"]
  /\ Goto(c, "start")
  /\ NoFileAccess /\ UNCHANGED <<fd, jobj, ret, globalVars, requests>>

ThreadMain(c) ==
  /\ Handler(c, "start")
  /\ clntSock' = c
  /\ Goto(c, "comm")
  /\ NoFileAccess /\ UNCHANGED <<fd, jobj, ret, strmID, ACK, tempBufS, conns, requests>>

clientComm(c) ==
  /\ Handler(c, "comm")
  /\ ACK' = FALSE
  /\ Goto(c, "loop")
  /\ NoFileAccess
  /\ UNCHANGED <<fd, jobj, ret, strmID, clntSock, tempBufS, conns, requests>>

\* while (!ACK) receive(): the buffer is cleared and recv called on clntSock; on a
\* closed descriptor it fails and the process exits.
Loop(c) ==
  /\ Handler(c, "loop")
  /\ IF ~ACK /\ ~(InUse(clntSock) /\ conns[clntSock].server = "open")
     THEN Crash
     ELSE /\ IF ACK
             THEN Goto(c, "close") /\ UNCHANGED <<fd, tempBufS>>
             ELSE /\ Goto(c, "recv")
                  /\ fd' = [fd EXCEPT ![c] = clntSock]
                  /\ tempBufS' = Blank
          /\ NoFileAccess
          /\ UNCHANGED <<jobj, ret, strmID, clntSock, ACK, conns, requests>>

\* What recv finds on descriptor k.
Arrived(k) == IF InUse(k) THEN conns[k].toServer ELSE <<>>

\* recv has returned, and with it receiveData.
Parsing(c) ==
  /\ fd' = [fd EXCEPT ![c] = Null]
  /\ Goto(c, "parse")
  /\ NoFileAccess /\ UNCHANGED <<jobj, ret, strmID, clntSock, ACK, requests>>

\* recv returns a frame, or nothing once the client has closed, or -1 after a
\* reset: the process exits.
receiveData(c) ==
  /\ Handler(c, "recv")
  /\ LET k == fd[c] IN
     \/ /\ Arrived(k) # <<>>
        /\ tempBufS' = Head(Arrived(k))
        /\ conns' = [conns EXCEPT ![k].toServer = Tail(@)]
        /\ Parsing(c)
     \/ /\ Arrived(k) = <<>>
        /\ InUse(k) => conns[k].client = "closed"
        /\ UNCHANGED <<tempBufS, conns>>
        /\ Parsing(c)
     \/ /\ InUse(k)
        /\ Arrived(k) = <<>>
        /\ conns[k].client = "reset"
        /\ Crash

\* Mutant: the first frame of a session is parsed again and again.
msgParseOnce(c) ==
  /\ Handler(c, "parse")
  /\ LET frame == IF jobj[c] = Blank THEN tempBufS ELSE jobj[c] IN
     /\ "streamId" \in DOMAIN frame
     /\ jobj' = [jobj EXCEPT ![c] = frame]
     /\ strmID' = frame.streamId
  /\ Goto(c, "setId")
  /\ NoFileAccess /\ UNCHANGED <<fd, ret, clntSock, ACK, tempBufS, conns, requests>>

\* Mutant: strmID is set for the first device only.
msgParseFirstDevice(c) ==
  /\ Handler(c, "parse")
  /\ jobj' = [jobj EXCEPT ![c] = tempBufS]
  /\ strmID' = IF strmID = Null THEN tempBufS.streamId ELSE strmID
  /\ Goto(c, "setId")
  /\ NoFileAccess /\ UNCHANGED <<fd, ret, clntSock, ACK, tempBufS, conns, requests>>

\* msgParse: what the buffer holds by now is parsed.  Without a streamId the last
\* one is kept; if there was none, newJsonFile dereferences NULL.
msgParse(c) ==
  /\ Handler(c, "parse")
  /\ LET id == getJsonValueFromObj("streamId", tempBufS) IN
     IF id = Null /\ strmID = Null
     THEN Crash
     ELSE /\ jobj' = [jobj EXCEPT ![c] = tempBufS]
          /\ strmID' = IF id = Null THEN strmID ELSE id
          /\ Goto(c, "setId")
          /\ NoFileAccess /\ UNCHANGED <<fd, ret, clntSock, ACK, tempBufS, conns, requests>>

\* Handler c calls a file function and goes on at the given place.
CallFrom(c, place, fn, key, val, next) ==
  /\ Handler(c, place)
  /\ Call(c, fn, key, val, strmID)
  /\ Goto(c, next)
  /\ UNCHANGED <<phase, todo, alarms, deaths, fd, jobj, ret, requests>>

Silent == UNCHANGED <<globalVars, conns>>

\* Mutant: the reported status is not stored.
RecordWithoutStatus(c) ==
  /\ \/ CallFrom(c, "setId", "set", "streamId", strmID, "setStatus")
     \/ CallFrom(c, "setStatus", "get", "status", Null, "getAction")
     \/ CallFrom(c, "getAction", "get", "action", Null, "isDone")
  /\ Silent

\* msgParse, srvrComm.c:66-69.
Record(c) ==
  /\ \/ CallFrom(c, "setId", "set", "streamId", strmID, "setStatus")
     \/ CallFrom(c, "setStatus", "set", "status", Reported(c), "getStatus")
     \/ CallFrom(c, "getStatus", "get", "status", Null, "getAction")
     \/ CallFrom(c, "getAction", "get", "action", Null, "isDone")
  /\ Silent

\* A condition of msgParse has decided for SIGAck.
DecideAck(c, place) ==
  /\ Handler(c, place)
  /\ Goto(c, "ack")
  /\ NoFileAccess /\ Silent /\ UNCHANGED <<fd, jobj, ret, requests>>

\* Mutant: "off" is taken as done whatever the device reports.
IsDoneOrOff(c) ==
  \/ ret[c] \in {"done", "off"} /\ DecideAck(c, "isDone")
  \/ /\ ret[c] \notin {"done", "off"}
     /\ CallFrom(c, "isDone", "get", "action", Null, "differs")
     /\ Silent

\* The three conditions of msgParse, each with a reading of "action" of its own.
IsDone(c) ==
  \/ ret[c] = "done" /\ DecideAck(c, "isDone")
  \/ /\ ret[c] # "done"
     /\ CallFrom(c, "isDone", "get", "action", Null,
                 IF Reported(c) = "ready" THEN "isOff" ELSE "differs")
     /\ Silent

IsOff(c) ==
  \/ ret[c] = "off" /\ DecideAck(c, "isOff")
  \/ ret[c] # "off" /\ CallFrom(c, "isOff", "get", "action", Null, "differs") /\ Silent

\* Mutant: the comparison of status and action is inverted.
DiffersInverted(c) ==
  \/ ret[c] # Reported(c) /\ ret[c] = "off" /\ DecideAck(c, "differs")
  \/ /\ ret[c] # "off"
     /\ CallFrom(c, "differs", "get", "action", Null, "act")
     /\ tempBufS' = Blank
     /\ UNCHANGED <<strmID, clntSock, ACK, conns>>

\* SIGAct begins with clearing the buffer and reading "action" once more.
Differs(c) ==
  \/ ret[c] = Reported(c) /\ DecideAck(c, "differs")
  \/ /\ ret[c] # Reported(c)
     /\ CallFrom(c, "differs", "get", "action", Null, "act")
     /\ tempBufS' = Blank
     /\ UNCHANGED <<strmID, clntSock, ACK, conns>>

\* A frame is formatted into the shared buffer.
Format(c, place, frame, next) ==
  /\ Handler(c, place)
  /\ tempBufS' = frame
  /\ Goto(c, next)
  /\ NoFileAccess
  /\ UNCHANGED <<fd, jobj, ret, strmID, clntSock, ACK, conns, requests>>

\* Mutant: SIGAct takes the action from the received frame, not from the file.
SIGActFromFrame(c) ==
  Format(c, "act", Order(strmID, getJsonValueFromObj("action", jobj[c])), "sendAct")

SIGAct(c) == Format(c, "act", Order(strmID, ret[c]), "sendAct")

SIGAck(c) == Format(c, "ack", Ack, "sendAck")

\* Mutant: SIGAct formats its frame and does not send it.
SendActForgotten(c) ==
  /\ Handler(c, "sendAct")
  /\ Goto(c, "loop")
  /\ NoFileAccess /\ UNCHANGED <<fd, jobj, ret, globalVars, conns, requests>>

\* Mutant: after SIGAct msgParse comes to SIGAck, as without its last else.
SendActThenAck(c) ==
  /\ Handler(c, "sendAct")
  /\ conns' = SentToClient(clntSock, tempBufS)
  /\ Goto(c, "ack")
  /\ NoFileAccess /\ UNCHANGED <<fd, jobj, ret, globalVars, requests>>

\* sendData of SIGAct: whatever the buffer holds goes to clntSock.
SendAct(c) ==
  /\ Handler(c, "sendAct")
  /\ conns' = SentToClient(clntSock, tempBufS)
  /\ Goto(c, "loop")
  /\ NoFileAccess /\ UNCHANGED <<fd, jobj, ret, globalVars, requests>>

\* Mutant: SIGAck passes the stream as the value.
SendAckWrongValue(c) ==
  /\ CallFrom(c, "sendAck", "set", "action", strmID, "loop")
  /\ conns' = SentToClient(clntSock, tempBufS)
  /\ ACK' = TRUE
  /\ UNCHANGED <<strmID, clntSock, tempBufS>>

\* sendData of SIGAck, and its last two statements.
SendAck(c) ==
  /\ CallFrom(c, "sendAck", "set", "action", "done", "loop")
  /\ conns' = SentToClient(clntSock, tempBufS)
  /\ ACK' = TRUE
  /\ UNCHANGED <<strmID, clntSock, tempBufS>>

\* The end of clientComm and of the thread.
Close(c) ==
  /\ Handler(c, "close")
  /\ conns' = ServerClosed(clntSock)
  /\ Goto(c, "none")
  /\ jobj' = [jobj EXCEPT ![c] = Blank]
  /\ ret' = [ret EXCEPT ![c] = Null]
  /\ NoFileAccess /\ UNCHANGED <<fd, globalVars, requests>>

\* One access to a status file by any thread.
ServerFileStep(t) ==
  /\ FileStep(t)
  /\ IF phase' = "down"
     THEN MemoryLost
     ELSE /\ ret' = IF t \in Workers /\ op'[t] = Null
                    THEN [ret EXCEPT ![t] = Returned(t)]
                    ELSE ret
          /\ UNCHANGED <<at, fd, jobj, globalVars, conns>>
  /\ UNCHANGED requests

HandlerStep(c) ==
  \/ ThreadMain(c) \/ clientComm(c) \/ Loop(c) \/ receiveData(c) \/ msgParse(c)
  \/ Record(c) \/ IsDone(c) \/ IsOff(c) \/ Differs(c)
  \/ SIGAct(c) \/ SendAct(c) \/ SIGAck(c) \/ SendAck(c) \/ Close(c)
  \/ ServerFileStep(c)

----------------------------------------------------------------------------
(* The player server: websocket_write_back, one request at a time *)

PlayerAsks(fn, key, val, s) ==
  /\ phase = "serving"
  /\ requests < MaxRequests
  /\ requests' = requests + 1
  /\ Call(Player, fn, key, val, s)
  /\ UNCHANGED <<phase, todo, alarms, deaths, serverVars, conns>>

\* Any action but "status" is stored; "status" is answered from the file.
PlayerCommand == \E v \in Commands, s \in Streams : PlayerAsks("set", "action", v, s)
PlayerQuery   == \E s \in Streams : PlayerAsks("get", "status", Null, s)

----------------------------------------------------------------------------
(* The process *)

ServerProcess ==
  /\ \/ Boot /\ UNCHANGED <<serverVars, conns>>
     \/ Alarm /\ UNCHANGED <<serverVars, conns>>
     \/ NextEntry /\ UNCHANGED <<serverVars, conns>>
     \/ BootDone /\ UNCHANGED <<serverVars, conns>>
     \/ Die /\ MemoryLost
  /\ UNCHANGED requests

ServerNext ==
  \/ ServerProcess
  \/ ServerFileStep(Main)
  \/ PlayerCommand \/ PlayerQuery \/ ServerFileStep(Player)
  \/ \E c \in Conns : Accept(c) \/ HandlerStep(c)
=============================================================================
