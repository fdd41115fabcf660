------------------------- MODULE StreamerSystemProofs -------------------------
(***************************************************************************)
(* The running system uses the files as StatusFiles says, for any number   *)
(* of cameras, connections, requests, interrupts and failures, whether     *)
(* sessions overlap or not.  So what StatusFilesProofs proves of the files *)
(* holds in the running system.                                            *)
(***************************************************************************)
EXTENDS StreamerSystem, StatusFilesProofs, WellFoundedInduction

-----------------------------------------------------------------------------
(* Frames and connections *)

Fields == {"device", "toServer", "toClient", "client", "server"}

\* all is a set of connections by which the server is sent frames.
Wires(all) ==
  \A c \in DOMAIN all : DOMAIN all[c] = Fields /\ all[c].toServer \in Seq(Frames)

LEMMA FrameFields ==
  ASSUME NEW f \in Frames
  PROVE  /\ getJsonValueFromObj("streamId", f) \in Streams \cup {Null}
         /\ getJsonValueFromObj("status", f) \in Values \cup {Null}
<1>1. CASE f \in {Ack, Blank}
  <2>1. DOMAIN f = {"text"}
    BY <1>1 DEF Ack, Blank
  <2> QED
    BY <2>1 DEF getJsonValueFromObj
<1>2. CASE f \in [streamId : Streams, status : Values]
  BY <1>2 DEF getJsonValueFromObj
<1>3. CASE f \in [streamId : Streams, action : Values]
  <2>1. DOMAIN f = {"streamId", "action"} /\ f.streamId \in Streams
    BY <1>3
  <2> QED
    BY <2>1 DEF getJsonValueFromObj
<1> QED
  BY <1>1, <1>2, <1>3 DEF Frames

LEMMA TidyWires == ASSUME NEW all, Wires(all) PROVE Wires(Tidy(all))
<1>1. \A c \in DOMAIN Tidy(all) : c \in DOMAIN all /\ Tidy(all)[c] = all[c]
  BY DEF Tidy
<1> QED
  BY <1>1 DEF Wires

\* Changes of a connection that add no frame for the server.
LEMMA ChangedWires ==
  ASSUME NEW all, Wires(all), NEW other, DOMAIN other = DOMAIN all,
         \A c \in DOMAIN all : /\ DOMAIN other[c] = DOMAIN all[c]
                               /\ other[c].toServer \in {all[c].toServer, <<>>}
  PROVE  Wires(other)
<1>1. \A c \in DOMAIN all : DOMAIN all[c] = Fields /\ all[c].toServer \in Seq(Frames)
  BY DEF Wires
<1>2. <<>> \in Seq(Frames)
  OBVIOUS
<1>3. \A c \in DOMAIN other : DOMAIN other[c] = Fields /\ other[c].toServer \in Seq(Frames)
  BY <1>1, <1>2
<1> QED
  BY <1>3 DEF Wires

LEMMA EndWires ==
  ASSUME NEW r, DOMAIN r = Fields
  PROVE  DOMAIN ClientEndClosed(r) = Fields /\ ClientEndClosed(r).toServer = r.toServer
  BY DEF ClientEndClosed, Fields

LEMMA ServerEndWires ==
  ASSUME Wires(conns), NEW c, NEW frame
  PROVE  /\ Wires(AllServerEndsClosed)
         /\ Wires(ServerClosed(c))
         /\ Wires(SentToClient(c, frame))
<1>1. Wires(AllServerEndsClosed)
  <2> DEFINE other == [k \in DOMAIN conns |-> [conns[k] EXCEPT !.server = "closed", !.toServer = <<>>]]
  <2>1. \A k \in DOMAIN conns : /\ DOMAIN other[k] = DOMAIN conns[k]
                                /\ other[k].toServer = <<>>
    BY DEF Wires, Fields
  <2>2. Wires(other)
    BY <2>1, ChangedWires
  <2> QED
    BY <2>2, TidyWires DEF AllServerEndsClosed
<1>2. Wires(ServerClosed(c))
  <2> DEFINE other == [conns EXCEPT ![c].server = "closed"]
  <2>1. DOMAIN other = DOMAIN conns
    OBVIOUS
  <2>2. \A k \in DOMAIN conns : /\ DOMAIN other[k] = DOMAIN conns[k]
                                /\ other[k].toServer = conns[k].toServer
    BY DEF Wires, Fields
  <2>3. Wires(other)
    BY <2>1, <2>2, ChangedWires
  <2> QED
    BY <2>3, TidyWires DEF ServerClosed
<1>3. Wires(SentToClient(c, frame))
  <2> DEFINE more == [conns EXCEPT ![c].toClient = Append(@, frame)]
             reset == [conns EXCEPT ![c].client = "reset"]
  <2>1. DOMAIN more = DOMAIN conns /\ DOMAIN reset = DOMAIN conns
    OBVIOUS
  <2>2. \A k \in DOMAIN conns : /\ DOMAIN more[k] = DOMAIN conns[k]
                                /\ more[k].toServer = conns[k].toServer
    BY DEF Wires, Fields
  <2>3. \A k \in DOMAIN conns : /\ DOMAIN reset[k] = DOMAIN conns[k]
                                /\ reset[k].toServer = conns[k].toServer
    BY DEF Wires, Fields
  <2>4. Wires(more)
    BY <2>1, <2>2, ChangedWires
  <2>5. Wires(reset)
    BY <2>1, <2>3, ChangedWires
  <2> QED
    BY <2>4, <2>5 DEF SentToClient
<1> QED
  BY <1>1, <1>2, <1>3

LEMMA ClientEndWires ==
  ASSUME NEW all, Wires(all), NEW c, NEW d
  PROVE  Wires(ClientClosed(all, c)) /\ Wires(AllClientEndsClosed(all, d))
<1>1. Wires(ClientClosed(all, c))
  <2> DEFINE other == [all EXCEPT ![c] = ClientEndClosed(@)]
  <2>1. DOMAIN other = DOMAIN all
    OBVIOUS
  <2>2. \A k \in DOMAIN all : /\ DOMAIN other[k] = DOMAIN all[k]
                              /\ other[k].toServer = all[k].toServer
    BY EndWires DEF Wires
  <2>3. Wires(other)
    BY <2>1, <2>2, ChangedWires
  <2> QED
    BY <2>3, TidyWires DEF ClientClosed
<1>2. Wires(AllClientEndsClosed(all, d))
  <2> DEFINE other == [k \in DOMAIN all |-> IF all[k].device = d /\ all[k].client = "open"
                                            THEN ClientEndClosed(all[k]) ELSE all[k]]
  <2>1. \A k \in DOMAIN all : /\ DOMAIN other[k] = DOMAIN all[k]
                              /\ other[k].toServer = all[k].toServer
    BY EndWires DEF Wires
  <2>2. Wires(other)
    BY <2>1, ChangedWires
  <2> QED
    BY <2>2, TidyWires DEF AllClientEndsClosed
<1> QED
  BY <1>1, <1>2

LEMMA ClientSendWires ==
  ASSUME Wires(conns), NEW c, NEW d, NEW frame \in Frames
  PROVE  /\ Wires(Received(c))
         /\ Wires(SentToServer(c, frame))
         /\ Wires(Opened(d, c))
<1>1. Wires(Received(c))
  <2> DEFINE other == Received(c)
  <2>1. DOMAIN other = DOMAIN conns
    BY DEF Received
  <2>2. \A k \in DOMAIN conns : /\ DOMAIN other[k] = DOMAIN conns[k]
                                /\ other[k].toServer = conns[k].toServer
    BY DEF Wires, Fields, Received
  <2> QED
    BY <2>1, <2>2, ChangedWires
<1>2. Wires(SentToServer(c, frame))
  <2> DEFINE other == SentToServer(c, frame)
  <2>1. DOMAIN other = DOMAIN conns
    BY DEF SentToServer
  <2>2. ASSUME NEW k \in DOMAIN conns
        PROVE  DOMAIN other[k] = Fields /\ other[k].toServer \in Seq(Frames)
    <3>1. DOMAIN conns[k] = Fields /\ conns[k].toServer \in Seq(Frames)
      BY DEF Wires
    <3>2. CASE k # c
      BY <3>1, <3>2 DEF SentToServer
    <3>3. CASE k = c
      <4>1. other[k] = [conns[k] EXCEPT !.toServer = Append(@, frame)]
        BY <3>3 DEF SentToServer
      <4>2. other[k].toServer = Append(conns[k].toServer, frame) /\ DOMAIN other[k] = Fields
        BY <3>1, <4>1 DEF Fields
      <4> QED
        BY <3>1, <4>2
    <3> QED
      BY <3>2, <3>3
  <2> QED
    BY <2>1, <2>2 DEF Wires
<1>3. Wires(Opened(d, c))
  <2> DEFINE other == Opened(d, c)
  <2>1. DOMAIN NewConnection(d) = Fields /\ NewConnection(d).toServer = <<>>
    BY DEF NewConnection, Fields
  <2>2. ASSUME NEW k \in DOMAIN other
        PROVE  DOMAIN other[k] = Fields /\ other[k].toServer \in Seq(Frames)
    <3>1. CASE k = c
      <4>1. other[k] = NewConnection(d)
        BY <3>1 DEF Opened
      <4>2. <<>> \in Seq(Frames)
        OBVIOUS
      <4> HIDE DEF other
      <4> QED
        BY <2>1, <4>1, <4>2
    <3>2. CASE k # c
      <4>1. k \in DOMAIN conns /\ other[k] = conns[k]
        BY <3>2 DEF Opened
      <4> QED
        BY <4>1 DEF Wires
    <3> QED
      BY <3>1, <3>2
  <2> QED
    BY <2>2 DEF Wires
<1> QED
  BY <1>1, <1>2, <1>3

-----------------------------------------------------------------------------
(* The memory of the server *)

\* Where a handler works on a stream: msgParse has named it, and nothing ever makes
\* strmID NULL again while the process runs.
Naming == {"setId", "setStatus", "getStatus", "getAction", "isDone", "isOff", "differs",
           "act", "sendAct", "ack", "sendAck"}

Memory ==
  /\ at \in [Conns -> Places]
  /\ fd \in [Conns -> Conns \cup {Null}]
  /\ clntSock \in Conns \cup {Null}
  /\ ACK \in BOOLEAN
  /\ jobj \in [Conns -> Frames]
  /\ ret \in [Workers -> Values \cup {Null}]
  /\ strmID \in Streams \cup {Null}
  /\ tempBufS \in Frames
  /\ \A c \in Conns : at[c] \in Naming => strmID \in Streams

\* A handler that is going to look at the action has asked for it: what it is told
\* is a value, because every document has an action.
Asked(c) ==
  IF pc[c] = "idle"
  THEN ret[c] \in Values
  ELSE op[c].fn = "get" /\ pc[c] \notin {"truncate", "write"}

AllAsked == \A c \in Conns : at[c] \in {"isDone", "isOff", "differs", "act"} => Asked(c)

Reports == status \in [Devices -> {"ready", "live", "local", "off"}] /\ Wires(conns)

SInv == IInv /\ Memory /\ AllAsked /\ Reports

USE DEF Naming

LEMMA SystemInitInv == ASSUME SystemInit PROVE SInv
<1>1. IInv
  BY InitInv DEF SystemInit, ServerInit
<1>2. Blank \in Frames
  BY DEF Frames
<1>3. Memory
  BY <1>2 DEF SystemInit, ServerInit, FreshMemory, Memory, Places
<1>4. Reports
  BY DEF SystemInit, ClientInit, Reports, Wires
<1>5. AllAsked
  BY DEF SystemInit, ServerInit, FreshMemory, AllAsked
<1> QED
  BY <1>1, <1>3, <1>4, <1>5 DEF SInv

LEMMA LostMemory == ASSUME MemoryLost PROVE Memory'
<1>1. Blank \in Frames
  BY DEF Frames
<1> QED
  BY <1>1 DEF MemoryLost, Memory, Places

LEMMA LostReports == ASSUME Reports, MemoryLost, UNCHANGED status PROVE Reports'
<1>1. Wires(AllServerEndsClosed)
  BY ServerEndWires DEF Reports
<1> QED
  BY <1>1 DEF MemoryLost, Reports, Wires

\* What a file function returns is a value, or nothing.
LEMMA ReturnedType ==
  ASSUME IInv, NEW t \in Threads, FileStep(t), op'[t] = Null, phase' # "down"
  PROVE  Returned(t) \in Values \cup {Null}
<1> DEFINE f == op[t].file
           key == op[t].key
<1> SUFFICES ASSUME op[t].fn = "get", pc[t] \in {"read", "reread"}
             PROVE  disk[f][key] \in Values \cup {Null}
  BY DEF Returned
<1>1. op[t] # Null /\ op[t] \in Calls
  BY DEF IInv, TypeOK, Threads
<1>2. f \in Streams /\ key \in Keys
  BY <1>1 DEF Calls, Keys, AS!Keys
<1>3. ~Unreadable(f)
  <2> SUFFICES ASSUME Unreadable(f) PROVE FALSE
    OBVIOUS
  <2>1. ReadFile(t) \/ ReadAgain(t)
    BY DEF FileStep, ReadEntry, Truncate, WriteNew, WriteFile
  <2>2. CASE ReadFile(t)
    BY <1>1, <2>2 DEF ReadFile, Hold
  <2>3. CASE ReadAgain(t)
    BY <2>3 DEF ReadAgain, Stop
  <2> QED
    BY <2>1, <2>2, <2>3
<1>4. disk[f] \in Documents /\ DOMAIN disk[f] = Keys
  BY <1>2, <1>3 DEF IInv, TypeOK, DiskHistory, Unreadable
<1>5. PICK K \in SUBSET Keys : disk[f] \in [K -> Values]
  BY <1>4 DEF Documents, AS!Documents, Keys
<1> QED
  BY <1>2, <1>4, <1>5

-----------------------------------------------------------------------------
(* Steps that leave the files alone *)

\* A step of a handler outside the file functions: at most the places, the buffers
\* and the connections change.
LEMMA HandlerTypes ==
  ASSUME SInv, NEW c \in Conns, UNCHANGED <<status, ret>>,
         \/ Accept(c) \/ ThreadMain(c) \/ clientComm(c) \/ SIGAct(c) \/ SIGAck(c)
         \/ SendAct(c)
  PROVE  Memory' /\ Reports'
<1>1. CASE Accept(c)
  <2> DEFINE other == [conns EXCEPT ![c].server = "open"]
  <2>1. \A k \in DOMAIN conns : /\ DOMAIN other[k] = DOMAIN conns[k]
                                /\ other[k].toServer = conns[k].toServer
    BY DEF SInv, Reports, Wires, Fields
  <2>2. Wires(other)
    BY <2>1, ChangedWires DEF SInv, Reports
  <2>3. Reports'
    BY <1>1, <2>2 DEF Accept, SInv, Reports, Wires
  <2> QED
    BY <1>1, <2>3 DEF Accept, Goto, globalVars, SInv, Memory, Places
<1>2. CASE ThreadMain(c)
  BY <1>2 DEF ThreadMain, Goto, SInv, Memory, Places, Reports, Wires
<1>3. CASE clientComm(c)
  BY <1>3 DEF clientComm, Goto, SInv, Memory, Places, Reports, Wires
<1>4. CASE SIGAct(c)
  <2>1. strmID \in Streams /\ ret[c] \in Values
    BY <1>4 DEF SIGAct, Format, Handler, SInv, Memory, AllAsked, Asked
  <2>2. Order(strmID, ret[c]) \in Frames
    BY <2>1 DEF Order, Frames
  <2> QED
    BY <1>4, <2>1, <2>2
    DEF SIGAct, Format, Handler, Goto, SInv, Memory, Places, Reports, Wires
<1>5. CASE SIGAck(c)
  <2>1. Ack \in Frames
    BY DEF Frames
  <2> QED
    BY <1>5, <2>1 DEF SIGAck, Format, Handler, Goto, SInv, Memory, Places, Reports, Wires
<1>6. CASE SendAct(c)
  <2>1. Wires(SentToClient(clntSock, tempBufS))
    BY ServerEndWires DEF SInv, Reports
  <2>2. Reports'
    BY <1>6, <2>1 DEF SendAct, SInv, Reports, Wires
  <2> QED
    BY <1>6, <2>2 DEF SendAct, Goto, globalVars, SInv, Memory, Places
<1> QED
  BY <1>1, <1>2, <1>3, <1>4, <1>5, <1>6

\* Steps of a handler that may end the process: Stop is what the files see of it.
LEMMA CrashStep ==
  ASSUME SInv, phase = "serving", Crash, UNCHANGED status
  PROVE  Memory' /\ Reports' /\ Next
<1>1. Memory' /\ Reports'
  BY LostMemory, LostReports DEF Crash, SInv
<1> QED
  BY <1>1 DEF Crash, Next

LEMMA LoopStep ==
  ASSUME SInv, NEW c \in Conns, Loop(c), UNCHANGED status
  PROVE  Memory' /\ Reports' /\ [Next]_vars
<1>1. CASE Crash
  BY <1>1, CrashStep DEF Loop, Handler
<1>2. CASE ~Crash
  <2>1. Blank \in Frames
    BY DEF Frames
  <2>2. /\ NoFileAccess /\ UNCHANGED <<jobj, ret, strmID, clntSock, ACK, conns>>
        /\ fd' \in {fd, [fd EXCEPT ![c] = clntSock]}
        /\ \E place \in {"close", "recv"} : Goto(c, place)
        /\ tempBufS' \in {tempBufS, Blank}
    BY <1>2 DEF Loop
  <2>3. Memory'
    BY <2>1, <2>2 DEF Goto, SInv, Memory, Places
  <2>4. Reports'
    BY <2>2 DEF SInv, Reports, Wires
  <2> QED
    BY <2>2, <2>3, <2>4 DEF NoFileAccess
<1> QED
  BY <1>1, <1>2

LEMMA ReceiveStep ==
  ASSUME SInv, NEW c \in Conns, receiveData(c), UNCHANGED status
  PROVE  Memory' /\ Reports' /\ [Next]_vars
<1> DEFINE k == fd[c]
           other == [conns EXCEPT ![k].toServer = Tail(@)]
<1>1. CASE Crash
  BY <1>1, CrashStep DEF receiveData, Handler
<1>2. CASE ~Crash
  <2>1. /\ NoFileAccess /\ UNCHANGED <<jobj, ret, strmID, clntSock, ACK>> /\ Goto(c, "parse")
        /\ fd' = [fd EXCEPT ![c] = Null]
    BY <1>2 DEF receiveData, Parsing
  <2>2. tempBufS' \in Frames /\ Wires(conns')
    <3>1. CASE UNCHANGED <<tempBufS, conns>>
      BY <3>1 DEF SInv, Memory, Reports, Wires
    <3>2. CASE /\ Arrived(k) # <<>> /\ tempBufS' = Head(Arrived(k)) /\ conns' = other
      <4>1. k \in DOMAIN conns /\ Arrived(k) = conns[k].toServer
        BY <3>2 DEF Arrived, InUse
      <4>2. /\ \A j \in DOMAIN conns : /\ DOMAIN conns[j] = Fields
                                       /\ conns[j].toServer \in Seq(Frames)
        BY DEF SInv, Reports, Wires
      <4>3. Head(conns[k].toServer) \in Frames /\ Tail(conns[k].toServer) \in Seq(Frames)
        BY <3>2, <4>1, <4>2
      <4>4. ASSUME NEW j \in DOMAIN other
            PROVE  DOMAIN other[j] = Fields /\ other[j].toServer \in Seq(Frames)
        <5>1. CASE j # k
          BY <4>2, <5>1
        <5>2. CASE j = k
          <6>1. other[k] = [conns[k] EXCEPT !.toServer = Tail(@)]
            BY <4>1
          <6>2. other[k].toServer = Tail(conns[k].toServer) /\ DOMAIN other[k] = Fields
            BY <4>1, <4>2, <6>1 DEF Fields
          <6> HIDE DEF other
          <6> QED
            BY <4>3, <5>2, <6>2
        <5> QED
          BY <5>1, <5>2
      <4>5. Wires(other)
        BY <4>4 DEF Wires
      <4> QED
        BY <3>2, <4>1, <4>3, <4>5
    <3> QED
      BY <1>2, <3>1, <3>2 DEF receiveData
  <2>3. Memory'
    BY <2>1, <2>2 DEF Goto, SInv, Memory, Places
  <2>4. Reports'
    BY <2>2 DEF SInv, Reports, Wires
  <2> QED
    BY <2>1, <2>3, <2>4 DEF NoFileAccess
<1> QED
  BY <1>1, <1>2

LEMMA ParseStep ==
  ASSUME SInv, NEW c \in Conns, msgParse(c), UNCHANGED status
  PROVE  Memory' /\ Reports' /\ [Next]_vars
<1> DEFINE id == getJsonValueFromObj("streamId", tempBufS)
<1>1. CASE id = Null /\ strmID = Null
  BY <1>1, CrashStep DEF msgParse, Handler
<1>2. CASE ~(id = Null /\ strmID = Null)
  <2>1. id \in Streams \cup {Null} /\ tempBufS \in Frames /\ strmID \in Streams \cup {Null}
    BY FrameFields DEF SInv, Memory
  <2>2. /\ jobj' = [jobj EXCEPT ![c] = tempBufS]
        /\ strmID' = IF id = Null THEN strmID ELSE id
        /\ Goto(c, "setId")
        /\ NoFileAccess /\ UNCHANGED <<fd, clntSock, ACK, ret, tempBufS, conns>>
    BY <1>2 DEF msgParse
  <2> HIDE DEF id
  <2>3. strmID' \in Streams
    BY <1>2, <2>1, <2>2
  <2>4. Memory'
    BY <2>1, <2>2, <2>3 DEF Goto, SInv, Memory, Places
  <2>5. Reports'
    BY <2>2 DEF SInv, Reports, Wires
  <2> QED
    BY <2>2, <2>4, <2>5 DEF NoFileAccess
<1> QED
  BY <1>1, <1>2

LEMMA CloseStep ==
  ASSUME SInv, NEW c \in Conns, Close(c), UNCHANGED status
  PROVE  Memory' /\ Reports' /\ [Next]_vars
<1>1. Blank \in Frames /\ Wires(ServerClosed(clntSock))
  BY ServerEndWires DEF Frames, SInv, Reports
<1>2. Memory'
  BY <1>1 DEF Close, Goto, globalVars, SInv, Memory, Places
<1>3. Reports'
  BY <1>1 DEF Close, SInv, Reports, Wires
<1> QED
  BY <1>2, <1>3 DEF Close, NoFileAccess

-----------------------------------------------------------------------------
(* Calls of the file functions *)

\* What a handler asks of the files, as a worker of StatusFiles may ask it.
LEMMA CallFromStep ==
  ASSUME SInv, NEW c \in Conns, NEW place \in Naming, NEW fn \in {"get", "set"}, NEW key,
         NEW val, NEW next \in Naming \cup {"loop"}, CallFrom(c, place, fn, key, val, next),
         fn = "get" => key \in {"status", "action"} /\ val = Null,
         fn = "set" => <<key, val>> \in Updates
  PROVE  /\ next \in Places /\ strmID \in Streams /\ UNCHANGED <<fd, jobj, ret>>
         /\ at' = [at EXCEPT ![c] = next]
         /\ CallGet(c) \/ CallSet(c)
         /\ Next
<1>1. strmID \in Streams /\ phase = "serving" /\ c \in Workers
  BY ServerAssumption DEF CallFrom, Handler, SInv, Memory
<1>2. Call(c, fn, key, val, strmID) /\ UNCHANGED <<phase, todo, alarms, deaths>>
  BY DEF CallFrom
<1>3. CASE fn = "get"
  <2>1. CallGet(c)
    BY <1>1, <1>2, <1>3 DEF CallGet
  <2> QED
    BY <1>1, <2>1 DEF CallFrom, Goto, Places, Next
<1>4. CASE fn = "set"
  <2> DEFINE u == <<key, val>>
  <2>1. Call(c, "set", u[1], u[2], strmID) /\ u \in Updates
    BY <1>2, <1>4
  <2>2. CallSet(c)
    BY <1>1, <1>2, <2>1 DEF CallSet
  <2> QED
    BY <1>1, <2>2 DEF CallFrom, Goto, Places, Next
<1> QED
  BY <1>3, <1>4

LEMMA DecideStep ==
  ASSUME SInv, NEW c \in Conns, NEW place \in Naming, DecideAck(c, place), UNCHANGED status
  PROVE  Memory' /\ Reports' /\ [Next]_vars
<1>1. strmID \in Streams
  BY DEF DecideAck, Handler, SInv, Memory
<1>2. Memory'
  BY <1>1 DEF DecideAck, Goto, Silent, globalVars, SInv, Memory, Places
<1>3. Reports'
  BY DEF DecideAck, Silent, SInv, Reports, Wires
<1> QED
  BY <1>2, <1>3 DEF DecideAck, NoFileAccess

\* The statements of msgParse and SIGAck that follow a call change only the buffer,
\* the flag and the connections.
LEMMA CallMemory ==
  ASSUME SInv, NEW c \in Conns, NEW next \in Places, strmID \in Streams,
         at' = [at EXCEPT ![c] = next],
         UNCHANGED <<fd, clntSock, jobj, ret, strmID, status>>,
         ACK' \in BOOLEAN, tempBufS' \in {tempBufS, Blank}, Wires(conns')
  PROVE  Memory' /\ Reports'
<1>1. Blank \in Frames
  BY DEF Frames
<1>2. Memory'
  BY <1>1 DEF SInv, Memory, Places
<1>3. Reports'
  BY DEF SInv, Reports, Wires
<1> QED
  BY <1>2, <1>3

LEMMA AskStep ==
  ASSUME SInv, NEW c \in Conns, UNCHANGED status,
         Record(c) \/ IsDone(c) \/ IsOff(c) \/ Differs(c) \/ SendAck(c)
  PROVE  Memory' /\ Reports' /\ [Next]_vars
<1>1. /\ ({"streamId"} \X Streams) \subseteq Updates
      /\ ({"status"} \X (Values \cup {Null})) \subseteq Updates
      /\ <<"action", "done">> \in Updates
  BY ServerAssumption
<1>2. Reported(c) \in Values \cup {Null}
  BY FrameFields DEF Reported, SInv, Memory
<1>3. Wires(conns) /\ Wires(SentToClient(clntSock, tempBufS))
  BY ServerEndWires DEF SInv, Reports
<1>4. ASSUME NEW place \in {"isDone", "isOff", "differs"}, DecideAck(c, place)
      PROVE  Memory' /\ Reports' /\ [Next]_vars
  BY <1>4, DecideStep
<1>5. ASSUME NEW place \in Naming, NEW fn \in {"get", "set"}, NEW key, NEW val,
             NEW next \in Naming \cup {"loop"}, CallFrom(c, place, fn, key, val, next),
             fn = "get" => key \in {"status", "action"} /\ val = Null,
             fn = "set" => <<key, val>> \in Updates,
             UNCHANGED <<strmID, clntSock>>, ACK' \in BOOLEAN, tempBufS' \in {tempBufS, Blank},
             Wires(conns')
      PROVE  Memory' /\ Reports' /\ [Next]_vars
  <2>1. /\ next \in Places /\ strmID \in Streams /\ UNCHANGED <<fd, jobj, ret>>
        /\ at' = [at EXCEPT ![c] = next] /\ Next
    BY <1>5, CallFromStep
  <2>2. Memory' /\ Reports'
    BY <1>5, <2>1, CallMemory
  <2> QED
    BY <2>1, <2>2
<1>6. CASE Record(c) \/ IsDone(c) \/ IsOff(c)
  <2> /\ UNCHANGED <<strmID, clntSock>> /\ ACK' \in BOOLEAN
      /\ tempBufS' \in {tempBufS, Blank} /\ Wires(conns')
    BY <1>3, <1>6
    DEF Record, IsDone, IsOff, DecideAck, Silent, globalVars, Wires, SInv, Memory
  <2>1. CASE CallFrom(c, "setId", "set", "streamId", strmID, "setStatus")
    <3>1. strmID \in Streams
      BY <2>1 DEF CallFrom, Handler, SInv, Memory
    <3> QED
      BY <1>1, <1>5, <2>1, <3>1
  <2>2. CASE CallFrom(c, "setStatus", "set", "status", Reported(c), "getStatus")
    BY <1>1, <1>2, <1>5, <2>2
  <2>3. CASE CallFrom(c, "getStatus", "get", "status", Null, "getAction")
    BY <1>5, <2>3
  <2>4. CASE CallFrom(c, "getAction", "get", "action", Null, "isDone")
    BY <1>5, <2>4
  <2>5. CASE \E next \in {"isOff", "differs"} :
               CallFrom(c, "isDone", "get", "action", Null, next)
    BY <1>5, <2>5
  <2>6. CASE CallFrom(c, "isOff", "get", "action", Null, "differs")
    BY <1>5, <2>6
  <2>7. CASE \E place \in {"isDone", "isOff", "differs"} : DecideAck(c, place)
    BY <1>4, <2>7
  <2> QED
    BY <1>6, <2>1, <2>2, <2>3, <2>4, <2>5, <2>6, <2>7 DEF Record, IsDone, IsOff
<1>7. CASE Differs(c)
  <2>1. CASE DecideAck(c, "differs")
    BY <1>4, <2>1
  <2>2. CASE CallFrom(c, "differs", "get", "action", Null, "act")
    <3>1. /\ UNCHANGED <<strmID, clntSock>> /\ ACK' \in BOOLEAN
          /\ tempBufS' \in {tempBufS, Blank} /\ Wires(conns')
      BY <1>3, <1>7, <2>2 DEF Differs, DecideAck, Silent, globalVars, Wires, SInv, Memory
    <3> QED
      BY <1>5, <2>2, <3>1
  <2> QED
    BY <1>7, <2>1, <2>2 DEF Differs
<1>8. CASE SendAck(c)
  <2>1. /\ UNCHANGED <<strmID, clntSock>> /\ ACK' \in BOOLEAN
        /\ tempBufS' \in {tempBufS, Blank} /\ Wires(conns')
    BY <1>3, <1>8 DEF SendAck, Wires
  <2>2. CallFrom(c, "sendAck", "set", "action", "done", "loop")
    BY <1>8 DEF SendAck
  <2> QED
    BY <1>1, <1>5, <2>1, <2>2
<1> QED
  BY <1>6, <1>7, <1>8

-----------------------------------------------------------------------------
(* The threads of the server *)

LEMMA ServerFileStepHolds ==
  ASSUME SInv, NEW t \in Threads, ServerFileStep(t), UNCHANGED status
  PROVE  Memory' /\ Reports' /\ Next
<1>1. FileStep(t) /\ Next
  BY DEF ServerFileStep, Next, MainStep, Threads
<1>2. CASE phase' = "down"
  BY <1>1, <1>2, LostMemory, LostReports DEF ServerFileStep, SInv
<1>3. CASE phase' # "down"
  <2>1. UNCHANGED <<at, fd, clntSock, ACK, jobj, strmID, tempBufS, conns>>
    BY <1>3 DEF ServerFileStep, globalVars
  <2>2. ret' \in [Workers -> Values \cup {Null}]
    <3>1. CASE t \in Workers /\ op'[t] = Null
      <4>1. Returned(t) \in Values \cup {Null}
        BY <1>1, <1>3, <3>1, ReturnedType DEF SInv
      <4> QED
        BY <1>3, <3>1, <4>1 DEF ServerFileStep, SInv, Memory
    <3>2. CASE ~(t \in Workers /\ op'[t] = Null)
      BY <1>3, <3>2 DEF ServerFileStep, SInv, Memory
    <3> QED
      BY <3>1, <3>2
  <2>3. Memory'
    BY <2>1, <2>2 DEF SInv, Memory
  <2>4. Reports'
    BY <2>1 DEF SInv, Reports, Wires
  <2> QED
    BY <1>1, <2>3, <2>4
<1> QED
  BY <1>2, <1>3

LEMMA HandlerStepHolds ==
  ASSUME SInv, NEW c \in Conns, Accept(c) \/ HandlerStep(c), UNCHANGED status
  PROVE  Memory' /\ Reports' /\ [Next]_vars
<1>1. c \in Threads
  BY ServerAssumption DEF Threads
<1>2. CASE \/ Accept(c) \/ ThreadMain(c) \/ clientComm(c) \/ SIGAct(c) \/ SIGAck(c)
           \/ SendAct(c)
  <2>1. NoFileAccess /\ UNCHANGED ret
    BY <1>2 DEF Accept, ThreadMain, clientComm, SIGAct, SIGAck, Format, SendAct
  <2> QED
    BY <1>2, <2>1, HandlerTypes DEF NoFileAccess
<1>3. CASE Loop(c)
  BY <1>3, LoopStep
<1>4. CASE receiveData(c)
  BY <1>4, ReceiveStep
<1>5. CASE msgParse(c)
  BY <1>5, ParseStep
<1>6. CASE Record(c) \/ IsDone(c) \/ IsOff(c) \/ Differs(c) \/ SendAck(c)
  BY <1>6, AskStep
<1>7. CASE Close(c)
  BY <1>7, CloseStep
<1>8. CASE ServerFileStep(c)
  BY <1>1, <1>8, ServerFileStepHolds
<1> QED
  BY <1>2, <1>3, <1>4, <1>5, <1>6, <1>7, <1>8 DEF HandlerStep

LEMMA ServerStepHolds ==
  ASSUME SInv, ServerNext, UNCHANGED status
  PROVE  Memory' /\ Reports' /\ [Next]_vars
<1> Player \in Threads /\ Player \in Workers /\ Main \in Threads
  BY ServerAssumption DEF Threads
<1>1. CASE ServerProcess
  <2>1. CASE Die /\ MemoryLost
    BY <2>1, LostMemory, LostReports DEF SInv, Next
  <2>2. CASE /\ Boot \/ Alarm \/ NextEntry \/ BootDone
             /\ UNCHANGED <<serverVars, conns>>
    <3>1. Memory' /\ Reports'
      BY <2>2 DEF serverVars, SInv, Memory, Reports, Wires
    <3> QED
      BY <2>2, <3>1 DEF Next, MainStep
  <2> QED
    BY <1>1, <2>1, <2>2 DEF ServerProcess
<1>2. CASE ServerFileStep(Main) \/ ServerFileStep(Player)
  BY <1>2, ServerFileStepHolds
<1>3. CASE PlayerCommand \/ PlayerQuery
  <2>1. Memory' /\ Reports'
    BY <1>3 DEF PlayerCommand, PlayerQuery, PlayerAsks, serverVars, SInv, Memory, Reports,
                Wires
  <2>2. CASE PlayerCommand
    <3>1. PICK v \in Commands, s \in Streams : PlayerAsks("set", "action", v, s)
      BY <2>2 DEF PlayerCommand
    <3> DEFINE u == <<"action", v>>
    <3>2. u \in Updates /\ Call(Player, "set", u[1], u[2], s)
      BY <3>1, ServerAssumption DEF PlayerAsks
    <3>3. CallSet(Player)
      BY <3>1, <3>2 DEF PlayerAsks, CallSet
    <3> QED
      BY <2>1, <3>3 DEF Next
  <2>3. CASE PlayerQuery
    <3>1. CallGet(Player)
      BY <2>3 DEF PlayerQuery, PlayerAsks, CallGet
    <3> QED
      BY <2>1, <3>1 DEF Next
  <2> QED
    BY <1>3, <2>2, <2>3
<1>4. ASSUME NEW c \in Conns, Accept(c) \/ HandlerStep(c)
      PROVE  Memory' /\ Reports' /\ [Next]_vars
  BY <1>4, HandlerStepHolds
<1> QED
  BY <1>1, <1>2, <1>3, <1>4 DEF ServerNext

-----------------------------------------------------------------------------
(* What the handlers have asked for *)

\* A call of getJsonValueFromFile on a file that is there returns a value or goes on
\* reading: it writes nothing, as no document lacks its key.
LEMMA GetStep ==
  ASSUME IInv, NEW t \in Threads, FileStep(t), phase' # "down",
         op[t].fn = "get", pc[t] \notin {"truncate", "write"}
  PROVE  \/ op'[t] = Null /\ pc'[t] = "idle" /\ Returned(t) \in Values
         \/ op'[t] = op[t] /\ pc'[t] \notin {"idle", "truncate", "write"}
<1> DEFINE f == op[t].file
           key == op[t].key
<1>1. op[t] # Null /\ op[t] \in Calls /\ DOMAIN op = Threads /\ DOMAIN pc = Threads
  <2>1. pc[t] # "idle"
    BY DEF FileStep, ReadFile, ReadEntry, ReadAgain, Truncate, WriteNew, WriteFile
  <2> QED
    BY <2>1 DEF IInv, TypeOK
<1>2. f \in Streams /\ key \in Keys
  BY <1>1 DEF Calls, Keys, AS!Keys
<1>3. CASE Truncate(t) \/ WriteNew(t)
  BY <1>1, <1>3 DEF Truncate, WriteNew
<1>4. ASSUME ~Unreadable(f), Proceed(t, disk[f]), pc[t] \in {"read", "reread"}
      PROVE  op'[t] = Null /\ pc'[t] = "idle" /\ Returned(t) \in Values
  <2>1. disk[f] \in Documents /\ DOMAIN disk[f] = Keys
    BY <1>2, <1>4 DEF IInv, TypeOK, DiskHistory, Unreadable
  <2>2. PICK K \in SUBSET Keys : disk[f] \in [K -> Values]
    BY <2>1 DEF Documents, AS!Documents, Keys
  <2>3. disk[f][key] \in Values
    BY <1>2, <2>1, <2>2
  <2>4. Return(t)
    BY <1>2, <1>4, <2>1 DEF Proceed
  <2> QED
    BY <1>1, <1>4, <2>3, <2>4 DEF Return, Returned
<1>5. CASE ReadFile(t) /\ Unreadable(f)
  BY <1>1, <1>5 DEF ReadFile, Hold, IInv, TypeOK
<1>6. CASE ReadFile(t) /\ ~Unreadable(f)
  BY <1>4, <1>6 DEF ReadFile
<1>7. CASE ReadAgain(t)
  BY <1>4, <1>7 DEF ReadAgain, Stop
<1> QED
  BY <1>3, <1>5, <1>6, <1>7 DEF FileStep, ReadEntry, WriteFile

\* What other threads do does not matter to c.
LEMMA OthersAsk ==
  ASSUME SInv, NEW c \in Conns, at'[c] = at[c], UNCHANGED <<pc[c], op[c], ret[c]>>,
         at[c] \in {"isDone", "isOff", "differs", "act"} => Asked(c)
  PROVE  at'[c] \in {"isDone", "isOff", "differs", "act"} => Asked(c)'
BY DEF Asked

LEMMA FileStepAsked ==
  ASSUME SInv, NEW t \in Threads, ServerFileStep(t)
  PROVE  AllAsked'
<1>1. CASE phase' = "down"
  BY <1>1 DEF ServerFileStep, MemoryLost, AllAsked
<1>2. CASE phase' # "down"
  <2>1. at' = at /\ FileStep(t)
    BY <1>2 DEF ServerFileStep
  <2>2. ASSUME NEW c \in Conns, at[c] \in {"isDone", "isOff", "differs", "act"}
        PROVE  Asked(c)'
    <3>1. c \in Workers /\ c \in Threads
      BY ServerAssumption DEF Threads
    <3>2. Asked(c)
      BY <2>2 DEF SInv, AllAsked
    <3>3. CASE t # c
      <4>1. UNCHANGED <<pc[c], op[c]>>
        BY <1>2, <2>1, <3>1, <3>3
        DEF FileStep, ReadFile, ReadEntry, ReadAgain, Truncate, WriteNew, WriteFile, Proceed, Hold,
            Return, Stop, Store, SInv, IInv, TypeOK
      <4>2. ret'[c] = ret[c]
        BY <1>2, <3>1, <3>3 DEF ServerFileStep, SInv, Memory
      <4> QED
        BY <3>2, <4>1, <4>2 DEF Asked
    <3>4. CASE t = c
      <4>1. pc[c] # "idle"
        BY <2>1, <3>4 DEF FileStep, ReadFile, ReadEntry, ReadAgain, Truncate, WriteNew, WriteFile
      <4>2. \/ op'[t] = Null /\ pc'[t] = "idle" /\ Returned(t) \in Values
            \/ op'[t] = op[t] /\ pc'[t] \notin {"idle", "truncate", "write"}
        BY <1>2, <2>1, <3>2, <3>4, <4>1, GetStep DEF Asked, SInv
      <4>3. op'[t] = Null => ret'[t] = Returned(t)
        BY <1>2, <3>1, <3>4 DEF ServerFileStep, SInv, Memory
      <4> QED
        BY <3>2, <3>4, <4>1, <4>2, <4>3 DEF Asked
    <3> QED
      BY <3>3, <3>4
  <2> QED
    BY <2>1, <2>2 DEF AllAsked
<1> QED
  BY <1>1, <1>2

\* Handler c goes on, the others do not move.
LEMMA HandlerAsked ==
  ASSUME SInv, NEW c \in Conns, Accept(c) \/ HandlerStep(c)
  PROVE  AllAsked'
<1> DEFINE Asking == {"isDone", "isOff", "differs", "act"}
<1>1. ASSUME NEW place, at' = [at EXCEPT ![c] = place],
             \A b \in Conns \ {c} : UNCHANGED <<pc[b], op[b], ret[b]>>,
             place \in Asking => op'[c].fn = "get" /\ pc'[c] = "read"
      PROVE  AllAsked'
  <2>1. ASSUME NEW b \in Conns, at'[b] \in Asking PROVE Asked(b)'
    <3>1. CASE b = c
      BY <1>1, <2>1, <3>1 DEF Asked, SInv, Memory
    <3>2. CASE b # c
      BY <1>1, <2>1, <3>2, OthersAsk DEF SInv, AllAsked
    <3> QED
      BY <3>1, <3>2
  <2> QED
    BY <2>1 DEF AllAsked
<1>2. ASSUME NEW place, place \notin Asking, Goto(c, place), NoFileAccess, UNCHANGED ret
      PROVE  AllAsked'
  BY <1>1, <1>2 DEF Goto, NoFileAccess, vars
<1>3. CASE Crash
  BY <1>3 DEF Crash, MemoryLost, AllAsked
<1>4. CASE Accept(c) \/ ThreadMain(c) \/ clientComm(c)
  BY <1>2, <1>4 DEF Accept, ThreadMain, clientComm
<1>5. CASE ~Crash /\ (Loop(c) \/ receiveData(c) \/ msgParse(c))
  BY <1>2, <1>5 DEF Loop, receiveData, Parsing, msgParse
<1>6. CASE SIGAct(c) \/ SendAct(c) \/ SIGAck(c)
  BY <1>2, <1>6 DEF SIGAct, SendAct, SIGAck, Format
<1>7. CASE Close(c)
  <2>1. UNCHANGED <<op, pc>> /\ at' = [at EXCEPT ![c] = "none"] /\ ret' = [ret EXCEPT ![c] = Null]
    BY <1>7 DEF Close, Goto, NoFileAccess, vars
  <2>2. \A b \in Conns \ {c} : UNCHANGED <<pc[b], op[b], ret[b]>>
    BY <2>1, ServerAssumption DEF SInv, Memory
  <2> QED
    BY <1>1, <2>1, <2>2
<1>8. ASSUME NEW place, DecideAck(c, place) PROVE AllAsked'
  BY <1>2, <1>8 DEF DecideAck
<1>9. ASSUME NEW place, NEW fn, NEW key, NEW val, NEW next,
             CallFrom(c, place, fn, key, val, next), next \in Asking => fn = "get"
      PROVE  AllAsked'
  <2>1. /\ at' = [at EXCEPT ![c] = next] /\ ret' = ret
        /\ Call(c, fn, key, val, strmID)
    BY <1>9 DEF CallFrom, Goto
  <2>2. c \in Threads /\ op \in [Threads -> {Null} \cup Calls] /\ pc \in [Threads -> Labels]
    BY ServerAssumption DEF Threads, SInv, IInv, TypeOK
  <2>3. /\ op'[c].fn = fn /\ pc'[c] = "read"
        /\ \A b \in Threads \ {c} : UNCHANGED <<pc[b], op[b]>>
    BY <2>1, <2>2 DEF Call
  <2>4. Conns \subseteq Threads
    BY ServerAssumption DEF Threads
  <2> QED
    BY <1>1, <1>9, <2>1, <2>3, <2>4
<1>10. CASE Record(c)
  BY <1>9, <1>10 DEF Record
<1>11. CASE IsDone(c)
  BY <1>8, <1>9, <1>11 DEF IsDone
<1>12. CASE IsOff(c)
  BY <1>8, <1>9, <1>12 DEF IsOff
<1>13. CASE Differs(c)
  BY <1>8, <1>9, <1>13 DEF Differs
<1>14. CASE SendAck(c)
  BY <1>9, <1>14 DEF SendAck
<1>15. CASE ServerFileStep(c)
  BY <1>15, FileStepAsked, ServerAssumption DEF Threads
<1> QED
  BY <1>3, <1>4, <1>5, <1>6, <1>7, <1>10, <1>11, <1>12, <1>13, <1>14, <1>15 DEF HandlerStep

LEMMA ServerAsked ==
  ASSUME SInv, ServerNext
  PROVE  AllAsked'
<1> Player \in Threads /\ Main \in Threads /\ Conns \subseteq Threads \ {Main, Player}
  BY ServerAssumption, ConstantsAssumption DEF Threads
<1> /\ op \in [Threads -> {Null} \cup Calls] /\ pc \in [Threads -> Labels]
  BY DEF SInv, IInv, TypeOK
<1>1. ASSUME UNCHANGED <<at, ret>>, \A b \in Conns : UNCHANGED <<pc[b], op[b]>>
      PROVE  AllAsked'
  BY <1>1, OthersAsk DEF SInv, AllAsked
<1>2. CASE Die /\ MemoryLost
  BY <1>2 DEF MemoryLost, AllAsked
<1>3. CASE /\ Boot \/ Alarm \/ NextEntry \/ BootDone
           /\ UNCHANGED serverVars
  <2>1. \A b \in Conns : UNCHANGED <<pc[b], op[b]>>
    BY <1>3 DEF Boot, Alarm, NextEntry, BootDone, Call, storeVars
  <2> QED
    BY <1>1, <1>3, <2>1 DEF serverVars
<1>4. CASE ServerFileStep(Main) \/ ServerFileStep(Player)
  BY <1>4, FileStepAsked
<1>5. CASE PlayerCommand \/ PlayerQuery
  <2>1. \A b \in Conns : UNCHANGED <<pc[b], op[b]>>
    BY <1>5 DEF PlayerCommand, PlayerQuery, PlayerAsks, Call
  <2> QED
    BY <1>1, <1>5, <2>1 DEF PlayerCommand, PlayerQuery, PlayerAsks, serverVars
<1>6. ASSUME NEW c \in Conns, Accept(c) \/ HandlerStep(c) PROVE AllAsked'
  BY <1>6, HandlerAsked
<1> QED
  BY <1>2, <1>3, <1>4, <1>5, <1>6 DEF ServerNext, ServerProcess

-----------------------------------------------------------------------------
(* The devices *)

\* A device sends the status it has and is sent nothing by this but frames.
LEMMA DeviceStepHolds ==
  ASSUME SInv, NEW d \in Devices, DeviceStep(d)
  PROVE  Memory' /\ Reports' /\ UNCHANGED vars
<1> DEFINE Modes == {"ready", "live", "local", "off"}
<1>1. UNCHANGED vars /\ Memory'
  BY DEF DeviceStep, serverVars, SInv, Memory
<1>2. status \in [Devices -> Modes] /\ Wires(conns)
  BY DEF SInv, Reports
<1>3. ASSUME NEW c PROVE Wires(Opened(d, c)) /\ Wires(Received(c))
  <2>1. Blank \in Frames
    BY DEF Frames
  <2> QED
    BY <1>2, <2>1, ClientSendWires
<1>4. ASSUME NEW how, NEW wire \in {conns, Received(link[d])}, Gone(d, how, wire)
      PROVE  Wires(conns')
  <2>1. Wires(wire)
    BY <1>2, <1>3
  <2>2. Wires(AllClientEndsClosed(wire, d))
    BY <2>1, ClientEndWires
  <2> QED
    BY <1>4, <2>2 DEF Gone, Wires
<1>5. ASSUME OpenLink(d) PROVE Wires(conns')
  BY <1>3, <1>5 DEF OpenLink, Wires
<1>6. ASSUME NEW new \in Modes, NEW left, Becomes(d, new, left)
      PROVE  status' \in [Devices -> Modes] /\ Wires(conns')
  BY <1>2, <1>3, <1>6 DEF Becomes, Wires
<1>7. ASSUME Crashes(d) PROVE status' \in [Devices -> Modes] /\ Wires(conns')
  BY <1>2, <1>4, <1>7 DEF Crashes
<1>8. status' \in [Devices -> Modes] /\ Wires(conns')
  <2>1. CASE Connect(d)
    BY <1>2, <1>5, <2>1 DEF Connect
  <2>2. CASE SIGStatus(d)
    <3>1. status[d] \in Values /\ d \in Streams
      BY <1>2, ServerAssumption
    <3>2. Report(d, status[d]) \in Frames
      BY <3>1 DEF Report, Frames
    <3>3. Wires(SentToServer(link[d], Report(d, status[d])))
      BY <1>2, <3>2, ClientSendWires
    <3> QED
      BY <1>2, <2>2, <3>3 DEF SIGStatus, Wires
  <2>3. CASE ReceiveAck(d)
    <3>1. Wires(ClientClosed(Received(link[d]), link[d]))
      BY <1>3, ClientEndWires
    <3>2. Wires(conns')
      BY <1>4, <2>3, <3>1 DEF ReceiveAck, Wires
    <3> QED
      BY <1>2, <2>3, <3>2 DEF ReceiveAck
  <2>4. CASE ReceiveNothing(d)
    BY <1>2, <1>4, <2>4 DEF ReceiveNothing
  <2>5. ASSUME NEW new \in {"live", "local"}, Build(d, new)
        PROVE  status' \in [Devices -> Modes] /\ Wires(conns')
    <3>1. status[d] \in Modes
      BY <1>2
    <3> QED
      BY <1>6, <1>7, <2>5, <3>1 DEF Build
  <2>6. CASE GoLive(d)
    BY <1>6, <1>7, <2>5, <2>6 DEF GoLive, LiveBranchFails
  <2>7. CASE GoLocal(d)
    BY <1>6, <1>7, <2>5, <2>7 DEF GoLocal
  <2>8. CASE GoOff(d)
    <3>1. CASE Becomes(d, "ready", "freed")
      BY <1>6, <3>1
    <3>2. CASE conns' = Received(link[d]) /\ UNCHANGED status
      BY <1>2, <1>3, <3>2 DEF Wires
    <3> QED
      BY <1>7, <2>8, <3>1, <3>2 DEF GoOff
  <2>9. CASE Ignore(d)
    <3>1. status[d] \in Modes
      BY <1>2
    <3> QED
      BY <1>6, <2>9, <3>1 DEF Ignore
  <2>10. CASE StreamError(d)
    BY <1>2, <2>10 DEF StreamError, Wires
  <2>11. CASE Interrupt(d, phase = "serving")
    <3>1. status' \in [Devices -> Modes]
      BY <1>2, <2>11 DEF Interrupt
    <3>2. Wires(conns')
      BY <1>4, <1>5, <2>11 DEF Interrupt
    <3> QED
      BY <3>1, <3>2
  <2> QED
    BY <2>1, <2>2, <2>3, <2>4, <2>6, <2>7, <2>8, <2>9, <2>10, <2>11
    DEF DeviceStep, DeviceAlone, Reply, Obey
<1> QED
  BY <1>1, <1>8 DEF Reports, Wires

-----------------------------------------------------------------------------
(* The system *)

LEMMA SystemStepHolds ==
  ASSUME SInv, [SystemNext]_systemVars
  PROVE  SInv' /\ [Next]_vars
<1>1. Memory' /\ Reports' /\ [Next]_vars
  <2>1. CASE ServerNext /\ UNCHANGED clientVars
    BY <2>1, ServerStepHolds DEF clientVars
  <2>2. ASSUME NEW d \in Devices, DeviceStep(d) PROVE Memory' /\ Reports' /\ [Next]_vars
    BY <2>2, DeviceStepHolds
  <2>3. CASE UNCHANGED systemVars
    BY <2>3 DEF systemVars, serverVars, clientVars, SInv, Memory, Reports, Wires
  <2> QED
    BY <2>1, <2>2, <2>3 DEF SystemNext
<1>2. IInv'
  BY <1>1, NextInv DEF SInv
<1>3. AllAsked'
  <2>1. CASE ServerNext
    BY <2>1, ServerAsked
  <2>2. CASE UNCHANGED <<vars, serverVars>>
    BY <2>2 DEF vars, serverVars, SInv, AllAsked, Asked
  <2> QED
    BY <2>1, <2>2 DEF SystemNext, DeviceStep, systemVars
<1> QED
  BY <1>1, <1>2, <1>3 DEF SInv

\* Whatever cameras, handlers, players, alarms, interrupts, failures and kills do,
\* and however sessions overlap, the threads use the status files as StatusFiles
\* says: no handler calls a file function without a stream's name or stores a value
\* that is none (msgParse, SIGAct and SIGAck of srvrComm.c).
THEOREM SystemUsesFiles == SystemSpec => ImplementsStatusFiles
<1>1. SystemInit => SInv /\ Init
  BY SystemInitInv DEF SystemInit, ServerInit
<1>2. SInv /\ [SystemNext]_systemVars => SInv' /\ [Next]_vars
  BY SystemStepHolds
<1> QED
  BY <1>1, <1>2, PTL DEF SystemSpec, ImplementsStatusFiles, Spec

\* While the running system serves, no thread can meet a file that an earlier crash
\* left empty, and every document has all its keys: strcmp in msgParse gets no NULL
\* from a file.
THEOREM SystemMeetsNoTornFile == SystemSpec => [](NoTornAtRest /\ CompleteDocuments)
<1>1. Spec => [](NoTornAtRest /\ CompleteDocuments)
  BY TornFilesHaveWriters, DocumentsComplete, PTL
<1> QED
  BY <1>1, SystemUsesFiles, PTL DEF ImplementsStatusFiles

-----------------------------------------------------------------------------
(* The types of what is left *)

\* The lowest free number is a number.
LEMMA LeastFree ==
  ASSUME FreeConns # {}
  PROVE  (CHOOSE k \in FreeConns : \A j \in FreeConns : k <= j) \in FreeConns
<1>1. FreeConns \subseteq Nat
  BY ClientAssumption DEF FreeConns, Conns
<1>2. PICK k \in FreeConns : \A j \in FreeConns : <<j, k>> \notin OpToRel(<, Nat)
  BY <1>1, NatLessThanWellFounded, WFMin
<1>3. \A j \in FreeConns : k <= j
  <2>1. ASSUME NEW j \in FreeConns PROVE ~(j < k)
    BY <1>1, <1>2, Zenon DEF OpToRel
  <2> QED
    BY <1>1, <2>1
<1> QED
  BY <1>3

LEMMA OpenLinkType ==
  ASSUME ClientTypeOK, NEW d \in Devices, OpenLink(d)
  PROVE  doing' \in [Devices -> Doings] /\ link' \in [Devices -> Conns \cup {NoConn}]
<1>1. (CHOOSE k \in FreeConns : \A j \in FreeConns : k <= j) \in Conns
  BY LeastFree DEF OpenLink, FreeConns
<1> QED
  BY <1>1 DEF OpenLink, Now, ClientTypeOK, Doings

LEMMA BecomesType ==
  ASSUME ClientTypeOK, NEW d \in Devices, NEW new \in {"ready", "live", "local", "off"},
         NEW left \in {"none", "built", "playing", "freed", "lost"}, Becomes(d, new, left)
  PROVE  /\ doing' \in [Devices -> Doings]
         /\ link' \in [Devices -> Conns \cup {NoConn}]
         /\ status' \in [Devices -> {"ready", "live", "local", "off"}]
         /\ pipeline' \in [Devices -> {"none", "built", "playing", "freed", "lost"}]
         /\ leaving' \in [Devices -> BOOLEAN]
BY DEF Becomes, Now, ClientTypeOK, Doings

LEMMA GoneType ==
  ASSUME ClientTypeOK, NEW d \in Devices, NEW how \in {"dead", "gone"}, NEW wire,
         Gone(d, how, wire)
  PROVE  doing' \in [Devices -> Doings] /\ link' \in [Devices -> Conns \cup {NoConn}]
BY DEF Gone, Now, ClientTypeOK, Doings

LEMMA CrashesType ==
  ASSUME ClientTypeOK, NEW d \in Devices, Crashes(d)
  PROVE  ClientTypeOK'
BY GoneType DEF Crashes, counters, ClientTypeOK

LEMMA BuildType ==
  ASSUME ClientTypeOK, NEW d \in Devices, NEW new \in {"live", "local"}, Build(d, new)
  PROVE  ClientTypeOK'
<1>1. status[d] \in {"ready", "live", "local", "off"}
  BY DEF ClientTypeOK
<1>2. CASE Becomes(d, new, "playing") /\ UNCHANGED counters
  BY <1>2, BecomesType DEF counters, ClientTypeOK
<1>3. ASSUME NEW left \in {"built", "freed"}, Becomes(d, status[d], left),
             cameraFailures < MaxCameraFailures, cameraFailures' = cameraFailures + 1,
             UNCHANGED <<interrupts, streamErrors>>
      PROVE  ClientTypeOK'
  <2>1. cameraFailures' \in 0..MaxCameraFailures
    BY <1>3, ClientAssumption DEF ClientTypeOK
  <2> QED
    BY <1>1, <1>3, <2>1, BecomesType DEF ClientTypeOK
<1>4. CASE Crashes(d)
  BY <1>4, CrashesType
<1> QED
  BY <1>2, <1>3, <1>4 DEF Build

LEMMA LiveBranchFailsType ==
  ASSUME ClientTypeOK, NEW d \in Devices, LiveBranchFails(d)
  PROVE  ClientTypeOK'
<1>1. CASE Crashes(d)
  BY <1>1, CrashesType
<1>2. CASE Becomes(d, "live", "lost") /\ cameraFailures' = cameraFailures + 1
           /\ UNCHANGED <<interrupts, streamErrors>>
  <2>1. cameraFailures' \in 0..MaxCameraFailures
    BY <1>2, ClientAssumption DEF LiveBranchFails, ClientTypeOK
  <2> QED
    BY <1>2, <2>1, BecomesType DEF ClientTypeOK
<1> QED
  BY <1>1, <1>2 DEF LiveBranchFails

LEMMA DeviceTypes ==
  ASSUME ClientTypeOK, NEW d \in Devices, DeviceStep(d)
  PROVE  ClientTypeOK'
<1>1. /\ status[d] \in {"ready", "live", "local", "off"}
      /\ pipeline[d] \in {"none", "built", "playing", "freed", "lost"}
  BY DEF ClientTypeOK
<1>2. CASE Connect(d)
  BY <1>2, OpenLinkType DEF Connect, counters, ClientTypeOK
<1>3. CASE SIGStatus(d)
  BY <1>3 DEF SIGStatus, Now, counters, ClientTypeOK, Doings
<1>4. CASE ReceiveAck(d)
  <2>1. CASE Gone(d, "gone", Received(link[d]))
    BY <1>4, <2>1, GoneType DEF ReceiveAck, counters, ClientTypeOK
  <2>2. CASE ~leaving[d]
    BY <1>4, <2>2 DEF ReceiveAck, Now, counters, ClientTypeOK, Doings
  <2> QED
    BY <1>4, <2>1, <2>2 DEF ReceiveAck
<1>5. CASE ReceiveNothing(d)
  BY <1>5, GoneType DEF ReceiveNothing, counters, ClientTypeOK
<1>6. CASE GoLive(d)
  BY <1>1, <1>6, BuildType, LiveBranchFailsType, BecomesType, CrashesType
  DEF GoLive, counters, ClientTypeOK
<1>7. CASE GoLocal(d)
  BY <1>1, <1>7, BuildType, BecomesType, CrashesType DEF GoLocal, counters, ClientTypeOK
<1>8. CASE GoOff(d)
  <2>1. CASE Becomes(d, "ready", "freed") /\ UNCHANGED counters
    BY <2>1, BecomesType DEF counters, ClientTypeOK
  <2>2. CASE Now(d, "stopping") /\ UNCHANGED <<link, status, pipeline, leaving, counters>>
    BY <2>2 DEF Now, counters, ClientTypeOK, Doings
  <2> QED
    BY <1>8, <2>1, <2>2, CrashesType DEF GoOff
<1>9. CASE Ignore(d)
  BY <1>1, <1>9, BecomesType DEF Ignore, counters, ClientTypeOK
<1>10. CASE StreamError(d)
  <2>1. streamErrors' \in 0..MaxStreamErrors
    BY <1>10, ClientAssumption DEF StreamError, ClientTypeOK
  <2> QED
    BY <1>10, <2>1 DEF StreamError, ClientTypeOK
<1>11. CASE Interrupt(d, phase = "serving")
  <2>1. interrupts' \in 0..MaxInterrupts
    BY <1>11, ClientAssumption DEF Interrupt, ClientTypeOK
  <2>2. doing' \in [Devices -> Doings] /\ link' \in [Devices -> Conns \cup {NoConn}]
    BY <1>11, OpenLinkType, GoneType DEF Interrupt
  <2> QED
    BY <1>11, <2>1, <2>2 DEF Interrupt, ClientTypeOK
<1> QED
  BY <1>2, <1>3, <1>4, <1>5, <1>6, <1>7, <1>8, <1>9, <1>10, <1>11
  DEF DeviceStep, DeviceAlone, Reply, Obey

\* What the player server stores is a command.
Wishes == op[Player] # Null /\ op[Player].fn = "set" => op[Player].val \in Commands

Rest == /\ ClientTypeOK /\ requests \in 0..MaxRequests /\ Wishes
        /\ pending \in [Streams -> Commands \cup {Null}]

LEMMA ServerWishes ==
  ASSUME SInv, Wishes, ServerNext
  PROVE  Wishes'
<1> /\ {Player, Main} \subseteq Threads /\ Player # Main /\ \A c \in Conns : c \in Threads /\ c # Player
  BY ServerAssumption, ConstantsAssumption DEF Threads
<1> op \in [Threads -> {Null} \cup Calls]
  BY DEF SInv, IInv, TypeOK
<1>1. ASSUME op'[Player] \in {op[Player], Null} PROVE Wishes'
  BY <1>1 DEF Wishes
<1>2. CASE ServerProcess
  <2>1. op'[Player] \in {op[Player], Null}
    BY <1>2 DEF ServerProcess, Boot, Alarm, NextEntry, BootDone, Call, storeVars, Die, Stop, Nobody
  <2> QED
    BY <1>1, <2>1
<1>3. ASSUME NEW t \in Threads, ServerFileStep(t) PROVE Wishes'
  <2>1. op'[Player] \in {op[Player], Null}
    BY <1>3
    DEF ServerFileStep, FileStep, ReadFile, ReadEntry, ReadAgain, Truncate, WriteNew, WriteFile,
        Proceed, Hold, Return, Stop, Store, Nobody
  <2> QED
    BY <1>1, <2>1
<1>4. CASE PlayerCommand
  <2>1. PICK v \in Commands, s \in Streams : Call(Player, "set", "action", v, s)
    BY <1>4 DEF PlayerCommand, PlayerAsks
  <2>2. op'[Player].val = v
    BY <2>1 DEF Call
  <2> QED
    BY <2>2 DEF Wishes
<1>5. CASE PlayerQuery
  <2>1. op'[Player].fn = "get"
    BY <1>5 DEF PlayerQuery, PlayerAsks, Call
  <2> QED
    BY <2>1 DEF Wishes
<1>6. ASSUME NEW c \in Conns, Accept(c) \/ HandlerStep(c) PROVE Wishes'
  <2>1. CASE ServerFileStep(c)
    BY <1>3, <2>1
  <2>2. CASE ~ServerFileStep(c)
    <3>1. CASE op'[Player] \in {op[Player], Null}
      BY <1>1, <3>1
    <3>2. CASE Crash
      BY <1>1, <3>2 DEF Crash, Exit, Stop, Nobody
    <3>3. CASE NoFileAccess
      BY <1>1, <3>3 DEF NoFileAccess, vars
    <3>4. ASSUME NEW place, NEW fn, NEW key, NEW val, NEW next,
                 CallFrom(c, place, fn, key, val, next)
          PROVE  op'[Player] = op[Player]
      BY <3>4 DEF CallFrom, Call
    <3>5. Crash \/ NoFileAccess \/ op'[Player] = op[Player]
      BY <1>6, <2>2, <3>4
      DEF HandlerStep, Accept, ThreadMain, clientComm, Loop, receiveData, Parsing, msgParse, Record,
          IsDone, IsOff, Differs, DecideAck, SIGAct, SIGAck, Format, SendAct, SendAck, Close
    <3> QED
      BY <3>1, <3>2, <3>3, <3>5
  <2> QED
    BY <2>1, <2>2
<1> QED
  BY <1>2, <1>3, <1>4, <1>5, <1>6 DEF ServerNext

LEMMA RequestsType ==
  ASSUME requests \in 0..MaxRequests, ServerNext
  PROVE  requests' \in 0..MaxRequests
<1>1. CASE PlayerCommand \/ PlayerQuery
  BY <1>1, ServerAssumption DEF PlayerCommand, PlayerQuery, PlayerAsks
<1>2. CASE ~(PlayerCommand \/ PlayerQuery)
  <2>1. ASSUME NEW c, NEW place, NEW fn, NEW key, NEW val, NEW next,
               CallFrom(c, place, fn, key, val, next)
        PROVE  requests' = requests
    BY <2>1 DEF CallFrom
  <2>2. requests' = requests
    BY <1>2, <2>1
    DEF ServerNext, ServerProcess, ServerFileStep, HandlerStep, Accept, ThreadMain, clientComm,
        Loop, receiveData, Parsing, msgParse, Record, IsDone, IsOff, Differs, DecideAck, SIGAct,
        SIGAck, Format, SendAct, SendAck, Close, Crash
  <2> QED
    BY <2>2
<1> QED
  BY <1>1, <1>2

LEMMA RestHolds ==
  ASSUME SInv, Rest, [SystemNext]_systemVars
  PROVE  Rest'
<1>1. CASE UNCHANGED systemVars
  BY <1>1 DEF systemVars, clientVars, vars, Rest, ClientTypeOK, Wishes
<1>2. CASE SystemNext
  <2>1. ClientTypeOK' /\ requests' \in 0..MaxRequests /\ Wishes'
    <3>1. CASE ServerNext /\ UNCHANGED clientVars
      BY <3>1, ServerWishes, RequestsType DEF clientVars, Rest, ClientTypeOK
    <3>2. ASSUME NEW d \in Devices, DeviceStep(d)
          PROVE  ClientTypeOK' /\ requests' \in 0..MaxRequests /\ Wishes'
      BY <3>2, DeviceTypes DEF DeviceStep, vars, Rest, Wishes
    <3> QED
      BY <1>2, <3>1, <3>2 DEF SystemNext
  <2>2. \A s \in Streams : Commanding(s)' => op'[Player].val \in Commands
    BY <2>1 DEF Commanding, Wishes
  <2>3. PendingNext
    BY <1>2 DEF SystemNext
  <2>4. pending' \in [Streams -> Commands \cup {Null}]
    BY <2>2, <2>3 DEF PendingNext, Rest
  <2> QED
    BY <2>1, <2>4 DEF Rest
<1> QED
  BY <1>1, <1>2

LEMMA RestInit == ASSUME SystemInit PROVE Rest
<1>1. ClientTypeOK
  BY ClientAssumption DEF SystemInit, ClientInit, ClientTypeOK, Doings
<1>2. requests \in 0..MaxRequests /\ Wishes
  BY ServerAssumption DEF SystemInit, ServerInit, Init, Nobody, Wishes, Threads
<1> QED
  BY <1>1, <1>2 DEF SystemInit, Rest

\* Every variable of the system keeps its type, whatever the bounds: frames have
\* the fields their senders put there, an order carries a value and not NULL, and
\* only connections that exist are used.
THEOREM SystemTypes == SystemSpec => []SystemTypeOK
<1>1. SystemInit => SInv /\ Rest
  BY SystemInitInv, RestInit
<1>2. SInv /\ Rest /\ [SystemNext]_systemVars => SInv' /\ Rest'
  BY SystemStepHolds, RestHolds
<1>3. SInv /\ Rest => SystemTypeOK
  BY DEF SInv, IInv, Memory, Rest, SystemTypeOK, ServerTypeOK
<1> QED
  BY <1>1, <1>2, <1>3, PTL DEF SystemSpec

-----------------------------------------------------------------------------
(* The status and the pipeline of a device *)

\* Only a device that leaves has the status off, which the messages of the server
\* never give it.
LeavingWhenOff == \A d \in Devices : status[d] = "off" => leaving[d]

PInv == ClientTypeOK /\ LeavingWhenOff /\ PipelineMatchesStatus

\* What one device does to its own status is seen there alone.
LEMMA OneDevice ==
  ASSUME PInv, ClientTypeOK', NEW d \in Devices, streamErrors' = 0 => streamErrors = 0,
         \A e \in Devices \ {d} : UNCHANGED <<status[e], pipeline[e], leaving[e]>>,
         status'[d] = "off" => leaving'[d],
         streamErrors' = 0 /\ ~leaving'[d] =>
           (status'[d] \in {"live", "local"} <=> pipeline'[d] \in {"playing", "lost"})
  PROVE  PInv'
<1>1. LeavingWhenOff'
  BY DEF PInv, LeavingWhenOff
<1>2. PipelineMatchesStatus'
  BY DEF PInv, PipelineMatchesStatus
<1> QED
  BY <1>1, <1>2 DEF PInv

LEMMA BecomesMatches ==
  ASSUME PInv, ClientTypeOK', NEW d \in Devices, NEW new, NEW left, Becomes(d, new, left),
         UNCHANGED streamErrors, new = "off" => leaving[d],
         streamErrors = 0 /\ ~leaving[d] => (new \in {"live", "local"} <=> left \in {"playing", "lost"})
  PROVE  PInv'
<1>1. /\ status'[d] = new /\ pipeline'[d] = left /\ leaving' = leaving
      /\ \A e \in Devices \ {d} : UNCHANGED <<status[e], pipeline[e]>>
  BY DEF Becomes, PInv, ClientTypeOK
<1> QED
  BY <1>1, OneDevice

LEMMA SameMatches ==
  ASSUME PInv, ClientTypeOK', UNCHANGED <<status, pipeline, leaving, streamErrors>>
  PROVE  PInv'
BY DEF PInv, LeavingWhenOff, PipelineMatchesStatus

LEMMA PipelineStep ==
  ASSUME PInv, NEW d \in Devices, DeviceStep(d)
  PROVE  PInv'
<1>1. ClientTypeOK'
  BY DeviceTypes DEF PInv
<1>2. /\ status[d] \in {"ready", "live", "local", "off"} /\ streamErrors \in Nat
      /\ status[d] = "off" => leaving[d]
      /\ streamErrors = 0 /\ ~leaving[d] =>
           (status[d] \in {"live", "local"} <=> pipeline[d] \in {"playing", "lost"})
  BY DEF PInv, ClientTypeOK, LeavingWhenOff, PipelineMatchesStatus
<1>3. CASE Connect(d) \/ SIGStatus(d) \/ ReceiveAck(d) \/ ReceiveNothing(d)
  BY <1>1, <1>3, SameMatches DEF Connect, SIGStatus, ReceiveAck, ReceiveNothing, counters
<1>4. CASE Crashes(d)
  BY <1>1, <1>4, SameMatches DEF Crashes, counters
<1>5. ASSUME NEW new \in {"live", "local"}, status[d] = "ready", Build(d, new)
      PROVE  PInv'
  BY <1>1, <1>2, <1>4, <1>5, BecomesMatches DEF Build, counters
<1>6. CASE GoLive(d)
  <2>1. CASE Becomes(d, "live", pipeline[d]) /\ status[d] # "ready" /\ UNCHANGED counters
    BY <1>1, <1>2, <2>1, BecomesMatches DEF counters
  <2>2. CASE Becomes(d, "live", "lost") /\ UNCHANGED <<interrupts, streamErrors>>
    BY <1>1, <2>2, BecomesMatches
  <2> QED
    BY <1>4, <1>5, <1>6, <2>1, <2>2 DEF GoLive, LiveBranchFails
<1>7. CASE GoLocal(d)
  <2>1. CASE Becomes(d, "local", pipeline[d]) /\ status[d] # "ready" /\ UNCHANGED counters
    BY <1>1, <1>2, <2>1, BecomesMatches DEF counters
  <2> QED
    BY <1>4, <1>5, <1>7, <2>1 DEF GoLocal
<1>8. CASE GoOff(d)
  <2>1. CASE Becomes(d, "ready", "freed") /\ UNCHANGED counters
    BY <1>1, <2>1, BecomesMatches DEF counters
  <2>2. CASE UNCHANGED <<link, status, pipeline, leaving, counters>>
    BY <1>1, <2>2, SameMatches DEF counters
  <2> QED
    BY <1>4, <1>8, <2>1, <2>2 DEF GoOff
<1>9. CASE Ignore(d)
  BY <1>1, <1>2, <1>9, BecomesMatches DEF Ignore, counters
<1>10. CASE StreamError(d)
  <2>1. streamErrors' # 0 /\ \A e \in Devices \ {d} : pipeline'[e] = pipeline[e]
    BY <1>2, <1>10 DEF StreamError
  <2> QED
    BY <1>1, <1>2, <1>10, <2>1, OneDevice DEF StreamError
<1>11. CASE Interrupt(d, phase = "serving")
  <2>1. /\ leaving'[d] /\ UNCHANGED streamErrors
        /\ \A e \in Devices \ {d} : UNCHANGED <<status[e], pipeline[e], leaving[e]>>
    BY <1>11 DEF Interrupt, PInv, ClientTypeOK
  <2> QED
    BY <1>1, <2>1, OneDevice
<1> QED
  BY <1>3, <1>6, <1>7, <1>8, <1>9, <1>10, <1>11 DEF DeviceStep, DeviceAlone, Reply, Obey

\* The status a device has and will report tells whether its pipeline plays, in
\* every order of actions, failures of setAll and crashes (msgParse of
\* ClientComm.c), until a stream error or SIGINT; but for the pipeline that initLive
\* has released, which ClientComm.c:43 does not notice, and which counts as live.
THEOREM ReportedStatusIsTrue == SystemSpec => []PipelineMatchesStatus
<1>1. SystemInit => PInv
  <2> SUFFICES ASSUME SystemInit PROVE PInv
    OBVIOUS
  <2>1. ClientTypeOK
    BY RestInit DEF Rest
  <2> QED
    BY <2>1 DEF SystemInit, ClientInit, PInv, LeavingWhenOff, PipelineMatchesStatus
<1>2. PInv /\ [SystemNext]_systemVars => PInv'
  <2> SUFFICES ASSUME PInv, [SystemNext]_systemVars PROVE PInv'
    OBVIOUS
  <2>1. CASE UNCHANGED clientVars
    BY <2>1 DEF clientVars, PInv, ClientTypeOK, LeavingWhenOff, PipelineMatchesStatus
  <2>2. ASSUME NEW d \in Devices, DeviceStep(d) PROVE PInv'
    BY <2>2, PipelineStep
  <2> QED
    BY <2>1, <2>2 DEF SystemNext, systemVars
<1>3. PInv => PipelineMatchesStatus
  BY DEF PInv
<1> QED
  BY <1>1, <1>2, <1>3, PTL DEF SystemSpec
=============================================================================
