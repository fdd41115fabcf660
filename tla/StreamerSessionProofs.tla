------------------------- MODULE StreamerSessionProofs -------------------------
(***************************************************************************)
(* What two ends of a session may rely on, for any number of cameras,      *)
(* connections, requests, alarms, failures and kills: whose turn it is,    *)
(* and that what is sent is meant for who gets it.                         *)
(*                                                                         *)
(* The handlers share clntSock, tempBufS, strmID and ACK, so that this     *)
(* holds of one session at a time only: where Sparse is assumed it is what *)
(* the pauses of the clients give, and MaxInterrupts = 0 says that none of *)
(* them is interrupted (intHandler opens a second connection).             *)
(*                                                                         *)
(* Two parts follow: that a session is a dialogue of reports and answers   *)
(* (CameraSession), and about the file between player and handler, that a  *)
(* command no other call disturbs stays in it until the device has obeyed. *)
(***************************************************************************)
EXTENDS StreamerSystemProofs, SequenceTheorems

-----------------------------------------------------------------------------
(* The states of a session *)

Device(k) == conns[k].device

\* What is on the wire of connection k, and whether the client's end is open.
Wire(k, client, toServer, toClient) ==
  /\ conns[k].client = client
  /\ conns[k].toServer = toServer
  /\ conns[k].toClient = toClient

\* The handler is, or comes to be, in recv (when the server has not closed).
Awaits(k) == at[k] \in {"none", "start", "comm", "recv"} \/ (at[k] = "loop" /\ ~ACK)

\* The handler has sent its ACK and comes to its end.
Closing(k) ==
  conns[k].server = "closed" \/ at[k] = "close" \/ (at[k] = "loop" /\ ACK)

\* The device is going to report, or hangs in the loop around stopStreaming.
Busy(k) ==
  /\ Wire(k, "open", <<>>, <<>>) /\ Awaits(k)
  /\ doing[Device(k)] \in {"report", "stopping"}

\* The report is on the wire; then in the buffer of the server.
Sent(k) ==
  /\ Wire(k, "open", <<Report(Device(k), status[Device(k)])>>, <<>>) /\ Awaits(k)
  /\ doing[Device(k)] = "wait"

Arriving(k) ==
  /\ Wire(k, "open", <<>>, <<>>) /\ at[k] = "parse"
  /\ tempBufS = Report(Device(k), status[Device(k)])
  /\ doing[Device(k)] = "wait"

\* The handler decides on the report, and formats its answer.
Deliberating(k) ==
  /\ Wire(k, "open", <<>>, <<>>) /\ at[k] \in Naming
  /\ strmID = Device(k)
  /\ jobj[k] = Report(Device(k), status[Device(k)])
  /\ at[k] = "sendAct" => \E action : tempBufS = Order(Device(k), action)
  /\ at[k] = "sendAck" => tempBufS = Ack
  /\ doing[Device(k)] = "wait"

\* The answer is on the wire: an order, or an ACK.
Ordered(k) ==
  /\ \E action : Wire(k, "open", <<>>, <<Order(Device(k), action)>>)
  /\ Awaits(k)
  /\ doing[Device(k)] = "wait"

Acked(k) ==
  /\ Wire(k, "open", <<>>, <<Ack>>) /\ Closing(k)
  /\ doing[Device(k)] = "wait"

\* The server has stopped while the device waited.
Abandoned(k) ==
  /\ Wire(k, "open", <<>>, <<>>) /\ conns[k].server = "closed"
  /\ doing[Device(k)] = "wait"

\* The handler is in a call of setJsonValue that passes NULL on.
Doomed(k) ==
  pc[k] \notin {"idle", "truncate", "write"} /\ op[k].fn = "set" /\ op[k].val = Null

\* The device has closed after an ACK, or has crashed on an order: in this case recv
\* returns nothing, and the server stops at the report that has no status.
Closed(k) == Wire(k, "closed", <<>>, <<>>) /\ Closing(k)

Crashed(k) ==
  /\ Wire(k, "closed", <<>>, <<>>)
  /\ \/ Awaits(k)
     \/ at[k] = "parse" /\ tempBufS = Blank
     \/ at[k] \in {"setId", "setStatus"} /\ jobj[k] = Blank
     \/ at[k] = "getStatus" /\ Doomed(k)

Turn(k) ==
  \/ Busy(k) \/ Sent(k) \/ Arriving(k) \/ Deliberating(k) \/ Ordered(k) \/ Acked(k)
  \/ Abandoned(k) \/ Closed(k) \/ Crashed(k)

\* The one session there is: its client, its handler and the globals.
Placed(k) ==
  /\ DOMAIN conns = {k}
  /\ Device(k) \in Devices
  /\ conns[k].client = "open" => link[Device(k)] = k
  /\ conns[k].server \in {"backlog", "open", "closed"}
  /\ conns[k].server = "open" <=> at[k] # "none"
  /\ at[k] \notin {"none", "start"} => clntSock = k
  /\ at[k] = "recv" => fd[k] = k /\ tempBufS = Blank
  /\ at[k] \notin {"none", "start", "comm", "loop", "close"} => ~ACK
  /\ \A c \in Conns : c # k => at[c] = "none"
  /\ \A d \in Devices :
       link[d] # NoConn => link[d] = k /\ d = Device(k) /\ conns[k].client = "open"

Session(k) == Placed(k) /\ Turn(k)

NobodyTalks == NoSession /\ \A d \in Devices : link[d] = NoConn

\* A device that has no connection sleeps or is no more, and nobody is leaving.
Apart ==
  /\ link \in [Devices -> Conns \cup {NoConn}] /\ doing \in [Devices -> Doings]
  /\ \A d \in Devices : /\ link[d] = NoConn <=> doing[d] \in {"idle", "dead", "gone"}
                        /\ ~leaving[d] /\ status[d] # "off"
  /\ interrupts = 0

OneSession == Apart /\ (NobodyTalks \/ \E k \in Conns : Session(k))

-----------------------------------------------------------------------------
(* The connection of the session *)

USE DEF Naming

\* all is one connection, with these ends and this on its wire.
Holds(all, k, d, toServer, toClient, client, server) ==
  /\ DOMAIN all = {k} /\ DOMAIN all[k] = Fields
  /\ all[k].device = d
  /\ all[k].toServer = toServer /\ all[k].toClient = toClient
  /\ all[k].client = client /\ all[k].server = server

\* One end changes, or what is on its way to it.
LEMMA OneFieldHolds ==
  ASSUME NEW all, NEW k, NEW d, NEW up, NEW down, NEW client, NEW server, NEW new,
         Holds(all, k, d, up, down, client, server)
  PROVE  /\ Holds([all EXCEPT ![k].toServer = new], k, d, new, down, client, server)
         /\ Holds([all EXCEPT ![k].toClient = new], k, d, up, new, client, server)
         /\ Holds([all EXCEPT ![k].client = new], k, d, up, down, new, server)
         /\ Holds([all EXCEPT ![k].server = new], k, d, up, down, client, new)
<1>1. DOMAIN all[k] = Fields /\ DOMAIN all = {k} /\ k \in DOMAIN all
  BY DEF Holds
<1>2. ASSUME NEW r, DOMAIN r = Fields
      PROVE  Holds([all EXCEPT ![k] = r], k, r.device, r.toServer, r.toClient, r.client, r.server)
  BY <1>1, <1>2 DEF Holds
<1> DEFINE r1 == [all[k] EXCEPT !.toServer = new]
           r2 == [all[k] EXCEPT !.toClient = new]
           r3 == [all[k] EXCEPT !.client = new]
           r4 == [all[k] EXCEPT !.server = new]
<1>3. /\ [all EXCEPT ![k].toServer = new] = [all EXCEPT ![k] = r1]
      /\ [all EXCEPT ![k].toClient = new] = [all EXCEPT ![k] = r2]
      /\ [all EXCEPT ![k].client = new] = [all EXCEPT ![k] = r3]
      /\ [all EXCEPT ![k].server = new] = [all EXCEPT ![k] = r4]
  BY <1>1
<1>4. /\ DOMAIN r1 = Fields /\ DOMAIN r2 = Fields /\ DOMAIN r3 = Fields /\ DOMAIN r4 = Fields
  BY <1>1
<1>5. /\ r1.device = d /\ r1.toServer = new /\ r1.toClient = down /\ r1.client = client /\ r1.server = server
      /\ r2.device = d /\ r2.toServer = up /\ r2.toClient = new /\ r2.client = client /\ r2.server = server
      /\ r3.device = d /\ r3.toServer = up /\ r3.toClient = down /\ r3.client = new /\ r3.server = server
      /\ r4.device = d /\ r4.toServer = up /\ r4.toClient = down /\ r4.client = client /\ r4.server = new
  BY <1>1 DEF Holds, Fields
<1> HIDE DEF r1, r2, r3, r4
<1>6. /\ Holds([all EXCEPT ![k] = r1], k, r1.device, r1.toServer, r1.toClient, r1.client, r1.server)
      /\ Holds([all EXCEPT ![k] = r2], k, r2.device, r2.toServer, r2.toClient, r2.client, r2.server)
      /\ Holds([all EXCEPT ![k] = r3], k, r3.device, r3.toServer, r3.toClient, r3.client, r3.server)
      /\ Holds([all EXCEPT ![k] = r4], k, r4.device, r4.toServer, r4.toClient, r4.client, r4.server)
  BY <1>2, <1>4
<1> QED
  BY <1>3, <1>5, <1>6

\* A connection stays until both its ends are closed.
LEMMA TidyHolds ==
  ASSUME NEW all, NEW k, NEW d, NEW up, NEW down, NEW client, NEW server,
         Holds(all, k, d, up, down, client, server)
  PROVE  IF client = "open" \/ server # "closed"
         THEN Holds(Tidy(all), k, d, up, down, client, server)
         ELSE DOMAIN Tidy(all) = {}
<1>1. /\ DOMAIN all = {k} /\ all[k].client = client /\ all[k].server = server
  BY DEF Holds
<1>2. CASE client = "open" \/ server # "closed"
  <2>1. DOMAIN Tidy(all) = {k}
    BY <1>1, <1>2 DEF Tidy
  <2>2. Tidy(all)[k] = all[k]
    BY <1>1, <1>2 DEF Tidy
  <2> QED
    BY <1>2, <2>1, <2>2 DEF Holds
<1>3. CASE ~(client = "open" \/ server # "closed")
  BY <1>1, <1>3 DEF Tidy
<1> QED
  BY <1>2, <1>3

LEMMA OpenedHolds ==
  ASSUME NEW k, NEW d, DOMAIN conns = {}
  PROVE  Holds(Opened(d, k), k, d, <<>>, <<>>, "open", "backlog")
<1>1. DOMAIN Opened(d, k) = {k} /\ Opened(d, k)[k] = NewConnection(d)
  BY DEF Opened
<1> QED
  BY <1>1 DEF Holds, NewConnection, Fields

\* What the client does to the connection.
LEMMA ClientHolds ==
  ASSUME NEW k, NEW d, NEW up, NEW down, NEW server, NEW frame,
         Holds(conns, k, d, up, down, "open", server)
  PROVE  /\ Holds(SentToServer(k, frame), k, d, Append(up, frame), down, "open", server)
         /\ Holds(Received(k), k, d, up, Tail(down), "open", server)
<1> DEFINE more == Append(up, frame)
           less == Tail(down)
<1>1. SentToServer(k, frame) = [conns EXCEPT ![k].toServer = more]
  BY DEF Holds, SentToServer
<1>2. Received(k) = [conns EXCEPT ![k].toClient = less]
  BY DEF Holds, Received
<1> HIDE DEF more, less
<1>3. /\ Holds([conns EXCEPT ![k].toServer = more], k, d, more, down, "open", server)
      /\ Holds([conns EXCEPT ![k].toClient = less], k, d, up, less, "open", server)
  BY OneFieldHolds
<1> QED
  BY <1>1, <1>2, <1>3 DEF more, less

\* The client's end closes with nothing left to read.
LEMMA ClientEndHolds ==
  ASSUME NEW all, NEW k, NEW d, NEW up, NEW server, Holds(all, k, d, up, <<>>, "open", server)
  PROVE  IF server = "closed"
         THEN DOMAIN ClientClosed(all, k) = {} /\ DOMAIN AllClientEndsClosed(all, d) = {}
         ELSE /\ Holds(ClientClosed(all, k), k, d, up, <<>>, "closed", server)
              /\ Holds(AllClientEndsClosed(all, d), k, d, up, <<>>, "closed", server)
<1> DEFINE r == ClientEndClosed(all[k])
<1>1. /\ DOMAIN all = {k} /\ DOMAIN all[k] = Fields /\ all[k].toClient = <<>>
      /\ all[k].device = d /\ all[k].client = "open"
  BY DEF Holds
<1>2. /\ DOMAIN r = Fields /\ r.device = d /\ r.toServer = up /\ r.toClient = <<>>
      /\ r.client = "closed" /\ r.server = server
  BY DEF ClientEndClosed, Holds, Fields
<1> HIDE DEF r
<1> DEFINE one == [all EXCEPT ![k] = ClientEndClosed(@)]
           each == [c \in DOMAIN all |-> IF all[c].device = d /\ all[c].client = "open"
                                         THEN ClientEndClosed(all[c]) ELSE all[c]]
<1>3. DOMAIN one = {k} /\ one[k] = r
  BY <1>1 DEF r
<1>4. DOMAIN each = {k} /\ each[k] = r
  BY <1>1 DEF r
<1>5. ClientClosed(all, k) = Tidy(one) /\ AllClientEndsClosed(all, d) = Tidy(each)
  BY DEF ClientClosed, AllClientEndsClosed
<1> HIDE DEF one, each
<1>6. /\ Holds(one, k, d, up, <<>>, "closed", server)
      /\ Holds(each, k, d, up, <<>>, "closed", server)
  BY <1>2, <1>3, <1>4 DEF Holds
<1> QED
  BY <1>5, <1>6, TidyHolds

\* What the server does to it.
LEMMA ServerSendHolds ==
  ASSUME NEW k, NEW d, NEW up, NEW down, NEW frame, Holds(conns, k, d, up, down, "open", "open")
  PROVE  Holds(SentToClient(k, frame), k, d, up, Append(down, frame), "open", "open")
<1> DEFINE new == Append(down, frame)
<1>1. SentToClient(k, frame) = [conns EXCEPT ![k].toClient = new]
  BY DEF Holds, SentToClient, InUse
<1> HIDE DEF new
<1>2. Holds([conns EXCEPT ![k].toClient = new], k, d, up, new, "open", "open")
  BY OneFieldHolds
<1> QED
  BY <1>1, <1>2 DEF new

LEMMA ServerEndHolds ==
  ASSUME NEW k, NEW d, NEW up, NEW down, NEW client, NEW server,
         Holds(conns, k, d, up, down, client, server)
  PROVE  IF client = "open"
         THEN /\ Holds(ServerClosed(k), k, d, up, down, client, "closed")
              /\ Holds(AllServerEndsClosed, k, d, <<>>, down, client, "closed")
         ELSE DOMAIN ServerClosed(k) = {} /\ DOMAIN AllServerEndsClosed = {}
<1>1. DOMAIN conns = {k} /\ DOMAIN conns[k] = Fields
  BY DEF Holds
<1> DEFINE one == [conns EXCEPT ![k].server = "closed"]
           each == [c \in DOMAIN conns |-> [conns[c] EXCEPT !.server = "closed", !.toServer = <<>>]]
<1>2. Holds(one, k, d, up, down, client, "closed")
  BY OneFieldHolds
<1>3. Holds(each, k, d, <<>>, down, client, "closed")
  <2> DEFINE r == [conns[k] EXCEPT !.server = "closed", !.toServer = <<>>]
  <2>1. DOMAIN each = {k} /\ each[k] = r
    BY <1>1
  <2>2. /\ DOMAIN r = Fields /\ r.device = d /\ r.toServer = <<>> /\ r.toClient = down
        /\ r.client = client /\ r.server = "closed"
    BY DEF Holds, Fields
  <2> HIDE DEF r, each
  <2> QED
    BY <2>1, <2>2 DEF Holds
<1>4. ServerClosed(k) = Tidy(one) /\ AllServerEndsClosed = Tidy(each)
  BY <1>1 DEF ServerClosed, AllServerEndsClosed, InUse
<1> HIDE DEF one, each
<1> QED
  BY <1>2, <1>3, <1>4, TidyHolds

LEMMA SessionHolds ==
  ASSUME SInv, NEW k \in Conns, Placed(k)
  PROVE  Holds(conns, k, Device(k), conns[k].toServer, conns[k].toClient,
               conns[k].client, conns[k].server)
BY DEF SInv, Reports, Wires, Placed, Holds, Device

-----------------------------------------------------------------------------
(* The server *)

\* Nothing that a session depends on has changed.
LEMMA SameSession ==
  ASSUME OneSession, UNCHANGED <<at, fd, jobj, globalVars, conns, clientVars>>,
         \A k \in Conns : Doomed(k) => Doomed(k)'
  PROVE  OneSession'
<1>1. Apart'
  BY DEF OneSession, Apart, clientVars
<1>2. CASE NobodyTalks
  BY <1>1, <1>2 DEF OneSession, NobodyTalks, NoSession, clientVars
<1>3. CASE \E k \in Conns : Session(k)
  <2>1. PICK k \in Conns : Session(k)
    BY <1>3
  <2>2. Placed(k)'
    BY <2>1 DEF Session, Placed, Device, globalVars, clientVars
  <2>3. Turn(k)'
    <3>1. UNCHANGED <<at[k], jobj[k], conns[k], ACK, strmID, tempBufS, Device(k),
                      doing[Device(k)], status[Device(k)]>>
      BY DEF globalVars, clientVars, Device
    <3> QED
      BY <2>1, <3>1
      DEF Session, Turn, Busy, Sent, Arriving, Deliberating, Ordered, Acked, Abandoned, Closed,
          Crashed, Wire, Awaits, Closing
  <2> QED
    BY <1>1, <2>2, <2>3 DEF OneSession, Session
<1> QED
  BY <1>2, <1>3 DEF OneSession

\* The process has stopped: nothing is left of its side.
LEMMA LostSession ==
  ASSUME SInv, OneSession, MemoryLost, UNCHANGED clientVars
  PROVE  OneSession'
<1>1. Apart'
  BY DEF OneSession, Apart, clientVars
<1>2. conns' = AllServerEndsClosed /\ \A c \in Conns : at'[c] = "none"
  BY DEF MemoryLost
<1>3. CASE NobodyTalks
  <2>1. DOMAIN AllServerEndsClosed = {}
    BY <1>3 DEF NobodyTalks, NoSession, AllServerEndsClosed, Tidy
  <2> QED
    BY <1>1, <1>2, <1>3, <2>1 DEF OneSession, NobodyTalks, NoSession, clientVars
<1>4. ASSUME NEW k \in Conns, Session(k)
      PROVE  OneSession'
  <2> DEFINE d == Device(k)
             up == conns[k].toServer
             down == conns[k].toClient
             client == conns[k].client
             server == conns[k].server
  <2> HIDE DEF up, down, client, server, d
  <2>1. Holds(conns, k, d, up, down, client, server)
    BY <1>4, SessionHolds DEF Session, up, down, client, server, d
  <2>2. IF client = "open"
        THEN Holds(AllServerEndsClosed, k, d, <<>>, down, client, "closed")
        ELSE DOMAIN AllServerEndsClosed = {}
    BY <2>1, ServerEndHolds
  <2>3. CASE client # "open"
    <3>1. \A e \in Devices : link[e] = NoConn
      BY <1>4, <2>3 DEF Session, Placed, client
    <3> QED
      BY <1>1, <1>2, <2>2, <2>3, <3>1 DEF OneSession, NobodyTalks, NoSession, clientVars
  <2>4. CASE client = "open"
    <3>1. /\ DOMAIN conns' = {k} /\ Device(k)' = d
          /\ conns'[k].toServer = <<>> /\ conns'[k].toClient = down
          /\ conns'[k].client = "open" /\ conns'[k].server = "closed"
      BY <1>2, <2>2, <2>4 DEF Holds, Device
    <3>2. Placed(k)'
      BY <1>2, <1>4, <2>4, <3>1 DEF Session, Placed, clientVars, d, client
    <3>3. at'[k] = "none" /\ doing' = doing /\ status' = status
      BY <1>2 DEF clientVars
    <3>4. Turn(k)'
      <4>1. CASE Busy(k)
        BY <3>1, <3>3, <4>1 DEF Busy, Turn, Wire, Awaits, d, down
      <4>2. CASE Sent(k) \/ Arriving(k) \/ Deliberating(k) \/ Abandoned(k)
        BY <3>1, <3>3, <4>2
        DEF Sent, Arriving, Deliberating, Abandoned, Turn, Wire, d, down
      <4>3. CASE Ordered(k)
        BY <3>1, <3>3, <4>3 DEF Ordered, Turn, Wire, Awaits, d, down
      <4>4. CASE Acked(k)
        BY <3>1, <3>3, <4>4 DEF Acked, Turn, Wire, Closing, d, down
      <4>5. CASE Closed(k) \/ Crashed(k)
        BY <2>4, <4>5 DEF Closed, Crashed, Wire, client
      <4> QED
        BY <1>4, <4>1, <4>2, <4>3, <4>4, <4>5 DEF Session, Turn
    <3> QED
      BY <1>1, <3>2, <3>4 DEF OneSession, Session
  <2> QED
    BY <2>3, <2>4
<1> QED
  BY <1>3, <1>4 DEF OneSession

\* The session is the one of any handler that runs and of any connection there is.
LEMMA TheSession ==
  ASSUME OneSession, NEW c \in Conns, at[c] # "none" \/ c \in DOMAIN conns
  PROVE  Session(c)
BY DEF OneSession, NobodyTalks, NoSession, Session, Placed

\* What the place of the handler tells of the turn.
LEMMA Turns ==
  ASSUME NEW k, Session(k), conns[k].server # "closed"
  PROVE  /\ Awaits(k) => Busy(k) \/ Sent(k) \/ Ordered(k) \/ Crashed(k)
         /\ Closing(k) => Acked(k) \/ Closed(k)
         /\ at[k] = "parse" => Arriving(k) \/ Crashed(k)
         /\ at[k] \in Naming => Deliberating(k) \/ Crashed(k)
<1> DEFINE Goal == /\ Awaits(k) => Busy(k) \/ Sent(k) \/ Ordered(k) \/ Crashed(k)
                   /\ Closing(k) => Acked(k) \/ Closed(k)
                   /\ at[k] = "parse" => Arriving(k) \/ Crashed(k)
                   /\ at[k] \in Naming => Deliberating(k) \/ Crashed(k)
<1>1. ASSUME Awaits(k) PROVE ~Closing(k) /\ at[k] # "parse" /\ at[k] \notin Naming
  BY <1>1 DEF Awaits, Closing
<1>2. ASSUME Closing(k) PROVE at[k] # "parse" /\ at[k] \notin Naming
  BY <1>2 DEF Closing
<1>3. CASE Busy(k) \/ Sent(k) \/ Ordered(k)
  <2>1. Awaits(k)
    BY <1>3 DEF Busy, Sent, Ordered
  <2> QED
    BY <1>1, <1>3, <2>1
<1>4. CASE Acked(k) \/ Closed(k)
  <2>1. Closing(k)
    BY <1>4 DEF Acked, Closed
  <2> QED
    BY <1>1, <1>2, <1>4, <2>1
<1>5. CASE Arriving(k)
  <2>1. at[k] = "parse"
    BY <1>5 DEF Arriving
  <2> QED
    BY <1>1, <1>2, <1>5, <2>1
<1>6. CASE Deliberating(k)
  <2>1. at[k] \in Naming
    BY <1>6 DEF Deliberating
  <2> QED
    BY <1>1, <1>2, <1>6, <2>1
<1>7. CASE Crashed(k)
  <2>1. Awaits(k) \/ at[k] = "parse" \/ at[k] \in Naming
    BY <1>7 DEF Crashed
  <2> QED
    BY <1>1, <1>2, <1>7, <2>1
<1>8. ~Abandoned(k)
  BY DEF Abandoned
<1> QED
  BY <1>3, <1>4, <1>5, <1>6, <1>7, <1>8 DEF Session, Turn

\* The handler moves on within the session.
LEMMA HandlerMoves ==
  ASSUME SInv, OneSession, NEW k \in Conns, Placed(k), UNCHANGED clientVars,
         NEW up, NEW down,
         Holds(conns', k, Device(k), up, down, conns[k].client, "open"),
         NEW place \in Places \ {"none"}, at' = [at EXCEPT ![k] = place],
         place # "start" => clntSock' = k,
         place = "recv" => fd'[k] = k /\ tempBufS' = Blank,
         place \notin {"start", "comm", "loop", "close"} => ~ACK',
         Turn(k)'
  PROVE  OneSession'
<1>1. /\ DOMAIN conns' = {k} /\ conns'[k].device = conns[k].device
      /\ conns'[k].client = conns[k].client /\ conns'[k].server = "open"
  BY DEF Holds, Device
<1>2. at'[k] = place /\ \A c \in Conns : c # k => at'[c] = at[c]
  BY DEF SInv, Memory
<1>3. Apart'
  BY DEF OneSession, Apart, clientVars
<1>4. Placed(k)'
  BY <1>1, <1>2 DEF Placed, Device, clientVars
<1> QED
  BY <1>3, <1>4 DEF OneSession, Session

\* The handler moves on and leaves the connection as it is.
LEMMA QuietMoves ==
  ASSUME SInv, OneSession, NEW k \in Conns, Session(k), UNCHANGED <<clientVars, conns>>,
         at[k] # "none",
         NEW place \in Places \ {"none", "start"}, at' = [at EXCEPT ![k] = place],
         clntSock' = k,
         place = "recv" => fd'[k] = k /\ tempBufS' = Blank,
         place \notin {"comm", "loop", "close"} => ~ACK',
         Turn(k)'
  PROVE  OneSession'
<1>1. Holds(conns, k, Device(k), conns[k].toServer, conns[k].toClient, conns[k].client, "open")
  BY SessionHolds DEF Session, Placed
<1> DEFINE up == conns[k].toServer
           down == conns[k].toClient
<1> HIDE DEF up, down
<1>2. Holds(conns', k, Device(k), up, down, conns[k].client, "open")
  BY <1>1 DEF up, down
<1> QED
  BY <1>2, HandlerMoves DEF Session

LEMMA AcceptSession ==
  ASSUME SInv, OneSession, NEW k \in Conns, Accept(k), UNCHANGED clientVars
  PROVE  OneSession'
<1> DEFINE up == conns[k].toServer
           down == conns[k].toClient
           client == conns[k].client
           d == Device(k)
<1>1. Session(k) /\ at[k] = "none" /\ conns[k].server = "backlog"
  BY TheSession DEF Accept, InUse
<1>2. Holds(conns, k, d, up, down, client, "backlog")
  BY <1>1, SessionHolds DEF Session
<1> HIDE DEF up, down, client, d
<1>3. Holds(conns', k, d, up, down, client, "open")
  BY <1>2, OneFieldHolds DEF Accept
<1>4. at' = [at EXCEPT ![k] = "start"] /\ at'[k] = "start" /\ doing' = doing /\ status' = status
  BY DEF Accept, Goto, clientVars, SInv, Memory
<1>5. /\ Device(k)' = d /\ conns'[k].toServer = up /\ conns'[k].toClient = down
      /\ conns'[k].client = client
  BY <1>3 DEF Holds, Device
<1>6. Turn(k)'
  <2>1. Busy(k) \/ Sent(k) \/ Ordered(k) \/ Crashed(k)
    BY <1>1, Turns DEF Awaits
  <2>2. CASE Busy(k)
    BY <1>4, <1>5, <2>2 DEF Busy, Turn, Wire, Awaits, d, up, down, client
  <2>3. CASE Sent(k)
    BY <1>4, <1>5, <2>3 DEF Sent, Turn, Wire, Awaits, d, up, down, client
  <2>4. CASE Ordered(k)
    BY <1>4, <1>5, <2>4 DEF Ordered, Turn, Wire, Awaits, d, up, down, client
  <2>5. CASE Crashed(k)
    BY <1>4, <1>5, <2>5 DEF Crashed, Turn, Wire, Awaits, d, up, down, client
  <2> QED
    BY <2>1, <2>2, <2>3, <2>4, <2>5
<1> QED
  BY <1>1, <1>3, <1>4, <1>6, HandlerMoves DEF Session, Places, d, client

\* Before recv, and with the flag set to the end.
LEMMA StartSession ==
  ASSUME SInv, OneSession, NEW k \in Conns, UNCHANGED clientVars,
         ThreadMain(k) \/ clientComm(k) \/ (Loop(k) /\ ~Crash)
  PROVE  OneSession'
<1>1. /\ Session(k) /\ at[k] \in {"start", "comm", "loop"}
      /\ conns[k].server = "open" /\ at \in [Conns -> Places]
  BY TheSession DEF ThreadMain, clientComm, Loop, Handler, Session, Placed, SInv, Memory
<1>2. UNCHANGED <<conns, jobj>> /\ doing' = doing /\ status' = status
  BY DEF ThreadMain, clientComm, Loop, clientVars
<1>3. ASSUME NEW place \in {"comm", "loop", "recv"}, at' = [at EXCEPT ![k] = place],
             Awaits(k), Awaits(k)', clntSock' = k,
             place = "recv" => fd'[k] = k /\ tempBufS' = Blank /\ ~ACK'
      PROVE  OneSession'
  <2>1. Busy(k) \/ Sent(k) \/ Ordered(k) \/ Crashed(k)
    BY <1>1, <1>3, Turns
  <2>2. Turn(k)'
    BY <1>2, <1>3, <2>1 DEF Turn, Busy, Sent, Ordered, Crashed, Wire, Device
  <2> QED
    BY <1>1, <1>2, <1>3, <2>2, QuietMoves DEF Places
<1>4. CASE ThreadMain(k)
  <2>1. at' = [at EXCEPT ![k] = "comm"] /\ clntSock' = k /\ at[k] = "start" /\ at'[k] = "comm"
    BY <1>1, <1>4 DEF ThreadMain, Goto, Handler
  <2> QED
    BY <1>3, <2>1 DEF Awaits
<1>5. CASE clientComm(k)
  <2>1. /\ at' = [at EXCEPT ![k] = "loop"] /\ at[k] = "comm" /\ at'[k] = "loop"
        /\ ~ACK' /\ clntSock' = k
    BY <1>1, <1>5 DEF clientComm, Goto, Handler, Session, Placed
  <2> QED
    BY <1>3, <2>1 DEF Awaits
<1>6. CASE Loop(k) /\ ~Crash /\ ~ACK
  <2>1. /\ at' = [at EXCEPT ![k] = "recv"] /\ at[k] = "loop" /\ at'[k] = "recv"
        /\ ~ACK' /\ clntSock' = k /\ tempBufS' = Blank /\ fd' = [fd EXCEPT ![k] = clntSock]
        /\ clntSock = k
    BY <1>1, <1>6 DEF Loop, Goto, Handler, Session, Placed
  <2>2. fd'[k] = k
    BY <2>1 DEF SInv, Memory
  <2> QED
    BY <1>3, <1>6, <2>1, <2>2 DEF Awaits
<1>7. CASE Loop(k) /\ ~Crash /\ ACK
  <2>1. /\ at' = [at EXCEPT ![k] = "close"] /\ at[k] = "loop" /\ at'[k] = "close"
        /\ clntSock' = k
    BY <1>1, <1>7 DEF Loop, Goto, Handler, Session, Placed
  <2>2. Acked(k) \/ Closed(k)
    BY <1>1, <1>7, <2>1, Turns DEF Closing
  <2>3. Turn(k)'
    BY <1>2, <2>1, <2>2 DEF Turn, Acked, Closed, Closing, Wire, Device
  <2> QED
    BY <1>1, <1>2, <2>1, <2>3, QuietMoves DEF Places
<1> QED
  BY <1>4, <1>5, <1>6, <1>7

\* recv: the report is taken, or the end of the connection is.
LEMMA ReceiveSession ==
  ASSUME SInv, OneSession, NEW k \in Conns, UNCHANGED clientVars, receiveData(k), ~Crash
  PROVE  OneSession'
<1>1. /\ Session(k) /\ at[k] = "recv" /\ conns[k].server = "open" /\ fd[k] = k
      /\ tempBufS = Blank /\ clntSock = k /\ ~ACK /\ at \in [Conns -> Places]
  BY TheSession DEF receiveData, Handler, Session, Placed, SInv, Memory
<1>2. k \in DOMAIN conns /\ Arrived(k) = conns[k].toServer
  BY <1>1 DEF Session, Placed, Arrived, InUse
<1>3. /\ at' = [at EXCEPT ![k] = "parse"] /\ at'[k] = "parse"
      /\ UNCHANGED <<clntSock, ACK>> /\ doing' = doing /\ status' = status
  BY <1>1 DEF receiveData, Parsing, Goto, clientVars
<1>4. Busy(k) \/ Sent(k) \/ Ordered(k) \/ Crashed(k)
  BY <1>1, Turns DEF Awaits
<1> DEFINE d == Device(k)
           frame == Report(d, status[d])
           client == conns[k].client
           down == conns[k].toClient
<1>5. CASE /\ conns[k].toServer # <<>>
           /\ tempBufS' = Head(conns[k].toServer)
           /\ conns' = [conns EXCEPT ![k].toServer = Tail(@)]
  <2>1. Sent(k)
    BY <1>4, <1>5 DEF Busy, Ordered, Crashed, Wire
  <2>2. conns[k].toServer = <<frame>> /\ down = <<>> /\ client = "open"
    BY <2>1 DEF Sent, Wire
  <2>3. Head(conns[k].toServer) = frame /\ Tail(conns[k].toServer) = <<>>
    BY <2>2
  <2>4. tempBufS' = frame /\ conns' = [conns EXCEPT ![k].toServer = <<>>]
    BY <1>2, <1>5, <2>3
  <2> HIDE DEF d, frame, client, down
  <2>5. Holds(conns, k, d, conns[k].toServer, down, client, "open")
    BY <1>1, SessionHolds DEF Session, d, client, down
  <2>6. Holds(conns', k, d, <<>>, down, client, "open")
    BY <2>4, <2>5, OneFieldHolds
  <2>7. Arriving(k)'
    BY <1>3, <2>1, <2>2, <2>4, <2>6 DEF Arriving, Sent, Wire, Holds, Device, d, frame
  <2>8. Turn(k)'
    BY <2>7 DEF Turn
  <2> QED
    BY <1>1, <1>3, <2>6, <2>8, HandlerMoves DEF Session, Places, d, client
<1>6. CASE /\ conns[k].toServer = <<>> /\ conns[k].client = "closed"
           /\ UNCHANGED <<tempBufS, conns>>
  <2>1. Crashed(k)
    BY <1>4, <1>6 DEF Busy, Sent, Ordered, Wire
  <2>2. Turn(k)'
    BY <1>1, <1>3, <1>6, <2>1 DEF Crashed, Turn, Wire
  <2> QED
    BY <1>1, <1>3, <1>6, <2>2, QuietMoves DEF Places
<1> QED
  BY <1>1, <1>2, <1>5, <1>6 DEF receiveData, InUse

\* A step of a handler that names a stream, on what the device reported.
LEMMA DeliberatingMoves ==
  ASSUME SInv, OneSession, NEW k \in Conns, Deliberating(k), UNCHANGED clientVars,
         UNCHANGED <<conns, clntSock, ACK, jobj, strmID>>,
         NEW place \in Naming, at' = [at EXCEPT ![k] = place],
         place = "sendAct" => \E action : tempBufS' = Order(strmID, action),
         place = "sendAck" => tempBufS' = Ack
  PROVE  OneSession'
<1>1. at[k] \in Naming /\ at \in [Conns -> Places]
  BY DEF Deliberating, SInv, Memory
<1>2. Session(k)
  BY <1>1, TheSession
<1>3. at'[k] = place /\ doing' = doing /\ status' = status
  BY <1>1 DEF clientVars
<1>4. clntSock = k /\ ~ACK
  BY <1>1, <1>2 DEF Session, Placed
<1>5. Deliberating(k)'
  BY <1>3 DEF Deliberating, Wire, Device
<1>6. Turn(k)'
  BY <1>5 DEF Turn
<1> QED
  BY <1>1, <1>2, <1>4, <1>6, QuietMoves DEF Places

LEMMA ParseSession ==
  ASSUME SInv, OneSession, NEW k \in Conns, UNCHANGED clientVars, msgParse(k), ~Crash
  PROVE  OneSession'
<1>1. /\ Session(k) /\ at[k] = "parse" /\ conns[k].server = "open"
      /\ clntSock = k /\ ~ACK /\ at \in [Conns -> Places] /\ jobj \in [Conns -> Frames]
  BY TheSession DEF msgParse, Handler, Session, Placed, SInv, Memory
<1> DEFINE d == Device(k)
           id == getJsonValueFromObj("streamId", tempBufS)
<1>2. /\ at' = [at EXCEPT ![k] = "setId"] /\ at'[k] = "setId"
      /\ UNCHANGED <<clntSock, ACK, conns, tempBufS>> /\ doing' = doing /\ status' = status
      /\ jobj'[k] = tempBufS
      /\ strmID' = IF id = Null THEN strmID ELSE id
  BY <1>1 DEF msgParse, Goto, clientVars
<1>3. CASE Arriving(k)
  <2>1. id = d
    BY <1>3 DEF Arriving, Report, getJsonValueFromObj
  <2>2. d # Null
    BY <1>1, ServerAssumption, ConstantsAssumption DEF Session, Placed
  <2>3. strmID' = d
    BY <1>2, <2>1, <2>2
  <2>4. Deliberating(k)'
    BY <1>2, <1>3, <2>3 DEF Arriving, Deliberating, Wire, Device
  <2> QED
    BY <1>1, <1>2, <2>4, QuietMoves DEF Turn, Places
<1>4. CASE Crashed(k)
  <2>1. Crashed(k)'
    BY <1>1, <1>2, <1>4 DEF Crashed, Wire, Awaits
  <2> QED
    BY <1>1, <1>2, <2>1, QuietMoves DEF Turn, Places
<1> QED
  BY <1>1, <1>3, <1>4, Turns

\* The first two calls of msgParse are made for a device that has crashed, too.
LEMMA RecordSession ==
  ASSUME SInv, OneSession, NEW k \in Conns, UNCHANGED clientVars, Record(k)
  PROVE  OneSession'
<1>1. /\ Session(k) /\ at[k] \in {"setId", "setStatus", "getStatus", "getAction"}
      /\ conns[k].server = "open" /\ pc[k] = "idle" /\ k \in Threads
      /\ clntSock = k /\ ~ACK /\ at \in [Conns -> Places]
  BY TheSession, ServerAssumption
  DEF Record, CallFrom, Handler, Session, Placed, SInv, Memory, Threads
<1>2. UNCHANGED <<conns, strmID, clntSock, ACK, tempBufS>>
  BY DEF Record, Silent, globalVars
<1>3. PICK next \in {"setStatus", "getStatus", "getAction", "isDone"} :
        /\ at' = [at EXCEPT ![k] = next] /\ jobj' = jobj
        /\ next = "setStatus" <=> at[k] = "setId"
        /\ next = "getStatus" <=> at[k] = "setStatus"
        /\ next = "getStatus" => Call(k, "set", "status", Reported(k), strmID)
  BY DEF Record, CallFrom, Handler, Goto
<1>4. CASE Deliberating(k)
  BY <1>2, <1>3, <1>4, DeliberatingMoves
<1>5. CASE Crashed(k)
  <2>1. at[k] \in {"setId", "setStatus"} /\ jobj[k] = Blank
    BY <1>1, <1>5 DEF Crashed, Doomed, Awaits
  <2>2. at'[k] = next
    BY <1>1, <1>3
  <2>3. next = "getStatus" => Doomed(k)'
    <3>1. Reported(k) = Null
      BY <2>1 DEF Reported, Blank, getJsonValueFromObj
    <3>2. op \in [Threads -> {Null} \cup Calls] /\ pc \in [Threads -> Labels]
      BY DEF SInv, IInv, TypeOK
    <3> QED
      BY <1>1, <1>3, <3>1, <3>2 DEF Call, Doomed
  <2>4. Crashed(k)'
    BY <1>2, <1>3, <1>5, <2>1, <2>2, <2>3 DEF Crashed, Wire
  <2> QED
    BY <1>1, <1>2, <1>3, <2>4, QuietMoves DEF Turn, Places
<1> QED
  BY <1>1, <1>4, <1>5, Turns

\* From the conditions of msgParse to the answer in the buffer.
LEMMA DecideSession ==
  ASSUME SInv, OneSession, NEW k \in Conns, UNCHANGED clientVars,
         IsDone(k) \/ IsOff(k) \/ Differs(k) \/ SIGAct(k) \/ SIGAck(k)
  PROVE  OneSession'
<1>1. Session(k) /\ at[k] \in {"isDone", "isOff", "differs", "act", "ack"} /\ pc[k] = "idle"
  BY TheSession DEF IsDone, IsOff, Differs, SIGAct, SIGAck, Format, DecideAck, CallFrom, Handler
<1>2. Deliberating(k)
  <2>1. conns[k].server # "closed"
    BY <1>1 DEF Session, Placed
  <2>2. Deliberating(k) \/ Crashed(k)
    BY <1>1, <2>1, Turns
  <2> QED
    BY <1>1, <2>2 DEF Crashed, Awaits
<1>3. /\ UNCHANGED <<conns, clntSock, ACK, jobj, strmID>>
      /\ \E place \in Naming :
           /\ at' = [at EXCEPT ![k] = place]
           /\ place = "sendAct" => \E action : tempBufS' = Order(strmID, action)
           /\ place = "sendAck" => tempBufS' = Ack
  <2>1. ASSUME NEW place, DecideAck(k, place)
        PROVE  UNCHANGED <<conns, clntSock, ACK, jobj, strmID>> /\ at' = [at EXCEPT ![k] = "ack"]
    BY <2>1 DEF DecideAck, Silent, globalVars, Goto
  <2>2. ASSUME NEW place, NEW fn, NEW key, NEW val, NEW next,
               CallFrom(k, place, fn, key, val, next)
        PROVE  UNCHANGED jobj /\ at' = [at EXCEPT ![k] = next]
    BY <2>2 DEF CallFrom, Goto
  <2>3. CASE IsDone(k)
    BY <2>1, <2>2, <2>3 DEF IsDone, Silent, globalVars
  <2>4. CASE IsOff(k)
    BY <2>1, <2>2, <2>4 DEF IsOff, Silent, globalVars
  <2>5. CASE Differs(k)
    BY <2>1, <2>2, <2>5 DEF Differs
  <2>6. CASE SIGAct(k) \/ SIGAck(k)
    BY <2>6 DEF SIGAct, SIGAck, Format, Goto
  <2> QED
    BY <2>3, <2>4, <2>5, <2>6
<1> QED
  BY <1>2, <1>3, DeliberatingMoves

\* The answer is sent: with an ACK the handler leaves its loop.
LEMMA AnswerSession ==
  ASSUME SInv, OneSession, NEW k \in Conns, UNCHANGED clientVars, SendAct(k) \/ SendAck(k)
  PROVE  OneSession'
<1>1. /\ Session(k) /\ at[k] \in {"sendAct", "sendAck"} /\ pc[k] = "idle"
      /\ conns[k].server = "open" /\ clntSock = k /\ ~ACK /\ at \in [Conns -> Places]
  BY TheSession DEF SendAct, SendAck, CallFrom, Handler, Session, Placed, SInv, Memory
<1>2. Deliberating(k)
  <2>1. Deliberating(k) \/ Crashed(k)
    BY <1>1, Turns
  <2> QED
    BY <1>1, <2>1 DEF Crashed, Awaits
<1> DEFINE d == Device(k)
<1>3. /\ at' = [at EXCEPT ![k] = "loop"] /\ at'[k] = "loop" /\ clntSock' = k
      /\ conns' = SentToClient(k, tempBufS) /\ tempBufS' = tempBufS
      /\ doing' = doing /\ status' = status
      /\ IF SendAct(k) THEN ~ACK' ELSE ACK'
  BY <1>1 DEF SendAct, SendAck, CallFrom, Handler, Goto, globalVars, clientVars
<1>4. Holds(conns, k, d, <<>>, <<>>, "open", "open")
  BY <1>1, <1>2, SessionHolds DEF Deliberating, Wire, Session
<1> HIDE DEF d
<1>5. Holds(conns', k, d, <<>>, <<tempBufS>>, "open", "open")
  <2>1. Append(<<>>, tempBufS) = <<tempBufS>>
    OBVIOUS
  <2> QED
    BY <1>3, <1>4, <2>1, ServerSendHolds
<1>6. /\ Wire(k, "open", <<>>, <<tempBufS>>)' /\ Device(k)' = d
      /\ doing'[d] = "wait"
  <2>1. doing[d] = "wait"
    BY <1>2 DEF Deliberating, d
  <2>2. <<tempBufS>> = conns'[k].toClient
    BY <1>5 DEF Holds
  <2> QED
    BY <1>3, <1>5, <2>1, <2>2 DEF Holds, Device, Wire
<1>7. Turn(k)'
  <2>1. CASE SendAct(k)
    <3>1. PICK action : tempBufS = Order(d, action)
      BY <1>2, <2>1 DEF Deliberating, SendAct, Handler, d
    <3>2. Ordered(k)'
      BY <1>3, <1>5, <1>6, <2>1, <3>1 DEF Ordered, Awaits, Holds, Wire
    <3> QED
      BY <3>2 DEF Turn
  <2>2. CASE ~SendAct(k)
    <3>1. tempBufS = Ack
      BY <1>2, <2>2 DEF Deliberating, SendAck, CallFrom, Handler
    <3>2. Acked(k)'
      BY <1>3, <1>5, <1>6, <2>2, <3>1 DEF Acked, Closing, Holds, Wire
    <3> QED
      BY <3>2 DEF Turn
  <2> QED
    BY <2>1, <2>2
<1>8. conns[k].client = "open"
  BY <1>4 DEF Holds
<1> QED
  BY <1>1, <1>3, <1>5, <1>7, <1>8, HandlerMoves DEF Session, Places, d

\* Nobody talks any more, and the devices that talk are none.
LEMMA SessionEnds ==
  ASSUME SInv, OneSession, NEW k \in Conns, Placed(k), conns[k].client # "open",
         UNCHANGED clientVars, DOMAIN conns' = {}, \A c \in Conns : at'[c] = "none"
  PROVE  OneSession'
<1>1. \A d \in Devices : link'[d] = NoConn
  BY DEF Placed, clientVars
<1>2. Apart'
  BY DEF OneSession, Apart, clientVars
<1> QED
  BY <1>1, <1>2 DEF OneSession, NobodyTalks, NoSession

LEMMA CloseSession ==
  ASSUME SInv, OneSession, NEW k \in Conns, UNCHANGED clientVars, Close(k)
  PROVE  OneSession'
<1>1. /\ Session(k) /\ at[k] = "close" /\ conns[k].server = "open" /\ clntSock = k
      /\ at \in [Conns -> Places]
  BY TheSession DEF Close, Handler, Session, Placed, SInv, Memory
<1>2. Acked(k) \/ Closed(k)
  BY <1>1, Turns DEF Closing
<1> DEFINE d == Device(k)
           client == conns[k].client
           down == conns[k].toClient
<1>3. /\ conns' = ServerClosed(k) /\ at' = [at EXCEPT ![k] = "none"]
      /\ \A c \in Conns : at'[c] = "none"
      /\ doing' = doing /\ status' = status
  BY <1>1 DEF Close, Goto, clientVars, Session, Placed
<1>4. Holds(conns, k, d, <<>>, down, client, "open")
  BY <1>1, <1>2, SessionHolds DEF Acked, Closed, Wire, Session
<1> HIDE DEF d, client, down
<1>5. IF client = "open" THEN Holds(ServerClosed(k), k, d, <<>>, down, client, "closed")
                         ELSE DOMAIN ServerClosed(k) = {}
  BY <1>4, ServerEndHolds
<1>6. CASE client # "open"
  BY <1>1, <1>3, <1>5, <1>6, SessionEnds DEF Session, client
<1>7. CASE client = "open"
  <2>1. /\ DOMAIN conns' = {k} /\ Device(k)' = d /\ conns'[k].toServer = <<>>
        /\ conns'[k].toClient = down /\ conns'[k].client = "open"
        /\ conns'[k].server = "closed"
    BY <1>3, <1>5, <1>7 DEF Holds, Device
  <2>2. Acked(k)
    BY <1>2, <1>7 DEF Closed, Wire, client
  <2>3. Acked(k)'
    BY <1>3, <2>1, <2>2 DEF Acked, Wire, Closing, down, d
  <2>4. Placed(k)'
    BY <1>1, <1>3, <1>7, <2>1 DEF Session, Placed, clientVars, d, client
  <2>5. Apart'
    BY DEF OneSession, Apart, clientVars
  <2> QED
    BY <2>3, <2>4, <2>5 DEF OneSession, Session, Turn
<1> QED
  BY <1>6, <1>7

\* A call that has NULL to store ends in NULL, whatever the others do to its file.
LEMMA DoomedStays ==
  ASSUME SInv, NEW t \in Threads, ServerFileStep(t), phase' # "down", NEW k \in Conns, Doomed(k)
  PROVE  Doomed(k)'
<1> k \in Threads
  BY ServerAssumption DEF Threads
<1> /\ op \in [Threads -> {Null} \cup Calls] /\ pc \in [Threads -> Labels]
  BY DEF SInv, IInv, TypeOK
<1>1. FileStep(t)
  BY DEF ServerFileStep
<1>2. CASE t # k
  <2>1. pc'[k] = pc[k] /\ op'[k] = op[k]
    BY <1>1, <1>2
    DEF FileStep, ReadFile, ReadEntry, ReadAgain, Truncate, WriteNew, WriteFile, Proceed, Hold,
        Return, Stop, Store
  <2> QED
    BY <2>1 DEF Doomed
<1>3. CASE t = k
  <2>1. ~\E doc : Proceed(k, doc)
    BY DEF Doomed, Proceed, Stop
  <2>2. ReadFile(k) \/ Truncate(k) \/ WriteNew(k)
    BY <1>1, <1>3, <2>1 DEF FileStep, ReadEntry, ReadAgain, Stop, WriteFile, Doomed
  <2>3. op' = op /\ pc'[k] \in {"newTruncate", "newWrite", "reread"}
    BY <2>1, <2>2 DEF ReadFile, Truncate, WriteNew, Hold, Doomed
  <2> QED
    BY <2>3 DEF Doomed
<1> QED
  BY <1>2, <1>3

LEMMA FileStepSession ==
  ASSUME SInv, OneSession, UNCHANGED clientVars, NEW t \in Threads, ServerFileStep(t)
  PROVE  OneSession'
<1>1. CASE phase' = "down"
  BY <1>1, LostSession DEF ServerFileStep
<1>2. CASE phase' # "down"
  <2>1. UNCHANGED <<at, fd, jobj, globalVars, conns>>
    BY <1>2 DEF ServerFileStep
  <2> QED
    BY <1>2, <2>1, DoomedStays, SameSession
<1> QED
  BY <1>1, <1>2

LEMMA ServerSession ==
  ASSUME SInv, OneSession, ServerNext, UNCHANGED clientVars
  PROVE  OneSession'
<1> {Player, Main} \subseteq Threads /\ \A c \in Conns : c \in Threads /\ c # Player /\ c # Main
  BY ServerAssumption, ConstantsAssumption DEF Threads
<1> /\ op \in [Threads -> {Null} \cup Calls] /\ pc \in [Threads -> Labels]
  BY DEF SInv, IInv, TypeOK
<1>1. ASSUME UNCHANGED <<serverVars, conns>>, \A c \in Conns : UNCHANGED <<pc[c], op[c]>>
      PROVE  OneSession'
  BY <1>1, SameSession DEF serverVars, globalVars, Doomed
<1>2. CASE ServerProcess
  <2>1. CASE Die /\ MemoryLost
    BY <2>1, LostSession
  <2>2. CASE /\ Boot \/ Alarm \/ NextEntry \/ BootDone
             /\ UNCHANGED <<serverVars, conns>>
    <3>1. \A c \in Conns : UNCHANGED <<pc[c], op[c]>>
      BY <2>2 DEF Boot, Alarm, NextEntry, BootDone, Call, storeVars
    <3> QED
      BY <1>1, <2>2, <3>1
  <2> QED
    BY <1>2, <2>1, <2>2 DEF ServerProcess
<1>3. CASE ServerFileStep(Main) \/ ServerFileStep(Player)
  BY <1>3, FileStepSession
<1>4. CASE PlayerCommand \/ PlayerQuery
  <2>1. UNCHANGED <<serverVars, conns>> /\ \A c \in Conns : UNCHANGED <<pc[c], op[c]>>
    BY <1>4 DEF PlayerCommand, PlayerQuery, PlayerAsks, Call
  <2> QED
    BY <1>1, <2>1
<1>5. ASSUME NEW c \in Conns, Accept(c) \/ HandlerStep(c) PROVE OneSession'
  <2>1. CASE Crash
    BY <2>1, LostSession DEF Crash
  <2>2. CASE Accept(c)
    BY <2>2, AcceptSession
  <2>3. CASE ~Crash /\ (ThreadMain(c) \/ clientComm(c) \/ Loop(c))
    BY <2>3, StartSession
  <2>4. CASE ~Crash /\ receiveData(c)
    BY <2>4, ReceiveSession
  <2>5. CASE ~Crash /\ msgParse(c)
    BY <2>5, ParseSession
  <2>6. CASE Record(c)
    BY <2>6, RecordSession
  <2>7. CASE IsDone(c) \/ IsOff(c) \/ Differs(c) \/ SIGAct(c) \/ SIGAck(c)
    BY <2>7, DecideSession
  <2>8. CASE SendAct(c) \/ SendAck(c)
    BY <2>8, AnswerSession
  <2>9. CASE Close(c)
    BY <2>9, CloseSession
  <2>10. CASE ServerFileStep(c)
    BY <2>10, FileStepSession
  <2> QED
    BY <1>5, <2>1, <2>2, <2>3, <2>4, <2>5, <2>6, <2>7, <2>8, <2>9, <2>10 DEF HandlerStep
<1> QED
  BY <1>2, <1>3, <1>4, <1>5 DEF ServerNext

-----------------------------------------------------------------------------
(* The devices *)

\* The connection of a device that has one is the session.
LEMMA TheDevice ==
  ASSUME OneSession, NEW d \in Devices, doing[d] \notin {"idle", "dead", "gone"}
  PROVE  link[d] \in Conns /\ Session(link[d]) /\ Device(link[d]) = d /\ conns[link[d]].client = "open"
<1>1. link[d] # NoConn
  BY DEF OneSession, Apart
<1>2. PICK k \in Conns : Session(k)
  BY <1>1 DEF OneSession, NobodyTalks
<1>3. link[d] = k /\ d = Device(k) /\ conns[k].client = "open"
  BY <1>1, <1>2 DEF Session, Placed
<1> QED
  BY <1>2, <1>3

\* What a device does within the session.
LEMMA DeviceMoves ==
  ASSUME SInv, OneSession, NEW k \in Conns, Session(k), NEW d \in Devices, d = Device(k),
         conns[k].client = "open",
         NEW up, NEW down, Holds(conns', k, d, up, down, "open", conns[k].server),
         UNCHANGED <<serverVars, link, leaving, interrupts>>,
         NEW what \in {"report", "wait", "stopping"}, doing' = [doing EXCEPT ![d] = what],
         \A e \in Devices : status'[e] # "off",
         Turn(k)'
  PROVE  OneSession'
<1>1. /\ DOMAIN conns' = {k} /\ Device(k)' = d /\ conns'[k].client = "open"
      /\ conns'[k].server = conns[k].server
  BY DEF Holds, Device
<1>2. link[d] = k /\ k # NoConn
  BY ClientAssumption DEF Session, Placed
<1>3. Apart'
  BY <1>2 DEF OneSession, Apart, Doings
<1>4. Placed(k)'
  BY <1>1 DEF Session, Placed, serverVars
<1> QED
  BY <1>3, <1>4 DEF OneSession, Session

\* The device ends its part of the session, with nothing more to read.
LEMMA DeviceEnds ==
  ASSUME SInv, OneSession, NEW k \in Conns, Session(k), NEW d \in Devices, d = Device(k),
         conns[k].client = "open", NEW all, NEW up,
         Holds(all, k, d, up, <<>>, "open", conns[k].server),
         conns' \in {ClientClosed(all, k), AllClientEndsClosed(all, d)},
         UNCHANGED <<serverVars, status, leaving, interrupts>>,
         link' = [link EXCEPT ![d] = NoConn],
         NEW what \in {"idle", "dead", "gone"}, doing' = [doing EXCEPT ![d] = what],
         conns[k].server # "closed" =>
           /\ up = <<>>
           /\ Wire(k, "closed", <<>>, <<>>)' => Closed(k)' \/ Crashed(k)'
  PROVE  OneSession'
<1>1. \A e \in Devices : link'[e] = NoConn
  BY DEF Session, Placed, OneSession, Apart
<1>2. Apart'
  BY DEF OneSession, Apart, Doings
<1> DEFINE server == conns[k].server
<1> HIDE DEF server
<1>3. IF server = "closed"
      THEN DOMAIN conns' = {}
      ELSE Holds(conns', k, d, up, <<>>, "closed", server)
  <2>1. Holds(all, k, d, up, <<>>, "open", server)
    BY DEF server
  <2> QED
    BY <2>1, ClientEndHolds
<1>4. CASE server = "closed"
  <2>1. \A c \in Conns : at'[c] = "none"
    BY <1>4 DEF Session, Placed, serverVars, server
  <2> QED
    BY <1>1, <1>2, <1>3, <1>4, <2>1 DEF OneSession, NobodyTalks, NoSession
<1>5. CASE server # "closed"
  <2>1. /\ DOMAIN conns' = {k} /\ Device(k)' = d /\ conns'[k].client = "closed"
        /\ conns'[k].server = server /\ Wire(k, "closed", <<>>, <<>>)'
    BY <1>3, <1>5 DEF Holds, Device, Wire, server
  <2>2. Turn(k)'
    BY <1>5, <2>1 DEF Turn, server
  <2>3. Placed(k)'
    BY <1>1, <2>1 DEF Session, Placed, serverVars, server
  <2> QED
    BY <1>2, <2>2, <2>3 DEF OneSession, Session
<1> QED
  BY <1>4, <1>5

LEMMA ConnectSession ==
  ASSUME Sparse, SInv, OneSession, NEW d \in Devices, DeviceStep(d), Connect(d), NoSession
  PROVE  OneSession'
<1> DEFINE free == CHOOSE c \in FreeConns : \A j \in FreeConns : c <= j
<1>1. PICK k \in Conns : k = free
  BY LeastFree DEF Connect, OpenLink, FreeConns
<1>2. conns' = Opened(d, k) /\ link' = [link EXCEPT ![d] = k] /\ doing' = [doing EXCEPT ![d] = "report"]
  BY <1>1 DEF Connect, OpenLink, Now
<1> HIDE DEF free
<1>3. UNCHANGED <<serverVars, status, leaving, interrupts>>
  BY DEF DeviceStep, Connect, counters
<1>4. NobodyTalks
  BY DEF OneSession, NoSession, Session, Placed
<1>5. Holds(conns', k, d, <<>>, <<>>, "open", "backlog")
  BY <1>2, OpenedHolds DEF NoSession
<1>6. /\ DOMAIN conns' = {k} /\ Device(k)' = d /\ Wire(k, "open", <<>>, <<>>)'
      /\ conns'[k].server = "backlog"
  BY <1>5 DEF Holds, Device, Wire
<1>7. /\ link'[d] = k /\ doing'[d] = "report" /\ k # NoConn
      /\ \A e \in Devices \ {d} : link'[e] = NoConn
  BY <1>1, <1>2, <1>4, ClientAssumption DEF OneSession, Apart, NobodyTalks
<1>8. Apart'
  BY <1>1, <1>2, <1>3, <1>7 DEF OneSession, Apart, Doings
<1>9. \A c \in Conns : at'[c] = "none"
  BY <1>3 DEF serverVars, NoSession
<1>10. Placed(k)'
  BY <1>1, <1>6, <1>7, <1>9 DEF Placed, Wire
<1>11. Busy(k)'
  BY <1>1, <1>6, <1>7, <1>9 DEF Busy, Awaits
<1> QED
  BY <1>1, <1>8, <1>10, <1>11 DEF OneSession, Session, Turn

\* Only a device whose report has been answered gets something.
LEMMA Answered ==
  ASSUME OneSession, NEW d \in Devices, doing[d] = "wait", Incoming(d) # <<>>
  PROVE  /\ Acked(link[d]) => Head(Incoming(d)) = Ack
         /\ Ordered(link[d]) =>
              \E action : Incoming(d) = <<Order(d, action)>> /\ Head(Incoming(d)) = Order(d, action)
         /\ Acked(link[d]) \/ Ordered(link[d])
<1> DEFINE k == link[d]
<1>1. Session(k) /\ Device(k) = d /\ conns[k].client = "open"
  BY TheDevice
<1>2. conns[k].toClient # <<>>
  BY DEF Incoming
<1>3. Acked(k) \/ Ordered(k)
  BY <1>1, <1>2
  DEF Session, Turn, Busy, Sent, Arriving, Deliberating, Abandoned, Closed, Crashed, Wire
<1>4. Acked(k) => Head(Incoming(d)) = Ack
  BY DEF Acked, Wire, Incoming
<1>5. ASSUME Ordered(k)
      PROVE  \E action : Incoming(d) = <<Order(d, action)>> /\ Head(Incoming(d)) = Order(d, action)
  <2>1. PICK action : conns[k].toClient = <<Order(d, action)>>
    BY <1>1, <1>5 DEF Ordered, Wire
  <2>2. Incoming(d) = <<Order(d, action)>>
    BY <2>1 DEF Incoming
  <2> QED
    BY <2>2
<1> QED
  BY <1>3, <1>4, <1>5

LEMMA FramesDiffer ==
  ASSUME NEW d, NEW action
  PROVE  /\ Order(d, action) # Ack /\ Order(d, action) # Blank /\ Ack # Blank
         /\ "action" \notin DOMAIN Ack /\ "streamId" \notin DOMAIN Ack
         /\ ~LacksField(d, Ack) /\ ~LacksField(d, Order(d, action))
<1>1. /\ DOMAIN Order(d, action) = {"streamId", "action"}
      /\ DOMAIN Ack = {"text"} /\ DOMAIN Blank = {"text"}
  BY DEF Order, Ack, Blank
<1>2. Ack.text # Blank.text
  BY DEF Ack, Blank
<1> QED
  BY <1>1, <1>2 DEF LacksField

\* In a session a device finds only orders and ACKs: it is the closed end it may find.
LEMMA NothingComes ==
  ASSUME OneSession, NEW d \in Devices, ReceiveNothing(d)
  PROVE  Incoming(d) = <<>> /\ conns[link[d]].server = "closed" /\ Gone(d, "dead", conns)
<1>1. doing[d] = "wait"
  BY DEF ReceiveNothing
<1>2. Incoming(d) # <<>> => ~LacksField(d, Head(Incoming(d)))
  BY <1>1, Answered, FramesDiffer
<1> QED
  BY <1>2 DEF ReceiveNothing

LEMMA ReportSession ==
  ASSUME SInv, OneSession, NEW d \in Devices, DeviceStep(d), SIGStatus(d)
  PROVE  OneSession'
<1> doing[d] = "report"
  BY DEF SIGStatus
<1>1. PICK k \in Conns : /\ link[d] = k /\ Session(k)
                        /\ Device(k) = d /\ conns[k].client = "open"
  BY TheDevice
<1> DEFINE server == conns[k].server
           frame == Report(d, status[d])
<1>2. Busy(k)
  BY <1>1
  DEF Session, Turn, Sent, Arriving, Deliberating, Ordered, Acked, Abandoned, Closed, Crashed, Wire
<1>3. /\ conns' = SentToServer(k, frame)
      /\ doing' = [doing EXCEPT ![d] = "wait"]
      /\ UNCHANGED <<serverVars, link, status, leaving, interrupts>>
  BY <1>1 DEF SIGStatus, Now, DeviceStep, counters
<1> HIDE DEF server, frame
<1>4. Holds(conns, k, d, <<>>, <<>>, "open", server)
  BY <1>1, <1>2, SessionHolds DEF Busy, Wire, Session, server
<1>5. Holds(conns', k, d, <<frame>>, <<>>, "open", server)
  <2>1. Append(<<>>, frame) = <<frame>>
    OBVIOUS
  <2> QED
    BY <1>3, <1>4, <2>1, ClientHolds
<1>6. /\ Device(k)' = d /\ conns'[k].client = "open" /\ conns'[k].toServer = <<frame>>
      /\ conns'[k].toClient = <<>> /\ doing'[d] = "wait" /\ status' = status
  BY <1>3, <1>5 DEF Holds, Device, OneSession, Apart
<1>7. frame' = frame
  BY <1>3 DEF frame
<1>8. Sent(k)'
  BY <1>2, <1>3, <1>6, <1>7 DEF Busy, Sent, Wire, Awaits, serverVars, frame
<1>9. \A e \in Devices : status'[e] # "off"
  BY <1>3 DEF OneSession, Apart
<1> QED
  BY <1>1, <1>3, <1>5, <1>8, <1>9, DeviceMoves DEF Turn, server

LEMMA AckSession ==
  ASSUME SInv, OneSession, NEW d \in Devices, DeviceStep(d), ReceiveAck(d)
  PROVE  OneSession'
<1> doing[d] = "wait" /\ Incoming(d) # <<>> /\ Head(Incoming(d)) = Ack
  BY DEF ReceiveAck, Receives
<1>1. PICK k \in Conns : /\ link[d] = k /\ Session(k)
                        /\ Device(k) = d /\ conns[k].client = "open"
  BY TheDevice
<1>2. Acked(k)
  BY <1>1, Answered, FramesDiffer
<1> DEFINE server == conns[k].server
           all == Received(k)
<1>3. /\ conns' = ClientClosed(all, k)
      /\ link' = [link EXCEPT ![d] = NoConn] /\ doing' = [doing EXCEPT ![d] = "idle"]
      /\ UNCHANGED <<serverVars, status, leaving, interrupts>>
  BY <1>1 DEF ReceiveAck, Now, DeviceStep, counters, OneSession, Apart
<1> HIDE DEF server, all
<1>4. Holds(conns, k, d, <<>>, <<Ack>>, "open", server)
  BY <1>1, <1>2, SessionHolds DEF Acked, Wire, Session, server
<1>5. Holds(all, k, d, <<>>, <<>>, "open", server)
  <2>1. Tail(<<Ack>>) = <<>>
    OBVIOUS
  <2> QED
    BY <1>4, <2>1, ClientHolds DEF all
<1>6. server # "closed" /\ Wire(k, "closed", <<>>, <<>>)' => Closed(k)'
  BY <1>2, <1>3 DEF Acked, Closed, Closing, serverVars, server
<1> QED
  BY <1>1, <1>3, <1>5, <1>6, DeviceEnds DEF server

LEMMA NothingSession ==
  ASSUME SInv, OneSession, NEW d \in Devices, DeviceStep(d), ReceiveNothing(d)
  PROVE  OneSession'
<1> doing[d] = "wait"
  BY DEF ReceiveNothing, Receives
<1>1. PICK k \in Conns : /\ link[d] = k /\ Session(k)
                        /\ Device(k) = d /\ conns[k].client = "open"
  BY TheDevice
<1>2. Incoming(d) = <<>> /\ conns[link[d]].server = "closed" /\ Gone(d, "dead", conns)
  BY NothingComes
<1> DEFINE server == conns[k].server
           up == conns[k].toServer
<1>3. /\ conns' = AllClientEndsClosed(conns, d) /\ server = "closed"
      /\ conns[k].toClient = <<>>
      /\ link' = [link EXCEPT ![d] = NoConn] /\ doing' = [doing EXCEPT ![d] = "dead"]
      /\ UNCHANGED <<serverVars, status, leaving, interrupts>>
  BY <1>1, <1>2 DEF ReceiveNothing, Incoming, Gone, Now, DeviceStep, counters
<1> HIDE DEF server, up
<1>4. Holds(conns, k, d, up, <<>>, "open", server)
  BY <1>1, <1>3, SessionHolds DEF Session, server, up
<1> QED
  BY <1>1, <1>3, <1>4, DeviceEnds DEF server

\* A device that obeys an order reports next, hangs, or crashes.
LEMMA ObeySession ==
  ASSUME SInv, OneSession, NEW d \in Devices, DeviceStep(d), Obey(d)
  PROVE  OneSession'
<1>1. doing[d] = "wait" /\ Incoming(d) # <<>> /\ Head(Incoming(d)) # Ack
  <2>1. CASE Ignore(d)
    BY <2>1, FramesDiffer DEF Ignore
  <2>2. CASE GoLive(d) \/ GoLocal(d) \/ GoOff(d)
    BY <2>2, FramesDiffer DEF GoLive, GoLocal, GoOff, Receives
  <2> QED
    BY <2>1, <2>2 DEF Obey
<1>2. PICK k \in Conns : /\ link[d] = k /\ Session(k)
                        /\ Device(k) = d /\ conns[k].client = "open"
  BY <1>1, TheDevice
<1>3. Ordered(k) /\ \E action : Incoming(d) = <<Order(d, action)>>
  BY <1>1, <1>2, Answered
<1> DEFINE server == conns[k].server
           all == Received(k)
<1> HIDE DEF server, all
<1>4. Holds(all, k, d, <<>>, <<>>, "open", server)
  <2>1. PICK action : conns[k].toClient = <<Order(d, action)>>
    BY <1>2, <1>3 DEF Incoming
  <2> DEFINE frame == Order(d, action)
  <2>2. Holds(conns, k, d, <<>>, <<frame>>, "open", server)
    BY <1>2, <1>3, <2>1, SessionHolds DEF Ordered, Wire, Session, server
  <2> HIDE DEF frame
  <2>3. Tail(<<frame>>) = <<>>
    OBVIOUS
  <2> QED
    BY <2>2, <2>3, ClientHolds DEF all
<1>5. UNCHANGED serverVars
  BY DEF DeviceStep
<1>6. ASSUME NEW what \in {"report", "stopping"}, conns' = all,
             doing' = [doing EXCEPT ![d] = what], UNCHANGED <<link, leaving, interrupts>>,
             \A e \in Devices : status'[e] # "off"
      PROVE  OneSession'
  <2>1. /\ Device(k)' = d /\ conns'[k].client = "open" /\ conns'[k].toServer = <<>>
        /\ conns'[k].toClient = <<>> /\ doing'[d] = what
    BY <1>4, <1>6 DEF Holds, Device, OneSession, Apart
  <2>2. Busy(k)'
    BY <1>3, <1>5, <2>1 DEF Ordered, Busy, Wire, Awaits, serverVars
  <2> QED
    BY <1>2, <1>4, <1>5, <1>6, <2>2, DeviceMoves DEF Turn, server
<1>7. ASSUME NEW new, NEW left, Becomes(d, new, left), new # "off", UNCHANGED interrupts
      PROVE  OneSession'
  <2>1. \A e \in Devices : status'[e] # "off"
    BY <1>7 DEF Becomes, OneSession, Apart, SInv, Reports
  <2> QED
    BY <1>2, <1>6, <1>7, <2>1 DEF Becomes, Now, all
<1>8. CASE Crashes(d)
  <2>1. /\ conns' = AllClientEndsClosed(all, d)
        /\ link' = [link EXCEPT ![d] = NoConn] /\ doing' = [doing EXCEPT ![d] = "dead"]
        /\ UNCHANGED <<status, leaving, interrupts>>
    BY <1>2, <1>8 DEF Crashes, Gone, Now, counters, all
  <2>2. server # "closed" /\ Wire(k, "closed", <<>>, <<>>)' => Crashed(k)'
    BY <1>3, <1>5 DEF Ordered, Crashed, Awaits, serverVars
  <2> QED
    BY <1>2, <1>4, <1>5, <2>1, <2>2, DeviceEnds DEF server
<1>9. status[d] # "off"
  BY DEF OneSession, Apart
<1>10. ASSUME NEW new \in {"live", "local"}, Build(d, new) PROVE OneSession'
  BY <1>7, <1>8, <1>9, <1>10 DEF Build, counters
<1>11. CASE GoLive(d)
  BY <1>7, <1>8, <1>10, <1>11 DEF GoLive, LiveBranchFails, counters
<1>12. CASE GoLocal(d)
  BY <1>7, <1>8, <1>10, <1>12 DEF GoLocal, counters
<1>13. CASE GoOff(d)
  <2>1. CASE Becomes(d, "ready", "freed") /\ UNCHANGED counters
    BY <1>7, <2>1 DEF counters
  <2>2. CASE /\ Now(d, "stopping") /\ conns' = Received(link[d])
             /\ UNCHANGED <<link, status, pipeline, leaving, counters>>
    BY <1>2, <1>6, <2>2 DEF Now, counters, OneSession, Apart, all
  <2> QED
    BY <1>8, <1>13, <2>1, <2>2 DEF GoOff
<1>14. CASE Ignore(d)
  BY <1>7, <1>9, <1>14 DEF Ignore, counters
<1> QED
  BY <1>11, <1>12, <1>13, <1>14 DEF Obey

LEMMA DeviceSession ==
  ASSUME Sparse, MaxInterrupts = 0, SInv, OneSession, NEW d \in Devices, DeviceStep(d)
  PROVE  OneSession'
<1>1. CASE Connect(d) /\ NoSession
  BY <1>1, ConnectSession
<1>2. CASE SIGStatus(d)
  BY <1>2, ReportSession
<1>3. CASE Reply(d)
  BY <1>3, AckSession, NothingSession, ObeySession DEF Reply
<1>4. CASE StreamError(d)
  <2>1. UNCHANGED <<serverVars, conns, link, doing, status, leaving, interrupts, op, pc>>
    BY <1>4 DEF StreamError, DeviceStep, vars
  <2>2. Apart'
    BY <2>1 DEF OneSession, Apart
  <2>3. CASE NobodyTalks
    BY <2>1, <2>2, <2>3 DEF OneSession, NobodyTalks, NoSession, serverVars
  <2>4. ASSUME NEW k \in Conns, Session(k) PROVE OneSession'
    <3>1. Placed(k)'
      BY <2>1, <2>4 DEF Session, Placed, Device, serverVars
    <3>2. Turn(k)'
      BY <2>1, <2>4
      DEF Session, Turn, Busy, Sent, Arriving, Deliberating, Ordered, Acked, Abandoned, Closed,
          Crashed, Wire, Awaits, Closing, Doomed, Device, serverVars
    <3> QED
      BY <2>2, <3>1, <3>2 DEF OneSession, Session
  <2> QED
    BY <2>3, <2>4 DEF OneSession
<1>5. ~Interrupt(d, phase = "serving")
  BY DEF Interrupt, OneSession, Apart
<1> QED
  BY <1>1, <1>2, <1>3, <1>4, <1>5 DEF DeviceStep, DeviceAlone

-----------------------------------------------------------------------------
(* The system *)

TalkInv == SInv /\ OneSession

LEMMA TalkInit == ASSUME SystemInit PROVE TalkInv
<1>1. SInv
  BY SystemInitInv
<1>2. Apart /\ NobodyTalks
  BY DEF SystemInit, ServerInit, FreshMemory, ClientInit, Apart, NobodyTalks, NoSession, Doings
<1> QED
  BY <1>1, <1>2 DEF TalkInv, OneSession

LEMMA TalkStep ==
  ASSUME Sparse, MaxInterrupts = 0, TalkInv, [SystemNext]_systemVars
  PROVE  TalkInv'
<1>1. SInv'
  BY SystemStepHolds DEF TalkInv
<1>2. OneSession'
  <2>1. CASE ServerNext /\ UNCHANGED clientVars
    BY <2>1, ServerSession DEF TalkInv
  <2>2. ASSUME NEW d \in Devices, DeviceStep(d) PROVE OneSession'
    BY <2>2, DeviceSession DEF TalkInv
  <2>3. CASE UNCHANGED systemVars
    BY <2>3, SameSession DEF systemVars, serverVars, globalVars, vars, Doomed, TalkInv
  <2> QED
    BY <2>1, <2>2, <2>3 DEF SystemNext
<1> QED
  BY <1>1, <1>2 DEF TalkInv

LEMMA TalkHolds ==
  ASSUME Sparse, MaxInterrupts = 0
  PROVE  SystemSpec => []TalkInv
<1>1. SystemInit => TalkInv
  BY TalkInit
<1>2. TalkInv /\ [SystemNext]_systemVars => TalkInv'
  BY TalkStep
<1> QED
  BY <1>1, <1>2, PTL DEF SystemSpec

\* A client in recv and a handler in recv never wait for each other: a frame is on
\* its way, or the handler is working on its answer, or the server is gone
\* (clientComm of ClientComm.c and of srvrComm.c), through kills, failures of the
\* camera and crashes of the client.
THEOREM SessionsHaveTurns ==
  ASSUME Sparse, MaxInterrupts = 0
  PROVE  SystemSpec => []SomeoneHasTheTurn
<1>1. TalkInv => SomeoneHasTheTurn
  <2> SUFFICES ASSUME TalkInv, NEW d \in Devices, doing[d] = "wait"
               PROVE  LET c == link[d] IN
                        \/ conns[c].toServer # <<>>
                        \/ conns[c].toClient # <<>>
                        \/ conns[c].server = "closed"
                        \/ at[c] \notin {"none", "recv"}
    BY DEF SomeoneHasTheTurn
  <2>1. PICK k \in Conns : /\ link[d] = k /\ Session(k)
                          /\ Device(k) = d /\ conns[k].client = "open"
    BY TheDevice DEF TalkInv
  <2>2. CASE Sent(k)
    BY <2>1, <2>2 DEF Sent, Wire
  <2>3. CASE Ordered(k)
    BY <2>1, <2>3 DEF Ordered, Wire
  <2>4. CASE Acked(k)
    BY <2>1, <2>4 DEF Acked, Wire
  <2>5. CASE Arriving(k) \/ Deliberating(k) \/ Abandoned(k)
    BY <2>1, <2>5 DEF Arriving, Deliberating, Abandoned
  <2> QED
    BY <2>1, <2>2, <2>3, <2>4, <2>5 DEF Session, Turn, Busy, Closed, Crashed, Wire
<1> QED
  BY <1>1, TalkHolds, PTL

\* An order is for the device that reads it: SIGAct formats it with strmID and sends
\* it to clntSock, two globals that other handlers write (srvrComm.c).
THEOREM OrdersAreAddressed ==
  ASSUME Sparse, MaxInterrupts = 0
  PROVE  SystemSpec => []OrdersReachTheirDevice
<1>1. TalkInv => OrdersReachTheirDevice
  <2> SUFFICES ASSUME TalkInv, NEW c \in DOMAIN conns, NEW i \in 1..Len(conns[c].toClient),
                      "action" \in DOMAIN conns[c].toClient[i]
               PROVE  conns[c].toClient[i].streamId = conns[c].device
    BY DEF OrdersReachTheirDevice
  <2>1. Session(c)
    BY DEF TalkInv, OneSession, NobodyTalks, NoSession, Session, Placed
  <2>2. CASE Ordered(c)
    <3>1. PICK action : conns[c].toClient = <<Order(Device(c), action)>>
      BY <2>2 DEF Ordered, Wire
    <3>2. conns[c].toClient[i] = Order(Device(c), action)
      BY <3>1
    <3> QED
      BY <3>2 DEF Order, Device
  <2>3. CASE Acked(c)
    <3>1. conns[c].toClient = <<Ack>>
      BY <2>3 DEF Acked, Wire
    <3>2. conns[c].toClient[i] = Ack
      BY <3>1
    <3> QED
      BY <3>2, FramesDiffer
  <2>4. ~Ordered(c) /\ ~Acked(c) => conns[c].toClient = <<>>
    BY <2>1
    DEF Session, Turn, Busy, Sent, Arriving, Deliberating, Abandoned, Closed, Crashed, Wire
  <2> QED
    BY <2>2, <2>3, <2>4
<1> QED
  BY <1>1, TalkHolds, PTL

\* When the handler decides for an ACK the device is in the mode it reported: it
\* does not change while the handler reads the file and compares (msgParse of both
\* programs).
THEOREM AcksFitTheDevice ==
  ASSUME Sparse, MaxInterrupts = 0
  PROVE  SystemSpec => []AckMatchesReport
<1>1. TalkInv => AckMatchesReport
  <2> SUFFICES ASSUME TalkInv, NEW d \in Devices, NEW c \in Conns, link[d] = c,
                      doing[d] = "wait", at[c] \in {"ack", "sendAck"}
               PROVE  Reported(c) = status[d]
    BY DEF AckMatchesReport
  <2>1. Session(c) /\ Device(c) = d
    BY TheDevice DEF TalkInv
  <2>2. Deliberating(c)
    <3>1. Deliberating(c) \/ Crashed(c)
      BY <2>1, Turns DEF Session, Placed
    <3> QED
      BY <3>1 DEF Crashed, Awaits
  <2>3. jobj[c] = Report(d, status[d])
    BY <2>1, <2>2 DEF Deliberating
  <2> QED
    BY <2>3 DEF Reported, Report, getJsonValueFromObj
<1> QED
  BY <1>1, TalkHolds, PTL

-----------------------------------------------------------------------------
(* The dialogue *)

Talk(d) == TalkOf(doing[d], Incoming(d))
Ordering(d) == OrderOf(doing[d], Incoming(d))

AllTalk == [d \in Devices |-> Talk(d)]
AllOrders == [d \in Devices |-> Ordering(d)]

\* How a camera that waits takes what it finds in recv.
LEMMA TalkCases ==
  ASSUME NEW d, NEW action
  PROVE  /\ TalkOf("wait", <<>>) = "wait" /\ OrderOf("wait", <<>>) = Null
         /\ TalkOf("wait", <<Ack>>) = "acked" /\ OrderOf("wait", <<Ack>>) = Null
         /\ TalkOf("wait", <<Order(d, action)>>) = "ordered"
         /\ OrderOf("wait", <<Order(d, action)>>) = action
<1>1. TalkOf("wait", <<>>) = "wait" /\ OrderOf("wait", <<>>) = Null
  BY DEF TalkOf, OrderOf
<1>2. ASSUME NEW frame
      PROVE  /\ TalkOf("wait", <<frame>>) = IF frame = Ack THEN "acked" ELSE "ordered"
             /\ OrderOf("wait", <<frame>>) = getJsonValueFromObj("action", frame)
  BY DEF TalkOf, OrderOf
<1>3. getJsonValueFromObj("action", Ack) = Null
  BY FramesDiffer DEF getJsonValueFromObj
<1>4. getJsonValueFromObj("action", Order(d, action)) = action
  BY DEF getJsonValueFromObj, Order
<1>5. Order(d, action) # Ack
  BY FramesDiffer
<1> QED
  BY <1>1, <1>2, <1>3, <1>4, <1>5

\* The dialogue goes on at one camera: the others are outside.
LEMMA OneTalks ==
  ASSUME OneSession, NEW d \in Devices,
         \A e \in Devices \ {d} : link[e] = NoConn /\ doing'[e] = doing[e]
  PROVE  /\ AllTalk' = [AllTalk EXCEPT ![d] = Talk(d)']
         /\ AllOrders' = [AllOrders EXCEPT ![d] = Ordering(d)']
         /\ AllTalk[d] = Talk(d) /\ AllOrders[d] = Ordering(d)
<1>1. ASSUME NEW e \in Devices \ {d}
      PROVE  Talk(e)' = Talk(e) /\ Ordering(e)' = Ordering(e)
  <2>1. doing[e] \in {"idle", "dead", "gone"} /\ doing'[e] = doing[e]
    BY DEF OneSession, Apart
  <2> QED
    BY <2>1 DEF Talk, Ordering, TalkOf, OrderOf
<1> QED
  BY <1>1 DEF AllTalk, AllOrders

LEMMA SameTalk ==
  ASSUME UNCHANGED <<doing, status>>,
         \A d \in Devices : doing[d] = "wait" => Incoming(d)' = Incoming(d)
  PROVE  UNCHANGED Sessions!sessionVars
<1>1. ASSUME NEW d \in Devices
      PROVE  Talk(d)' = Talk(d) /\ Ordering(d)' = Ordering(d)
  BY DEF Talk, Ordering, TalkOf, OrderOf
<1> QED
  BY <1>1 DEF Sessions!sessionVars, Talk, Ordering

\* In a session only its camera talks.
LEMMA OthersAreOutside ==
  ASSUME OneSession, NEW d \in Devices, doing[d] \notin {"idle", "dead", "gone"}
  PROVE  \A e \in Devices \ {d} : link[e] = NoConn
BY TheDevice DEF Session, Placed

LEMMA TurnPasses ==
  ASSUME NEW d \in Devices, NEW from, NEW to, AllTalk[d] = from, AllTalk' = [AllTalk EXCEPT ![d] = to]
  PROVE  Sessions!Turn(d, from, to)
BY DEF Sessions!Turn, AllTalk, Talk

\* What the server does before and after its answer is not heard by the camera.
LEMMA UnheardSteps ==
  ASSUME SInv, OneSession, ServerNext, UNCHANGED clientVars,
         \A c \in Conns : ~SendAct(c) /\ ~SendAck(c)
  PROVE  UNCHANGED Sessions!sessionVars
<1> SUFFICES ASSUME NEW d \in Devices, doing[d] = "wait"
             PROVE  Incoming(d)' = Incoming(d)
  BY SameTalk DEF clientVars
<1>1. PICK k \in Conns : /\ link[d] = k /\ Session(k)
                        /\ Device(k) = d /\ conns[k].client = "open"
  BY TheDevice
<1> DEFINE up == conns[k].toServer
           down == conns[k].toClient
           server == conns[k].server
<1>2. Holds(conns, k, d, up, down, "open", server)
  BY <1>1, SessionHolds DEF Session
<1> HIDE DEF up, down, server
<1>3. ASSUME NEW someUp, NEW someServer, Holds(conns', k, d, someUp, down, "open", someServer)
      PROVE  Incoming(d)' = Incoming(d)
  BY <1>1, <1>3 DEF Incoming, Holds, clientVars, down
<1>4. CASE UNCHANGED conns
  BY <1>4 DEF Incoming, clientVars
<1>5. CASE MemoryLost
  <2>1. Holds(AllServerEndsClosed, k, d, <<>>, down, "open", "closed")
    BY <1>2, ServerEndHolds
  <2> QED
    BY <1>3, <1>5, <2>1 DEF MemoryLost
<1>6. ASSUME NEW c \in Conns, at[c] # "none" \/ c \in DOMAIN conns
      PROVE  c = k
  BY <1>1, <1>6, TheSession DEF Session, Placed
<1>7. ASSUME NEW c \in Conns, Accept(c)
      PROVE  Incoming(d)' = Incoming(d)
  <2>1. c = k
    BY <1>6, <1>7 DEF Accept, InUse
  <2>2. conns' = [conns EXCEPT ![k].server = "open"]
    BY <1>7, <2>1 DEF Accept
  <2> QED
    BY <1>2, <1>3, <2>2, OneFieldHolds
<1>8. ASSUME NEW c \in Conns, receiveData(c), ~Crash
      PROVE  Incoming(d)' = Incoming(d)
  <2>1. c = k /\ fd[k] = k
    BY <1>1, <1>6, <1>8 DEF receiveData, Handler, Session, Placed
  <2>2. CASE UNCHANGED conns
    BY <1>4, <2>2
  <2>3. CASE conns' = [conns EXCEPT ![k].toServer = Tail(@)]
    <3> DEFINE less == Tail(conns[k].toServer)
    <3>1. conns' = [conns EXCEPT ![k].toServer = less]
      BY <2>3
    <3> HIDE DEF less
    <3>2. Holds(conns', k, d, less, down, "open", server)
      BY <1>2, <3>1, OneFieldHolds
    <3> QED
      BY <1>3, <3>2
  <2> QED
    BY <1>8, <2>1, <2>2, <2>3 DEF receiveData
<1>9. ASSUME NEW c \in Conns, Close(c)
      PROVE  Incoming(d)' = Incoming(d)
  <2>1. c = k /\ clntSock = k
    BY <1>1, <1>6, <1>9 DEF Close, Handler, Session, Placed
  <2>2. conns' = ServerClosed(k)
    BY <1>9, <2>1 DEF Close
  <2> QED
    BY <1>2, <1>3, <2>2, ServerEndHolds
<1>10. ASSUME NEW t \in Threads, ServerFileStep(t)
       PROVE  Incoming(d)' = Incoming(d)
  BY <1>4, <1>5, <1>10 DEF ServerFileStep
<1>11. CASE ServerProcess
  BY <1>4, <1>5, <1>11 DEF ServerProcess
<1>12. CASE PlayerCommand \/ PlayerQuery
  BY <1>4, <1>12 DEF PlayerCommand, PlayerQuery, PlayerAsks
<1>13. ASSUME NEW c \in Conns, HandlerStep(c)
       PROVE  Incoming(d)' = Incoming(d)
  <2>1. CASE Crash
    BY <1>5, <2>1 DEF Crash
  <2>2. CASE ~Crash /\ (ThreadMain(c) \/ clientComm(c) \/ Loop(c) \/ msgParse(c))
    BY <1>4, <2>2 DEF ThreadMain, clientComm, Loop, msgParse
  <2>3. CASE Record(c) \/ IsDone(c) \/ IsOff(c) \/ Differs(c)
    BY <1>4, <2>3 DEF Record, IsDone, IsOff, Differs, DecideAck, Silent
  <2>4. CASE SIGAct(c) \/ SIGAck(c)
    BY <1>4, <2>4 DEF SIGAct, SIGAck, Format
  <2>5. CASE ServerFileStep(c)
    BY <1>10, <2>5, ServerAssumption DEF Threads
  <2> QED
    BY <1>8, <1>9, <1>13, <2>1, <2>2, <2>3, <2>4, <2>5 DEF HandlerStep
<1> QED
  BY <1>7, <1>10, <1>11, <1>12, <1>13, ServerAssumption DEF ServerNext, Threads

\* The answer of the handler is the one answer the camera gets to its report.
LEMMA AnswerTalks ==
  ASSUME SInv, OneSession, NEW k \in Conns, UNCHANGED clientVars, SendAct(k) \/ SendAck(k)
  PROVE  Sessions!Next
<1>1. /\ Session(k) /\ at[k] \in {"sendAct", "sendAck"} /\ pc[k] = "idle"
      /\ conns[k].server = "open" /\ clntSock = k /\ tempBufS \in Frames
  BY TheSession DEF SendAct, SendAck, CallFrom, Handler, Session, Placed, SInv, Memory
<1>2. Deliberating(k)
  <2>1. Deliberating(k) \/ Crashed(k)
    BY <1>1, Turns
  <2> QED
    BY <1>1, <2>1 DEF Crashed, Awaits
<1> PICK d \in Devices : d = Device(k)
  BY <1>1 DEF Session, Placed
<1>3. /\ doing[d] = "wait" /\ conns[k].client = "open" /\ link[d] = k
      /\ conns[k].toServer = <<>> /\ conns[k].toClient = <<>>
  BY <1>1, <1>2 DEF Session, Placed, Deliberating, Wire
<1>4. Holds(conns, k, d, <<>>, <<>>, "open", "open")
  BY <1>1, <1>3, SessionHolds DEF Session
<1>5. conns' = SentToClient(k, tempBufS)
  BY <1>1 DEF SendAct, SendAck
<1>6. Holds(conns', k, d, <<>>, <<tempBufS>>, "open", "open")
  <2>1. Append(<<>>, tempBufS) = <<tempBufS>>
    OBVIOUS
  <2> QED
    BY <1>4, <1>5, <2>1, ServerSendHolds
<1>7. /\ Incoming(d) = <<>> /\ Incoming(d)' = <<tempBufS>> /\ doing'[d] = "wait"
      /\ link' = link /\ doing' = doing /\ status' = status
  BY <1>3, <1>6 DEF Incoming, Holds, clientVars
<1>8. /\ AllTalk' = [AllTalk EXCEPT ![d] = Talk(d)']
      /\ AllOrders' = [AllOrders EXCEPT ![d] = Ordering(d)']
      /\ AllTalk[d] = "wait" /\ AllOrders[d] = Null
  <2>1. \A e \in Devices \ {d} : link[e] = NoConn /\ doing'[e] = doing[e]
    BY <1>3, <1>7, OthersAreOutside
  <2>2. Talk(d) = "wait" /\ Ordering(d) = Null
    BY <1>3, <1>7, TalkCases DEF Talk, Ordering
  <2> QED
    BY <1>3, <2>1, <2>2, OneTalks
<1>9. CASE SendAct(k)
  <2>1. PICK action : tempBufS = Order(d, action)
    BY <1>2, <1>9 DEF Deliberating, SendAct, Handler
  <2>2. action \in Values
    <3>1. DOMAIN tempBufS = {"streamId", "action"} /\ tempBufS.action = action
      BY <2>1 DEF Order
    <3>2. tempBufS # Ack /\ tempBufS # Blank
      BY <2>1, FramesDiffer
    <3>3. tempBufS \notin [streamId : Streams, status : Values]
      BY <3>1
    <3>4. tempBufS \in [streamId : Streams, action : Values]
      BY <1>1, <3>2, <3>3 DEF Frames
    <3> QED
      BY <3>1, <3>4
  <2>3. Talk(d)' = "ordered" /\ Ordering(d)' = action
    <3>1. Incoming(d)' = <<Order(d, action)>> /\ doing'[d] = "wait"
      BY <1>7, <2>1
    <3> QED
      BY <3>1, TalkCases DEF Talk, Ordering
  <2>4. Sessions!AnswerOrder(d, action)
    BY <1>3, <1>7, <1>8, <2>3, TurnPasses DEF Sessions!AnswerOrder, AllOrders, Ordering
  <2> QED
    BY <1>3, <2>2, <2>4 DEF Sessions!Next
<1>10. CASE SendAck(k)
  <2>1. tempBufS = Ack
    BY <1>2, <1>10 DEF Deliberating, SendAck, CallFrom, Handler
  <2>2. Talk(d)' = "acked" /\ Ordering(d)' = Null
    <3>1. Incoming(d)' = <<Ack>> /\ doing'[d] = "wait"
      BY <1>7, <2>1
    <3> QED
      BY <3>1, TalkCases DEF Talk, Ordering
  <2>3. AllOrders' = AllOrders
    BY <1>3, <1>8, <2>2 DEF AllOrders
  <2>4. Sessions!AnswerAck(d)
    BY <1>3, <1>7, <1>8, <2>2, <2>3, TurnPasses DEF Sessions!AnswerAck, AllOrders, Ordering
  <2> QED
    BY <1>3, <2>4 DEF Sessions!Next
<1> QED
  BY <1>9, <1>10

\* The camera's own steps.
LEMMA ConnectTalks ==
  ASSUME OneSession, NEW d \in Devices, Connect(d), NoSession
  PROVE  Sessions!Next
<1>1. NobodyTalks
  BY DEF OneSession, NoSession, Session, Placed
<1>2. \A e \in Devices : doing[e] \in {"idle", "dead", "gone"} /\ link[e] = NoConn
  BY <1>1 DEF NobodyTalks, OneSession, Apart
<1>3. doing' = [doing EXCEPT ![d] = "report"] /\ status' = status /\ doing[d] = "idle"
  BY DEF Connect, OpenLink, Now
<1>4. doing'[d] = "report" /\ \A e \in Devices \ {d} : doing'[e] = doing[e]
  BY <1>3 DEF OneSession, Apart
<1>5. /\ Talk(d) = "idle" /\ Ordering(d) = Null
      /\ Talk(d)' = "report" /\ Ordering(d)' = Null
  BY <1>3, <1>4 DEF Talk, Ordering, TalkOf, OrderOf
<1>6. /\ AllTalk' = [AllTalk EXCEPT ![d] = "report"] /\ AllTalk[d] = "idle"
      /\ AllOrders' = AllOrders
  <2>1. /\ AllTalk' = [AllTalk EXCEPT ![d] = "report"] /\ AllTalk[d] = "idle"
        /\ AllOrders' = [AllOrders EXCEPT ![d] = Null] /\ AllOrders[d] = Null
    BY <1>2, <1>4, <1>5, OneTalks
  <2> QED
    BY <2>1 DEF AllOrders
<1>7. \A e \in Devices : Talk(e) \in {"idle", "dead"}
  BY <1>2 DEF Talk, TalkOf
<1>8. Sessions!Begin(d)
  BY <1>3, <1>6, <1>7, TurnPasses
  DEF Sessions!Begin, Sessions!Outside, AllOrders, Talk, Ordering
<1> QED
  BY <1>8 DEF Sessions!Next

\* A camera in a session passes its turn on.
LEMMA DeviceTalks ==
  ASSUME OneSession, NEW d \in Devices, doing[d] \notin {"idle", "dead", "gone"},
         NEW what, doing' = [doing EXCEPT ![d] = what]
  PROVE  /\ doing'[d] = what
         /\ AllTalk' = [AllTalk EXCEPT ![d] = Talk(d)']
         /\ AllOrders' = [AllOrders EXCEPT ![d] = Ordering(d)']
         /\ AllTalk[d] = Talk(d) /\ AllOrders[d] = Ordering(d)
<1>1. doing'[d] = what /\ \A e \in Devices \ {d} : doing'[e] = doing[e]
  BY DEF OneSession, Apart
<1> QED
  BY <1>1, OthersAreOutside, OneTalks

LEMMA ReportTalks ==
  ASSUME SInv, OneSession, NEW d \in Devices, SIGStatus(d)
  PROVE  Sessions!Next
<1> doing[d] = "report"
  BY DEF SIGStatus
<1>1. PICK k \in Conns : /\ link[d] = k /\ Session(k)
                        /\ Device(k) = d /\ conns[k].client = "open"
  BY TheDevice
<1> DEFINE server == conns[k].server
           frame == Report(d, status[d])
<1>2. Busy(k)
  BY <1>1
  DEF Session, Turn, Sent, Arriving, Deliberating, Ordered, Acked, Abandoned, Closed, Crashed, Wire
<1>3. /\ conns' = SentToServer(k, frame)
      /\ doing' = [doing EXCEPT ![d] = "wait"]
      /\ UNCHANGED <<link, status>>
  BY <1>1 DEF SIGStatus, Now
<1> HIDE DEF server, frame
<1>4. Holds(conns, k, d, <<>>, <<>>, "open", server)
  BY <1>1, <1>2, SessionHolds DEF Busy, Wire, Session, server
<1>5. Holds(conns', k, d, Append(<<>>, frame), <<>>, "open", server)
  BY <1>3, <1>4, ClientHolds
<1>6. Incoming(d)' = <<>>
  BY <1>1, <1>3, <1>5 DEF Incoming, Holds
<1>7. doing'[d] = "wait"
  BY <1>3, DeviceTalks
<1>8. /\ Talk(d) = "report" /\ Ordering(d) = Null
      /\ Talk(d)' = "wait" /\ Ordering(d)' = Null
  BY <1>6, <1>7 DEF Talk, Ordering, TalkOf, OrderOf
<1>9. /\ AllTalk' = [AllTalk EXCEPT ![d] = "wait"] /\ AllTalk[d] = "report"
      /\ AllOrders' = AllOrders
  BY <1>3, <1>8, DeviceTalks DEF AllOrders
<1>10. Sessions!Report(d)
  BY <1>3, <1>9, TurnPasses DEF Sessions!Report, AllOrders, Ordering
<1> QED
  BY <1>10 DEF Sessions!Next

LEMMA AckTalks ==
  ASSUME SInv, OneSession, NEW d \in Devices, ReceiveAck(d)
  PROVE  Sessions!Next
<1> doing[d] = "wait" /\ Incoming(d) # <<>> /\ Head(Incoming(d)) = Ack
  BY DEF ReceiveAck, Receives
<1>1. doing' = [doing EXCEPT ![d] = "idle"] /\ status' = status
  BY DEF ReceiveAck, Now, OneSession, Apart
<1>2. doing'[d] = "idle"
  BY <1>1, DeviceTalks
<1>3. getJsonValueFromObj("action", Ack) = Null
  BY FramesDiffer DEF getJsonValueFromObj
<1>4. /\ Talk(d) = "acked" /\ Ordering(d) = Null
      /\ Talk(d)' = "idle" /\ Ordering(d)' = Null
  BY <1>2, <1>3 DEF Talk, Ordering, TalkOf, OrderOf
<1>5. /\ AllTalk' = [AllTalk EXCEPT ![d] = "idle"] /\ AllTalk[d] = "acked"
      /\ AllOrders' = AllOrders
  BY <1>1, <1>4, DeviceTalks DEF AllOrders
<1>6. Sessions!End(d)
  BY <1>1, <1>5, TurnPasses DEF Sessions!End, AllOrders, Ordering
<1> QED
  BY <1>6 DEF Sessions!Next

LEMMA NothingTalks ==
  ASSUME SInv, OneSession, NEW d \in Devices, ReceiveNothing(d)
  PROVE  Sessions!Next
<1> doing[d] = "wait"
  BY DEF ReceiveNothing, Receives
<1>1. Incoming(d) = <<>> /\ Gone(d, "dead", conns)
  BY NothingComes
<1>2. /\ Incoming(d) = <<>>
      /\ doing' = [doing EXCEPT ![d] = "dead"] /\ status' = status
  BY <1>1 DEF ReceiveNothing, Gone, Now
<1>3. doing'[d] = "dead"
  BY <1>2, DeviceTalks
<1>4. /\ Talk(d) = "wait" /\ Ordering(d) = Null
      /\ Talk(d)' = "dead" /\ Ordering(d)' = Null
  BY <1>2, <1>3 DEF Talk, Ordering, TalkOf, OrderOf
<1>5. /\ AllTalk' = [AllTalk EXCEPT ![d] = "dead"] /\ AllTalk[d] = "wait"
      /\ AllOrders' = AllOrders
  BY <1>2, <1>4, DeviceTalks DEF AllOrders
<1>6. Sessions!ServerLost(d)
  BY <1>2, <1>5, TurnPasses DEF Sessions!ServerLost, AllOrders, Ordering
<1> QED
  BY <1>6 DEF Sessions!Next

\* msgParse of the client: the mode changes to what the order asks for, or not at all.
LEMMA ObeyTalks ==
  ASSUME SInv, OneSession, NEW d \in Devices, Obey(d)
  PROVE  Sessions!Next
<1> SUFFICES Sessions!Obey(d)
  BY DEF Sessions!Next
<1>1. doing[d] = "wait" /\ Incoming(d) # <<>> /\ Head(Incoming(d)) # Ack
  <2>1. CASE Ignore(d)
    BY <2>1, FramesDiffer DEF Ignore
  <2>2. CASE GoLive(d) \/ GoLocal(d) \/ GoOff(d)
    BY <2>2, FramesDiffer DEF GoLive, GoLocal, GoOff, Receives
  <2> QED
    BY <2>1, <2>2 DEF Obey
<1>2. PICK action : Incoming(d) = <<Order(d, action)>> /\ Head(Incoming(d)) = Order(d, action)
  BY <1>1, Answered
<1>3. Talk(d) = "ordered" /\ Ordering(d) = action
  BY <1>1, <1>2, TalkCases DEF Talk, Ordering
<1>4. ASSUME NEW other, Order(d, action) = Order(d, other) PROVE action = other
  BY <1>4 DEF Order
<1>5. status \in [Devices -> {"ready", "live", "local", "off"}]
  BY DEF SInv, Reports
<1>6. ASSUME NEW what \in {"report", "dead", "stopping"}, doing' = [doing EXCEPT ![d] = what]
      PROVE  /\ Sessions!Turn(d, "ordered", what)
             /\ AllOrders' = [AllOrders EXCEPT ![d] = Null] /\ AllOrders[d] = action
  <2>1. doing'[d] = what
    BY <1>1, <1>6, DeviceTalks
  <2>2. Talk(d)' = what /\ Ordering(d)' = Null
    BY <2>1 DEF Talk, Ordering, TalkOf, OrderOf
  <2>3. /\ AllTalk' = [AllTalk EXCEPT ![d] = what] /\ AllTalk[d] = "ordered"
        /\ AllOrders' = [AllOrders EXCEPT ![d] = Null] /\ AllOrders[d] = action
    BY <1>1, <1>3, <1>6, <2>2, DeviceTalks
  <2> QED
    BY <2>3, TurnPasses
<1>7. ASSUME NEW left, Becomes(d, status[d], left) PROVE Sessions!Obey(d)
  <2>1. doing' = [doing EXCEPT ![d] = "report"] /\ status' = status
    BY <1>5, <1>7 DEF Becomes, Now
  <2> QED
    BY <1>6, <2>1 DEF Sessions!Obey, AllOrders, Ordering
<1>8. ASSUME action \in {"live", "local", "off"}, NEW left,
             Becomes(d, Sessions!ModeOf(action), left)
      PROVE  Sessions!Obey(d)
  <2>1. /\ doing' = [doing EXCEPT ![d] = "report"]
        /\ status' = [status EXCEPT ![d] = Sessions!ModeOf(action)]
    BY <1>8 DEF Becomes, Now
  <2> QED
    BY <1>6, <1>8, <2>1 DEF Sessions!Obey, Sessions!Known, AllOrders, Ordering
<1>9. ASSUME action \in {"live", "local", "off"}, Crashes(d) PROVE Sessions!Obey(d)
  <2>1. doing' = [doing EXCEPT ![d] = "dead"] /\ status' = status
    BY <1>9 DEF Crashes, Gone, Now
  <2> QED
    BY <1>6, <1>9, <2>1 DEF Sessions!Obey, Sessions!Known, AllOrders, Ordering
<1>10. /\ Sessions!ModeOf("live") = "live" /\ Sessions!ModeOf("local") = "local"
       /\ Sessions!ModeOf("off") = "ready"
  BY DEF Sessions!ModeOf
<1>11. ASSUME action \in {"live", "local"}, Build(d, action) PROVE Sessions!Obey(d)
  BY <1>7, <1>8, <1>9, <1>10, <1>11 DEF Build
<1>12. CASE GoLive(d)
  <2>1. action = "live"
    BY <1>2, <1>4, <1>12 DEF GoLive, Receives
  <2> QED
    BY <1>8, <1>9, <1>10, <1>11, <1>12, <2>1 DEF GoLive, LiveBranchFails
<1>13. CASE GoLocal(d)
  <2>1. action = "local"
    BY <1>2, <1>4, <1>13 DEF GoLocal, Receives
  <2> QED
    BY <1>8, <1>9, <1>10, <1>11, <1>13, <2>1 DEF GoLocal
<1>14. CASE GoOff(d)
  <2>1. action = "off"
    BY <1>2, <1>4, <1>14 DEF GoOff, Receives
  <2>2. CASE Now(d, "stopping") /\ UNCHANGED status
    BY <1>6, <2>1, <2>2 DEF Now, Sessions!Obey, Sessions!Known, AllOrders, Ordering
  <2> QED
    BY <1>8, <1>9, <1>10, <1>14, <2>1, <2>2 DEF GoOff
<1>15. CASE Ignore(d)
  BY <1>7, <1>15 DEF Ignore
<1> QED
  BY <1>12, <1>13, <1>14, <1>15 DEF Obey

LEMMA DialogueStep ==
  ASSUME Sparse, MaxInterrupts = 0, TalkInv, [SystemNext]_systemVars
  PROVE  [Sessions!Next]_(Sessions!sessionVars)
<1> SInv /\ OneSession
  BY DEF TalkInv
<1>1. CASE ServerNext /\ UNCHANGED clientVars
  <2>1. CASE \E c \in Conns : SendAct(c) \/ SendAck(c)
    BY <1>1, <2>1, AnswerTalks
  <2>2. CASE \A c \in Conns : ~SendAct(c) /\ ~SendAck(c)
    BY <1>1, <2>2, UnheardSteps
  <2> QED
    BY <2>1, <2>2
<1>2. ASSUME NEW d \in Devices, DeviceStep(d) PROVE [Sessions!Next]_(Sessions!sessionVars)
  <2>1. CASE Connect(d) /\ NoSession
    BY <2>1, ConnectTalks
  <2>2. CASE SIGStatus(d)
    BY <2>2, ReportTalks
  <2>3. CASE Reply(d)
    BY <2>3, AckTalks, NothingTalks, ObeyTalks DEF Reply
  <2>4. CASE StreamError(d)
    BY <2>4, SameTalk DEF StreamError, Incoming
  <2>5. ~Interrupt(d, phase = "serving")
    BY DEF Interrupt, OneSession, Apart
  <2> QED
    BY <1>2, <2>1, <2>2, <2>3, <2>4, <2>5 DEF DeviceStep, DeviceAlone
<1>3. CASE UNCHANGED systemVars
  BY <1>3, SameTalk DEF systemVars, clientVars, Incoming
<1> QED
  BY <1>1, <1>2, <1>3 DEF SystemNext

\* What clientComm of both programs comes down to: every report gets one answer, and
\* the mode changes only to what the answer to the last report orders, through kills
\* of the server, failures of the camera and crashes of the client.
THEOREM SystemImplementsSessions ==
  ASSUME Sparse, MaxInterrupts = 0
  PROVE  SystemSpec => ImplementsCameraSession
<1>1. SystemInit => Sessions!Init
  BY DEF SystemInit, ClientInit, Sessions!Init, TalkOf, OrderOf
<1>2. TalkInv /\ [SystemNext]_systemVars => [Sessions!Next]_(Sessions!sessionVars)
  BY DialogueStep
<1> QED
  BY <1>1, <1>2, TalkHolds, PTL DEF SystemSpec, ImplementsCameraSession, Sessions!Spec

-----------------------------------------------------------------------------
(* Calls and the files *)

\* What a step of a call does, seen from the files.
LEMMA FileStepCases ==
  ASSUME IInv, NEW t \in Threads, FileStep(t), phase' # "down"
  PROVE  LET f == op[t].file
             document == With(disk[f], op[t].key, op[t].val)
         IN
         /\ op[t] \in Calls /\ f \in Streams
         /\ \A u \in Threads \ {t} : UNCHANGED <<op[u], pc[u], buf[u]>>
         /\ \/ \* a value is returned
               /\ op[t].fn = "get" /\ disk[f] \in Documents
               /\ op'[t] = Null /\ pc'[t] = "idle" /\ disk' = disk
               /\ Returned(t) = disk[f][op[t].key]
            \/ \* newJsonFile begins
               /\ pc[t] = "read" /\ op[t].fn # "reset" /\ Unreadable(f)
               /\ op'[t] = op[t] /\ pc'[t] = "newTruncate" /\ disk' = disk
            \/ \* the document with the new value is made
               /\ op[t].fn # "get" /\ op[t].val # Null /\ disk[f] \in Documents
               /\ op'[t] = op[t] /\ pc'[t] = "truncate" /\ disk' = disk
               /\ buf'[t] = document
            \/ \* the file is emptied
               /\ pc[t] \in {"newTruncate", "truncate"}
               /\ pc'[t] = IF pc[t] = "truncate" THEN "write" ELSE "newWrite"
               /\ op'[t] = op[t] /\ buf'[t] = buf[t] /\ disk' = [disk EXCEPT ![f] = Empty]
            \/ \* the file is written
               /\ pc[t] \in {"newWrite", "write"} /\ disk' = [disk EXCEPT ![f] = buf[t]]
               /\ IF pc[t] = "write" THEN op'[t] = Null /\ pc'[t] = "idle"
                                     ELSE op'[t] = op[t] /\ pc'[t] = "reread"
<1> DEFINE f == op[t].file
           document == With(disk[f], op[t].key, op[t].val)
           read == /\ op[t].fn = "get" /\ disk[f] \in Documents
                   /\ op'[t] = Null /\ pc'[t] = "idle" /\ disk' = disk
                   /\ Returned(t) = disk[f][op[t].key]
           made == /\ op[t].fn # "get" /\ op[t].val # Null /\ disk[f] \in Documents
                   /\ op'[t] = op[t] /\ pc'[t] = "truncate" /\ disk' = disk
                   /\ buf'[t] = document
<1>1. /\ op \in [Threads -> {Null} \cup Calls] /\ pc \in [Threads -> Labels]
      /\ buf \in [Threads -> {Null} \cup Documents]
      /\ disk \in [Streams -> {Absent, Empty} \cup Documents]
      /\ op[t] = Null <=> pc[t] = "idle"
  BY DEF IInv, TypeOK
<1>2. op[t] \in Calls /\ f \in Streams /\ op[t].key \in Keys /\ op[t].fn \in {"get", "set", "reset"}
  <2>1. pc[t] # "idle"
    BY DEF FileStep, ReadFile, ReadEntry, ReadAgain, Truncate, WriteNew, WriteFile
  <2>2. op[t] \in Calls
    BY <1>1, <2>1
  <2> QED
    BY <2>2 DEF Calls, Keys, AS!Keys
<1>3. \A u \in Threads \ {t} : UNCHANGED <<op[u], pc[u], buf[u]>>
  BY <1>1
  DEF FileStep, ReadFile, ReadEntry, ReadAgain, Truncate, WriteNew, WriteFile, Proceed, Hold,
      Return, Stop, Store
<1>4. ASSUME ~Unreadable(f), Proceed(t, disk[f]), pc[t] \in {"read", "reread"}
      PROVE  read \/ made
  <2>1. disk[f] \in Documents /\ DOMAIN disk[f] = Keys
    BY <1>1, <1>2, <1>4 DEF IInv, DiskHistory, Unreadable
  <2>2. CASE op[t].fn = "get"
    <3>1. Return(t) /\ disk' = disk
      BY <1>2, <1>4, <2>1, <2>2 DEF Proceed
    <3> QED
      BY <1>1, <1>4, <2>1, <2>2, <3>1 DEF Return, Returned
  <2>3. CASE op[t].fn # "get"
    <3>1. op[t].val # Null /\ Hold(t, document, "truncate", TRUE)
      BY <1>4, <2>3 DEF Proceed, Stop
    <3> HIDE DEF document
    <3>2. op'[t] = op[t] /\ pc'[t] = "truncate" /\ disk' = disk /\ buf'[t] = document
      BY <1>1, <3>1 DEF Hold
    <3> QED
      BY <2>1, <2>3, <3>1, <3>2
  <2> QED
    BY <2>2, <2>3
<1>5. CASE ReadFile(t)
  <2>1. CASE Unreadable(f)
    <3>1. /\ Hold(t, Default(f), "newTruncate", disk[f] = Absent)
          /\ pc[t] = "read" /\ op[t].fn # "reset"
      BY <1>5, <2>1 DEF ReadFile
    <3>2. op'[t] = op[t] /\ pc'[t] = "newTruncate" /\ disk' = disk
      BY <1>1, <3>1 DEF Hold
    <3> QED
      BY <1>2, <1>3, <2>1, <3>1, <3>2
  <2>2. CASE ~Unreadable(f)
    <3>1. read \/ made
      BY <1>4, <1>5, <2>2 DEF ReadFile
    <3> QED
      BY <1>2, <1>3, <3>1
  <2> QED
    BY <2>1, <2>2
<1>6. CASE ReadEntry(t) \/ ReadAgain(t)
  <2>1. read \/ made
    BY <1>4, <1>6 DEF ReadEntry, ReadAgain, Stop
  <2> QED
    BY <1>2, <1>3, <2>1
<1>7. CASE Truncate(t)
  BY <1>1, <1>2, <1>3, <1>7 DEF Truncate
<1>8. CASE WriteNew(t) \/ WriteFile(t)
  BY <1>1, <1>2, <1>3, <1>8 DEF WriteNew, WriteFile, Store, Return
<1> QED
  BY <1>5, <1>6, <1>7, <1>8 DEF FileStep

\* Who calls what: trigger resets, a player commands, and a handler stores an action
\* only with its ACK.
Caller(t, fn, key, val, s) ==
  /\ t = Main => fn = "reset" /\ key = "status"
  /\ t = Player /\ fn = "set" => key = "action" /\ val \in Commands
  /\ t \in Conns =>
       /\ fn \in {"get", "set"}
       /\ fn = "set" /\ key = "action" => at[t] = "sendAck" /\ at'[t] = "loop" /\ s = strmID

LEMMA StepKinds ==
  ASSUME SInv, [SystemNext]_systemVars
  PROVE  \/ UNCHANGED <<disk, op, pc, buf>>
         \/ Stop
         \/ \E t \in Threads : ServerFileStep(t) /\ phase' # "down"
         \/ \E t \in Threads : \E fn, key, val, s :
              Call(t, fn, key, val, s) /\ Caller(t, fn, key, val, s)
<1> DEFINE Goal == \/ UNCHANGED <<disk, op, pc, buf>>
                   \/ Stop
                   \/ \E t \in Threads : ServerFileStep(t) /\ phase' # "down"
                   \/ \E t \in Threads : \E fn, key, val, s :
                        Call(t, fn, key, val, s) /\ Caller(t, fn, key, val, s)
<1> SUFFICES Goal
  OBVIOUS
<1>1. /\ {Player, Main} \subseteq Threads /\ Player # Main /\ Player \notin Conns
      /\ \A c \in Conns : c \in Threads /\ c # Main
  BY ServerAssumption, ConstantsAssumption DEF Threads
<1>2. ASSUME NEW t \in Threads, ServerFileStep(t) PROVE Goal
  <2>1. CASE phase' # "down"
    BY <1>2, <2>1
  <2>2. CASE phase' = "down"
    <3>1. FileStep(t) /\ phase # "down"
      BY <1>1, <1>2
      DEF ServerFileStep, FileStep, ReadFile, ReadEntry, ReadAgain, Truncate, WriteNew, WriteFile,
          SInv, IInv, TypeOK, Quiet
    <3>2. CASE UNCHANGED phase
      BY <2>2, <3>1, <3>2
    <3>3. CASE Stop
      BY <3>3
    <3>4. ASSUME NEW doc, Proceed(t, doc) PROVE Stop \/ UNCHANGED phase
      BY <3>4 DEF Proceed, Hold
    <3>5. Stop \/ UNCHANGED phase
      BY <3>1, <3>4
      DEF FileStep, ReadFile, ReadEntry, ReadAgain, Truncate, WriteNew, WriteFile, Hold, Store
    <3> QED
      BY <3>2, <3>3, <3>5
  <2> QED
    BY <2>1, <2>2
<1>3. ASSUME NEW t \in Threads, NEW fn, NEW key, NEW val, NEW s,
             Call(t, fn, key, val, s), Caller(t, fn, key, val, s)
      PROVE  Goal
  BY <1>3
<1> HIDE DEF Goal
<1>4. ASSUME UNCHANGED <<disk, op, pc, buf>> PROVE Goal
  BY <1>4 DEF Goal
<1>5. ASSUME Stop PROVE Goal
  BY <1>5 DEF Goal
<1>6. CASE ServerProcess
  <2>1. CASE Boot \/ Alarm \/ BootDone
    BY <1>4, <2>1 DEF Boot, Alarm, BootDone, storeVars
  <2>2. CASE NextEntry
    <3>1. ASSUME NEW s, Call(Main, "reset", "status", "off", s) PROVE Goal
      BY <1>1, <1>3, <3>1 DEF Caller
    <3>2. CASE UNCHANGED storeVars
      BY <1>4, <3>2 DEF storeVars
    <3> QED
      BY <2>2, <3>1, <3>2 DEF NextEntry
  <2>3. CASE Die
    BY <1>5, <2>3 DEF Die
  <2> QED
    BY <1>6, <2>1, <2>2, <2>3 DEF ServerProcess
<1>7. CASE PlayerCommand
  <2>1. PICK v \in Commands, s \in Streams : Call(Player, "set", "action", v, s)
    BY <1>7 DEF PlayerCommand, PlayerAsks
  <2>2. Caller(Player, "set", "action", v, s)
    BY <1>1 DEF Caller
  <2> QED
    BY <1>1, <1>3, <2>1, <2>2
<1>8. CASE PlayerQuery
  <2>1. PICK s \in Streams : Call(Player, "get", "status", Null, s)
    BY <1>8 DEF PlayerQuery, PlayerAsks
  <2>2. Caller(Player, "get", "status", Null, s)
    BY <1>1 DEF Caller
  <2> QED
    BY <1>1, <1>3, <2>1, <2>2
<1>9. ASSUME NEW c \in Conns, Accept(c) \/ HandlerStep(c) PROVE Goal
  <2>1. CASE Crash
    BY <1>5, <2>1 DEF Crash, Exit
  <2>2. CASE NoFileAccess
    BY <1>4, <2>2 DEF NoFileAccess, vars
  <2>3. CASE ServerFileStep(c)
    BY <1>1, <1>2, <2>3
  <2>4. ASSUME NEW place, NEW fn \in {"get", "set"}, NEW key, NEW val, NEW next,
               CallFrom(c, place, fn, key, val, next), fn = "set" => key # "action"
        PROVE  Goal
    <3>1. Caller(c, fn, key, val, strmID)
      BY <1>1, <2>4 DEF Caller
    <3> QED
      BY <1>1, <1>3, <2>4, <3>1 DEF CallFrom
  <2>5. CASE SendAck(c)
    <3>1. CallFrom(c, "sendAck", "set", "action", "done", "loop")
      BY <2>5 DEF SendAck
    <3>2. at[c] = "sendAck" /\ at'[c] = "loop"
      BY <3>1 DEF CallFrom, Handler, Goto, SInv, Memory
    <3>3. Caller(c, "set", "action", "done", strmID)
      BY <1>1, <3>2 DEF Caller
    <3> QED
      BY <1>1, <1>3, <3>1, <3>3 DEF CallFrom
  <2>6. CASE Record(c)
    BY <2>4, <2>6 DEF Record
  <2>7. CASE IsDone(c) \/ IsOff(c) \/ Differs(c)
    BY <2>2, <2>4, <2>7 DEF IsDone, IsOff, Differs, DecideAck
  <2> QED
    BY <1>9, <2>1, <2>2, <2>3, <2>5, <2>6, <2>7
    DEF HandlerStep, Accept, ThreadMain, clientComm, Loop, receiveData, Parsing, msgParse,
        SIGAct, SIGAck, Format, SendAct, Close
<1>10. CASE ServerFileStep(Main) \/ ServerFileStep(Player)
  BY <1>1, <1>2, <1>10
<1>11. CASE UNCHANGED vars
  BY <1>4, <1>11 DEF vars
<1> QED
  BY <1>6, <1>7, <1>8, <1>9, <1>10, <1>11
  DEF SystemNext, ServerNext, DeviceStep, systemVars, Goal

-----------------------------------------------------------------------------
(* The command a session has to obey *)

\* The file of s tells the command, whoever reads or rewrites it.
Kept(s) ==
  /\ disk[s] # Absent
  /\ disk[s] # Empty => disk[s]["action"] = pending[s]
  /\ \A t \in Threads : pc[t] \in Holding /\ op[t].file = s => buf[t]["action"] = pending[s]

\* A command that counts is on its way to the file, or there.
Promised(s) ==
  pending[s] # Null =>
    /\ ~Overlap(s)
    /\ IF Commanding(s) THEN op[Player].val = pending[s] ELSE Kept(s)

\* Who sets what: trigger only the status, a player only the action, and a handler
\* an action only when the command has been taken back.
Setters ==
  /\ op[Main] # Null => op[Main].fn = "reset" /\ op[Main].key = "status"
  /\ op[Player] # Null /\ op[Player].fn = "set" =>
       /\ op[Player].key = "action"
       /\ pc[Player] \in {"truncate", "write"} => buf[Player]["action"] = op[Player].val
  /\ \A c \in Conns : op[c] # Null /\ op[c].fn = "set" /\ op[c].key = "action" =>
       pending[op[c].file] = Null

\* A handler that looks at the action looks at that of its stream, and has found it;
\* one that has decided for an ACK has been told of the mode asked for.
Looking == {"isDone", "isOff", "differs"}

Asks(c) ==
  /\ at[c] \in Looking /\ pc[c] # "idle" => op[c].key = "action" /\ op[c].file = strmID
  /\ at[c] = "isOff" => Reported(c) = "ready"

Decides(c) ==
  pending[strmID] # Null /\ ~Commanding(strmID) =>
    /\ at[c] \in Looking /\ pc[c] = "idle" => ret[c] = pending[strmID]
    /\ at[c] \in {"ack", "sendAck"} => Reported(c) = Mode(pending[strmID])

ObeyInv ==
  /\ TalkInv /\ Rest
  /\ Setters
  /\ \A s \in Streams : Promised(s)
  /\ \A c \in Conns : Asks(c) /\ Decides(c)

\* What is known of a command that counts after a step.
LEMMA StillPending ==
  ASSUME PendingNext, NEW s \in Streams, pending'[s] # Null
  PROVE  /\ ~Overlap(s)'
         /\ ~(phase' = "down" /\ Commanding(s))
         /\ ~(Deciding' /\ Commanding(s) /\ ~Commanding(s)')
         /\ \A c \in Conns : ~(at[c] = "sendAck" /\ at'[c] = "loop" /\ strmID = s)
         /\ pending'[s] = IF Commanding(s)' /\ ~Commanding(s) THEN op'[Player].val ELSE pending[s]
<1> DEFINE lost == \/ Overlap(s)'
                   \/ phase' = "down" /\ Commanding(s)
                   \/ Deciding' /\ Commanding(s) /\ ~Commanding(s)'
                   \/ \E c \in Conns : at[c] = "sendAck" /\ at'[c] = "loop" /\ strmID = s
           new == Commanding(s)' /\ ~Commanding(s)
<1>1. pending'[s] = IF lost THEN Null ELSE IF new THEN op'[Player].val ELSE pending[s]
  BY DEF PendingNext
<1>2. ~lost
  <2> HIDE DEF lost, new
  <2> QED
    BY <1>1
<1>3. pending'[s] = IF new THEN op'[Player].val ELSE pending[s]
  <2> HIDE DEF lost, new
  <2> QED
    BY <1>1, <1>2
<1> QED
  BY <1>2, <1>3

\* A call goes on until it returns.
LEMMA CallsGoOn ==
  ASSUME SInv, [SystemNext]_systemVars, NEW t \in Threads, op[t] # Null
  PROVE  op'[t] \in {op[t], Null}
<1> /\ op \in [Threads -> {Null} \cup Calls] /\ pc \in [Threads -> Labels]
    /\ op[t] = Null <=> pc[t] = "idle"
  BY DEF SInv, IInv, TypeOK
<1>1. CASE UNCHANGED <<disk, op, pc, buf>>
  BY <1>1
<1>2. CASE Stop
  BY <1>2 DEF Stop, Nobody
<1>3. ASSUME NEW u \in Threads, ServerFileStep(u), phase' # "down"
      PROVE  op'[t] \in {op[t], Null}
  <2>1. FileStep(u)
    BY <1>3 DEF ServerFileStep
  <2> QED
    BY <1>3, <2>1, FileStepCases DEF SInv
<1>4. ASSUME NEW u \in Threads, NEW fn, NEW key, NEW val, NEW s, Call(u, fn, key, val, s)
      PROVE  op'[t] \in {op[t], Null}
  <2>1. u # t
    BY <1>4 DEF Call
  <2> QED
    BY <1>4, <2>1 DEF Call
<1> QED
  BY <1>1, <1>2, <1>3, <1>4, StepKinds

\* The player's call stores its value as the action.
LEMMA PlayerStores ==
  ASSUME SInv, Setters, [SystemNext]_systemVars
  PROVE  (op[Player] # Null /\ op[Player].fn = "set" =>
            /\ op[Player].key = "action"
            /\ pc[Player] \in {"truncate", "write"} => buf[Player]["action"] = op[Player].val)'
<1> /\ op \in [Threads -> {Null} \cup Calls] /\ pc \in [Threads -> Labels]
    /\ op[Player] = Null <=> pc[Player] = "idle"
    /\ Player \in Threads /\ \A c \in Conns : c # Player
  BY ServerAssumption DEF SInv, IInv, TypeOK, Threads
<1> DEFINE Stores == op[Player] # Null /\ op[Player].fn = "set" =>
              /\ op[Player].key = "action"
              /\ pc[Player] \in {"truncate", "write"} => buf[Player]["action"] = op[Player].val
<1> SUFFICES Stores'
  OBVIOUS
<1>1. Stores
  BY DEF Setters
<1>2. CASE UNCHANGED <<disk, op, pc, buf>>
  BY <1>1, <1>2
<1>3. CASE Stop
  BY <1>3 DEF Stop, Nobody
<1>4. ASSUME NEW t \in Threads, ServerFileStep(t), phase' # "down", op'[Player] # Null
      PROVE  Stores'
  <2> DEFINE f == op[t].file
             document == With(disk[f], op[t].key, op[t].val)
  <2>1. FileStep(t) /\ IInv
    BY <1>4 DEF ServerFileStep, SInv
  <2>2. CASE t # Player
    BY <1>1, <1>4, <2>1, <2>2, FileStepCases
  <2>3. CASE t = Player
    <3>1. op'[t] = op[t]
      BY <1>4, <2>1, <2>3, FileStepCases
    <3>2. op[t] # Null
      BY <1>4, <2>3, <3>1
    <3>3. ASSUME op[t].fn = "set" PROVE op[t].key = "action"
      BY <1>1, <2>3, <3>2, <3>3
    <3>4. ASSUME op[t].fn = "set", pc'[t] \in {"truncate", "write"}
          PROVE  buf'[t]["action"] = op[t].val
      <4>1. CASE pc'[t] = "truncate"
        <5>1. buf'[t] = document
          BY <1>4, <2>1, <2>3, <4>1, FileStepCases
        <5>2. document["action"] = op[t].val
          BY <3>3, <3>4 DEF With, AS!With
        <5> QED
          BY <5>1, <5>2
      <4>2. CASE pc'[t] = "write"
        <5>1. buf'[t] = buf[t] /\ pc[t] = "truncate"
          BY <1>4, <2>1, <2>3, <4>2, FileStepCases
        <5> QED
          BY <1>1, <2>3, <3>2, <3>4, <5>1
      <4> QED
        BY <3>4, <4>1, <4>2
    <3> QED
      BY <2>3, <3>1, <3>3, <3>4
  <2> QED
    BY <2>2, <2>3
<1>5. ASSUME NEW t \in Threads, NEW fn, NEW key, NEW val, NEW s,
             Call(t, fn, key, val, s), Caller(t, fn, key, val, s)
      PROVE  Stores'
  <2>1. CASE t # Player
    BY <1>1, <1>5, <2>1 DEF Call
  <2>2. CASE t = Player
    BY <1>5, <2>2 DEF Call, Caller
  <2> QED
    BY <2>1, <2>2
<1> HIDE DEF Stores
<1>6. op'[Player] = Null => Stores'
  BY DEF Stores
<1> QED
  <2>1. ASSUME NEW t \in Threads, ServerFileStep(t), phase' # "down" PROVE Stores'
    BY <1>4, <1>6, <2>1
  <2> QED
    BY <1>2, <1>3, <1>5, <2>1, StepKinds

LEMMA MainResets ==
  ASSUME SInv, Setters, [SystemNext]_systemVars
  PROVE  op'[Main] # Null => op'[Main].fn = "reset" /\ op'[Main].key = "status"
<1> SUFFICES ASSUME op'[Main] # Null
             PROVE  op'[Main].fn = "reset" /\ op'[Main].key = "status"
  OBVIOUS
<1> op \in [Threads -> {Null} \cup Calls] /\ Main \in Threads
  BY DEF SInv, IInv, TypeOK, Threads
<1>1. CASE op[Main] # Null
  BY <1>1, CallsGoOn DEF Setters
<1>2. CASE op[Main] = Null
  <2>1. PICK t \in Threads : \E fn, key, val, s :
             Call(t, fn, key, val, s) /\ Caller(t, fn, key, val, s)
    <3>1. ASSUME NEW t \in Threads, ServerFileStep(t), phase' # "down" PROVE op'[Main] = Null
      <4>1. FileStep(t) /\ IInv
        BY <3>1 DEF ServerFileStep, SInv
      <4>2. op[t] # Null
        BY <4>1, <3>1, FileStepCases, ConstantsAssumption
      <4> QED
        BY <1>2, <3>1, <4>1, <4>2, FileStepCases
    <3>2. ~Stop
      BY DEF Stop, Nobody
    <3> QED
      BY <1>2, <3>1, <3>2, StepKinds
  <2>2. t = Main
    BY <1>2, <2>1 DEF Call
  <2> QED
    BY <2>1, <2>2 DEF Call, Caller
<1> QED
  BY <1>1, <1>2

LEMMA SettersHold ==
  ASSUME SInv, Setters, SystemNext
  PROVE  Setters'
<1> Conns \subseteq Threads \ {Main, Player} /\ {Main, Player} \subseteq Threads
  BY ServerAssumption, ConstantsAssumption DEF Threads
<1>1. SInv' /\ PendingNext
  BY SystemStepHolds DEF SystemNext
<1> op \in [Threads -> {Null} \cup Calls] /\ op' \in [Threads -> {Null} \cup Calls]
  BY <1>1 DEF SInv, IInv, TypeOK
<1>2. ASSUME NEW c \in Conns, op'[c] # Null, op'[c].fn = "set", op'[c].key = "action",
             pending'[op'[c].file] # Null
      PROVE  FALSE
  <2>1. PICK s \in Streams : s = op'[c].file
    BY <1>2 DEF Calls
  <2>2. /\ ~Overlap(s)'
        /\ \A b \in Conns : ~(at[b] = "sendAck" /\ at'[b] = "loop" /\ strmID = s)
        /\ pending'[s] = IF Commanding(s)' /\ ~Commanding(s) THEN op'[Player].val ELSE pending[s]
    <3>1. pending'[s] # Null
      BY <1>2, <2>1
    <3> QED
      BY <1>1, <3>1, StillPending
  <2>3. ~Commanding(s)'
    BY <1>2, <2>1, <2>2 DEF Overlap, Commanding
  <2>4. pending[s] # Null
    BY <1>2, <2>1, <2>2, <2>3
  <2>5. op[c] # op'[c]
    BY <1>2, <2>1, <2>4 DEF Setters
  <2>6. op[c] = Null
    BY <1>2, <2>5, CallsGoOn
  <2>7. \E t \in Threads : \E fn, key, val, file :
          Call(t, fn, key, val, file) /\ Caller(t, fn, key, val, file)
    <3>1. ASSUME NEW t \in Threads, ServerFileStep(t), phase' # "down" PROVE op'[c] = Null
      <4>1. FileStep(t) /\ IInv
        BY <3>1 DEF ServerFileStep, SInv
      <4>2. op[t] # Null
        BY <4>1, <3>1, FileStepCases, ConstantsAssumption
      <4> QED
        BY <2>6, <3>1, <4>1, <4>2, FileStepCases
    <3>2. ~Stop
      BY <1>2 DEF Stop, Nobody
    <3> QED
      BY <1>2, <2>6, <3>1, <3>2, StepKinds
  <2>8. PICK fn, key, val, file :
          /\ Caller(c, fn, key, val, file)
          /\ op'[c] = [fn |-> fn, key |-> key, val |-> val, file |-> file]
    BY <1>2, <2>6, <2>7 DEF Call
  <2> QED
    BY <1>2, <2>1, <2>2, <2>8 DEF Caller
<1> QED
  BY <1>2, PlayerStores, MainResets DEF Setters

\* A command that is stored is what the file tells.
LEMMA StoredIsKept ==
  ASSUME SInv, Setters, SystemNext, NEW s \in Streams, ~Overlap(s), phase' # "down",
         Commanding(s), ~Commanding(s)', pending'[s] = op[Player].val
  PROVE  Kept(s)'
<1> /\ op \in [Threads -> {Null} \cup Calls] /\ pc \in [Threads -> Labels]
    /\ buf \in [Threads -> {Null} \cup Documents]
    /\ disk \in [Streams -> {Absent, Empty} \cup Documents]
    /\ \A t \in Threads : /\ op[t] = Null <=> pc[t] = "idle"
                          /\ buf[t] = Null <=> pc[t] \notin Holding
    /\ Player \in Threads
  BY ServerAssumption DEF SInv, IInv, TypeOK, Threads
<1>1. op[Player] # Null /\ op[Player].fn = "set" /\ op[Player].file = s
  BY DEF Commanding
<1>2. op'[Player] = Null
  BY <1>1, CallsGoOn DEF Commanding
<1>3. ServerFileStep(Player)
  <2>1. ~Stop
    BY DEF Stop
  <2>2. ASSUME NEW t \in Threads, ServerFileStep(t) PROVE t = Player
    <3>1. FileStep(t) /\ IInv
      BY <2>2 DEF ServerFileStep, SInv
    <3> QED
      BY <1>1, <1>2, <3>1, FileStepCases
  <2>3. ASSUME NEW t \in Threads, NEW fn, NEW key, NEW val, NEW file, Call(t, fn, key, val, file)
        PROVE  FALSE
    <3>1. t # Player
      BY <1>1, <2>3 DEF Call
    <3> QED
      BY <1>1, <1>2, <2>3, <3>1 DEF Call
  <2> QED
    BY <1>1, <1>2, <2>1, <2>2, <2>3, StepKinds
<1>4. FileStep(Player) /\ IInv
  BY <1>3 DEF ServerFileStep, SInv
<1>5. /\ pc[Player] = "write" /\ disk' = [disk EXCEPT ![s] = buf[Player]] /\ pc'[Player] = "idle"
      /\ \A u \in Threads \ {Player} : UNCHANGED <<op[u], pc[u], buf[u]>>
  BY <1>1, <1>2, <1>4, FileStepCases
<1>6. buf[Player] \in Documents /\ buf[Player]["action"] = pending'[s]
  BY <1>1, <1>5 DEF Setters, Holding
<1>7. disk'[s] # Absent /\ disk'[s]["action"] = pending'[s]
  BY <1>5, <1>6, ConstantsAssumption
<1>8. ASSUME NEW t \in Threads, pc'[t] \in Holding, op'[t].file = s PROVE FALSE
  <2>1. t # Player
    BY <1>5, <1>8 DEF Holding
  <2>2. op[t] # Null /\ op[t].file = s
    BY <1>5, <1>8, <2>1 DEF Holding
  <2> QED
    BY <1>1, <2>1, <2>2 DEF Overlap
<1> QED
  BY <1>7, <1>8 DEF Kept

\* Nothing else takes a command from the file: a handler's status report and an
\* alarm rewrite the document with the action it has.
LEMMA KeptStays ==
  ASSUME SInv, Setters, SystemNext, NEW s \in Streams, pending[s] # Null, ~Overlap(s),
         ~Commanding(s), Kept(s), pending'[s] = pending[s]
  PROVE  Kept(s)'
<1> /\ op \in [Threads -> {Null} \cup Calls] /\ pc \in [Threads -> Labels]
    /\ buf \in [Threads -> {Null} \cup Documents]
    /\ disk \in [Streams -> {Absent, Empty} \cup Documents]
    /\ \A t \in Threads : /\ op[t] = Null <=> pc[t] = "idle"
                          /\ buf[t] = Null <=> pc[t] \notin Holding
    /\ Player \in Threads /\ Threads = Conns \cup {Player, Main}
    /\ Absent \notin Documents \cup {Empty} /\ Empty \notin Documents
  BY ServerAssumption, ConstantsAssumption DEF SInv, IInv, TypeOK, Threads
<1>1. CASE UNCHANGED <<disk, op, pc, buf>>
  BY <1>1 DEF Kept
<1>2. CASE Stop
  BY <1>2 DEF Stop, Kept, Idle, Holding
<1>3. ASSUME NEW t \in Threads, NEW fn, NEW key, NEW val, NEW file, Call(t, fn, key, val, file)
      PROVE  Kept(s)'
  <2>1. \A u \in Threads : pc'[u] \in Holding => pc[u] \in Holding /\ op'[u] = op[u]
    BY <1>3 DEF Call, Holding
  <2> QED
    BY <1>3, <2>1 DEF Call, Kept
<1>4. ASSUME NEW t \in Threads, ServerFileStep(t), phase' # "down"
      PROVE  Kept(s)'
  <2> DEFINE document == With(disk[s], op[t].key, op[t].val)
  <2>1. FileStep(t) /\ IInv
    BY <1>4 DEF ServerFileStep, SInv
  <2>2. \A u \in Threads \ {t} : UNCHANGED <<op[u], pc[u], buf[u]>>
    BY <1>4, <2>1, FileStepCases
  <2>3. op[t] \in Calls
    BY <1>4, <2>1, FileStepCases
  <2>4. op'[t] = op[t] \/ pc'[t] = "idle"
    BY <1>4, <2>1, FileStepCases
  <2>5. CASE op[t].file # s
    <3>1. disk'[s] = disk[s]
      BY <1>4, <2>1, <2>5, FileStepCases
    <3>2. ASSUME NEW u \in Threads, pc'[u] \in Holding, op'[u].file = s
          PROVE  buf'[u]["action"] = pending[s]
      <4>1. u # t
        BY <2>4, <2>5, <3>2 DEF Holding
      <4> QED
        BY <2>2, <3>2, <4>1 DEF Kept
    <3> QED
      BY <3>1, <3>2 DEF Kept
  <2>6. CASE op[t].file = s
    <3>1. ASSUME NEW u \in Threads, pc[u] \in Holding, op[u].file = s PROVE u = t
      <4>1. op[u] # Null /\ op[t] # Null
        BY <2>3, <3>1, ConstantsAssumption DEF Holding
      <4> QED
        BY <2>6, <3>1, <4>1 DEF Overlap
    <3>2. ~(pc[t] = "read" /\ op[t].fn # "reset" /\ Unreadable(s))
      <4>1. SUFFICES ASSUME pc[t] = "read", op[t].fn # "reset", disk[s] = Empty PROVE FALSE
        BY DEF Unreadable, Kept
      <4>2. op[t] # Null
        BY <2>3, ConstantsAssumption
      <4>3. t # Main
        BY <4>1, <4>2 DEF Setters
      <4>4. t \in Workers
        BY <4>3 DEF Threads
      <4>5. phase = "serving"
        BY <4>2, <4>4 DEF SInv, IInv, TypeOK, Quiet
      <4>6. PICK u \in Threads : pc[u] \in Torn /\ op[u].file = s
        BY <4>1, <4>5 DEF SInv, IInv, TornExplained
      <4> QED
        BY <3>1, <4>1, <4>6 DEF Torn, Holding
    <3>3. ASSUME op[t].fn # "get", disk[s] \in Documents, op'[t] = op[t]
          PROVE  document["action"] = pending[s]
      <4>1. op[t].key # "action"
        <5>1. op[t].fn = "set" \/ op[t].key = "status"
          BY <2>3, <3>3 DEF Calls
        <5>2. op[t] # Null
          BY <2>3, ConstantsAssumption
        <5>3. ASSUME op[t].fn = "set", op[t].key = "action" PROVE FALSE
          <6>1. t # Player /\ t # Main
            BY <2>6, <5>2, <5>3 DEF Commanding, Setters
          <6>2. t \in Conns
            BY <6>1
          <6> QED
            BY <2>6, <5>2, <5>3, <6>2 DEF Setters
        <5> QED
          BY <5>1, <5>3
      <4>2. disk[s]["action"] = pending[s]
        BY <3>3 DEF Kept
      <4>3. "action" \in DOMAIN disk[s]
        BY <3>3 DEF SInv, IInv, DiskHistory, Keys, AS!Keys
      <4> QED
        BY <4>1, <4>2, <4>3 DEF With, AS!With
    <3> HIDE DEF document
    <3>4. CASE disk' = disk /\ pc'[t] \notin Holding
      <4>1. ASSUME NEW u \in Threads, pc'[u] \in Holding, op'[u].file = s
            PROVE  buf'[u]["action"] = pending[s]
        BY <2>2, <3>4, <4>1 DEF Kept
      <4> QED
        BY <3>4, <4>1 DEF Kept
    <3>5. CASE /\ op[t].fn # "get" /\ disk[s] \in Documents
               /\ op'[t] = op[t] /\ pc'[t] = "truncate" /\ disk' = disk /\ buf'[t] = document
      <4>1. ASSUME NEW u \in Threads, pc'[u] \in Holding, op'[u].file = s
            PROVE  buf'[u]["action"] = pending[s]
        <5>1. CASE u = t
          BY <3>3, <3>5, <5>1
        <5>2. CASE u # t
          BY <2>2, <4>1, <5>2 DEF Kept
        <5> QED
          BY <5>1, <5>2
      <4> QED
        BY <3>5, <4>1 DEF Kept
    <3>6. CASE /\ pc[t] \in {"newTruncate", "truncate"} /\ buf'[t] = buf[t]
               /\ op'[t] = op[t] /\ disk' = [disk EXCEPT ![s] = Empty]
      <4>1. ASSUME NEW u \in Threads, pc'[u] \in Holding, op'[u].file = s
            PROVE  buf'[u]["action"] = pending[s]
        BY <2>2, <2>6, <3>6, <4>1 DEF Kept, Holding
      <4> QED
        BY <3>6, <4>1 DEF Kept
    <3>7. CASE /\ pc[t] \in {"newWrite", "write"} /\ disk' = [disk EXCEPT ![s] = buf[t]]
               /\ pc'[t] \in {"idle", "reread"}
      <4>1. disk'[s] = buf[t] /\ buf[t] \in Documents /\ buf[t]["action"] = pending[s]
        BY <2>6, <3>7 DEF Kept, Holding
      <4>2. ASSUME NEW u \in Threads, pc'[u] \in Holding, op'[u].file = s
            PROVE  buf'[u]["action"] = pending[s]
        BY <2>2, <3>7, <4>2 DEF Kept, Holding
      <4> QED
        BY <4>1, <4>2 DEF Kept
    <3> QED
      BY <1>4, <2>1, <2>6, <3>2, <3>4, <3>5, <3>6, <3>7, FileStepCases DEF Holding, document
  <2> QED
    BY <2>5, <2>6
<1> QED
  BY <1>1, <1>2, <1>3, <1>4, StepKinds
LEMMA PromiseHolds ==
  ASSUME SInv, Setters, SystemNext, NEW s \in Streams, Promised(s)
  PROVE  Promised(s)'
<1> SUFFICES ASSUME pending'[s] # Null
             PROVE  /\ ~Overlap(s)'
                    /\ IF Commanding(s)' THEN op'[Player].val = pending'[s] ELSE Kept(s)'
  BY DEF Promised
<1>1. PendingNext
  BY DEF SystemNext
<1>2. /\ ~Overlap(s)'
      /\ ~(phase' = "down" /\ Commanding(s))
      /\ pending'[s] = IF Commanding(s)' /\ ~Commanding(s) THEN op'[Player].val ELSE pending[s]
  BY <1>1, StillPending
<1>3. CASE Commanding(s)' /\ ~Commanding(s)
  BY <1>2, <1>3
<1>4. CASE Commanding(s)' /\ Commanding(s)
  <2>1. op[Player] # Null /\ op'[Player] # Null /\ Player \in Threads
    BY <1>4, ServerAssumption DEF Commanding, Threads
  <2>2. op'[Player] = op[Player]
    BY <2>1, CallsGoOn
  <2> QED
    BY <1>2, <1>4, <2>2 DEF Promised
<1>5. CASE ~Commanding(s)' /\ Commanding(s)
  <2>1. ~Overlap(s) /\ pending'[s] = op[Player].val
    BY <1>2, <1>5 DEF Promised
  <2>2. phase' # "down"
    BY <1>2, <1>5
  <2>3. Kept(s)'
    BY <1>5, <2>1, <2>2, StoredIsKept
  <2> QED
    BY <1>2, <1>5, <2>3
<1>6. CASE ~Commanding(s)' /\ ~Commanding(s)
  <2>1. ~Overlap(s) /\ Kept(s) /\ pending[s] # Null /\ pending'[s] = pending[s]
    BY <1>2, <1>6 DEF Promised
  <2>2. Kept(s)'
    BY <1>6, <2>1, KeptStays
  <2> QED
    BY <1>2, <1>6, <2>2
<1> QED
  BY <1>3, <1>4, <1>5, <1>6

-----------------------------------------------------------------------------
(* What the handler makes of it *)

\* How the handler comes to look at the action, and to decide.
LEMMA HandlerKinds ==
  ASSUME TalkInv, SystemNext, NEW c \in Conns, at'[c] \in Looking \cup {"ack", "sendAck"}
  PROVE  /\ strmID' = strmID /\ jobj'[c] = jobj[c]
         /\ \/ UNCHANGED <<at[c], op[c], pc[c], ret[c]>>
            \/ \* it asks
               /\ Call(c, "get", "action", Null, strmID) /\ at'[c] \in Looking
               /\ at'[c] = "isOff" => Reported(c) = "ready"
            \/ \* it decides
               /\ pc[c] = "idle" /\ at'[c] = "ack"
               /\ \/ at[c] = "isDone" /\ ret[c] = "done"
                  \/ at[c] = "isOff" /\ ret[c] = "off"
                  \/ at[c] = "differs" /\ ret[c] = Reported(c)
            \/ at[c] = "ack" /\ at'[c] = "sendAck"
            \/ at'[c] = at[c] /\ ServerFileStep(c) /\ phase' # "down"
<1> DEFINE Goal == /\ strmID' = strmID /\ jobj'[c] = jobj[c]
                   /\ \/ UNCHANGED <<at[c], op[c], pc[c], ret[c]>>
                      \/ /\ Call(c, "get", "action", Null, strmID) /\ at'[c] \in Looking
                         /\ at'[c] = "isOff" => Reported(c) = "ready"
                      \/ /\ pc[c] = "idle" /\ at'[c] = "ack"
                         /\ \/ at[c] = "isDone" /\ ret[c] = "done"
                            \/ at[c] = "isOff" /\ ret[c] = "off"
                            \/ at[c] = "differs" /\ ret[c] = Reported(c)
                      \/ at[c] = "ack" /\ at'[c] = "sendAck"
                      \/ at'[c] = at[c] /\ ServerFileStep(c) /\ phase' # "down"
<1> SUFFICES Goal
  OBVIOUS
<1> /\ {Player, Main} \subseteq Threads \ Conns /\ Conns \subseteq Threads
    /\ Conns \subseteq Workers
  BY ServerAssumption, ConstantsAssumption DEF Threads
<1> /\ op \in [Threads -> {Null} \cup Calls] /\ pc \in [Threads -> Labels]
    /\ at \in [Conns -> Places] /\ jobj \in [Conns -> Frames]
    /\ ret \in [Workers -> Values \cup {Null}]
  BY DEF TalkInv, SInv, Memory, IInv, TypeOK
<1>1. ~MemoryLost
  BY DEF MemoryLost, Looking
<1>2. ASSUME UNCHANGED <<strmID, jobj[c], at[c], op[c], pc[c], ret[c]>> PROVE Goal
  BY <1>2
<1>3. CASE \E d \in Devices : DeviceStep(d)
  BY <1>2, <1>3 DEF DeviceStep, vars, serverVars
<1>4. CASE ServerProcess
  <2>1. CASE Boot \/ Alarm \/ BootDone
    BY <1>2, <1>4, <2>1, <1>1 DEF ServerProcess, Boot, Alarm, BootDone, storeVars, serverVars, Die
  <2>2. CASE NextEntry
    BY <1>2, <1>4, <2>2, <1>1 DEF ServerProcess, NextEntry, Call, storeVars, serverVars, Die
  <2> QED
    BY <1>1, <1>4, <2>1, <2>2 DEF ServerProcess
<1>5. CASE PlayerCommand \/ PlayerQuery
  BY <1>2, <1>5 DEF PlayerCommand, PlayerQuery, PlayerAsks, Call, serverVars
<1>6. ASSUME NEW t \in Threads, ServerFileStep(t) PROVE Goal
  <2>1. phase' # "down" /\ FileStep(t) /\ IInv /\ UNCHANGED <<at, jobj, strmID>>
    BY <1>1, <1>6 DEF ServerFileStep, globalVars, TalkInv, SInv
  <2>2. CASE t = c
    BY <1>6, <2>1, <2>2
  <2>3. CASE t # c
    <3>1. UNCHANGED <<op[c], pc[c]>>
      BY <2>1, <2>3, FileStepCases
    <3>2. ret'[c] = ret[c]
      BY <1>6, <2>1, <2>3 DEF ServerFileStep
    <3> QED
      BY <1>2, <2>1, <3>1, <3>2
  <2> QED
    BY <2>2, <2>3
<1>7. ASSUME NEW b \in Conns, Accept(b) \/ HandlerStep(b) PROVE Goal
  <2>1. at[b] # "none" /\ at[c] # "none" => b = c
    BY DEF TalkInv, OneSession, NobodyTalks, NoSession, Session, Placed
  <2>2. ~Crash
    BY <1>1 DEF Crash
  <2>3. CASE Accept(b)
    <3>1. b # c /\ at'[c] = at[c]
      BY <2>3 DEF Accept, Goto, Looking
    <3> QED
      BY <1>2, <2>3, <3>1 DEF Accept, NoFileAccess, vars, globalVars
  <2>4. CASE ServerFileStep(b)
    BY <1>6, <2>4
  <2>5. CASE HandlerStep(b) /\ ~ServerFileStep(b)
    <3> DEFINE Step == \/ ThreadMain(b) \/ clientComm(b) \/ Loop(b) \/ receiveData(b) \/ msgParse(b)
                       \/ Record(b) \/ IsDone(b) \/ IsOff(b) \/ Differs(b)
                       \/ SIGAct(b) \/ SendAct(b) \/ SIGAck(b) \/ SendAck(b) \/ Close(b)
    <3>1. Step
      BY <2>5 DEF HandlerStep
    <3>2. at[b] # "none" /\ \E place : at' = [at EXCEPT ![b] = place]
      <4>1. CASE ThreadMain(b) \/ clientComm(b) \/ Loop(b) \/ receiveData(b) \/ msgParse(b)
        BY <2>2, <4>1
        DEF ThreadMain, clientComm, Loop, receiveData, Parsing, msgParse, Handler, Goto
      <4>2. CASE SIGAct(b) \/ SendAct(b) \/ SIGAck(b) \/ Close(b)
        BY <4>2 DEF SIGAct, SendAct, SIGAck, Close, Format, Handler, Goto
      <4>3. ASSUME NEW place, NEW fn, NEW key, NEW val, NEW next, place # "none",
                   CallFrom(b, place, fn, key, val, next)
            PROVE  at[b] # "none" /\ \E there : at' = [at EXCEPT ![b] = there]
        BY <4>3 DEF CallFrom, Handler, Goto
      <4>4. ASSUME NEW place, place # "none", DecideAck(b, place)
            PROVE  at[b] # "none" /\ \E there : at' = [at EXCEPT ![b] = there]
        BY <4>4 DEF DecideAck, Handler, Goto
      <4>5. CASE Record(b)
        BY <4>3, <4>5 DEF Record
      <4>6. CASE IsDone(b)
        BY <4>3, <4>4, <4>6 DEF IsDone
      <4>7. CASE IsOff(b)
        BY <4>3, <4>4, <4>7 DEF IsOff
      <4>8. CASE Differs(b)
        BY <4>3, <4>4, <4>8 DEF Differs
      <4>9. CASE SendAck(b)
        BY <4>3, <4>9 DEF SendAck
      <4> QED
        BY <3>1, <4>1, <4>2, <4>5, <4>6, <4>7, <4>8, <4>9
    <3>3. b = c
      <4>1. b # c => at'[c] = at[c]
        BY <3>2
      <4> QED
        BY <2>1, <3>2, <4>1 DEF Looking
    <3>4. CASE ThreadMain(c) \/ clientComm(c) \/ Loop(c) \/ receiveData(c) \/ msgParse(c)
      BY <2>2, <3>4
      DEF ThreadMain, clientComm, Loop, receiveData, Parsing, msgParse, Goto, Looking
    <3>5. CASE SIGAct(c) \/ SendAct(c) \/ Close(c)
      BY <3>5 DEF SIGAct, SendAct, Close, Format, Goto, Looking
    <3>6. CASE SIGAck(c)
      BY <3>6 DEF SIGAck, Format, Handler, Goto
    <3>7. CASE Record(c) \/ SendAck(c)
      <4>1. CallFrom(c, "getAction", "get", "action", Null, "isDone") /\ Silent
        BY <3>7 DEF Record, SendAck, CallFrom, Goto, Looking
      <4> QED
        BY <4>1 DEF CallFrom, Goto, Silent, globalVars, Looking
    <3>8. ASSUME NEW place \in Looking, NEW next \in Looking,
                 CallFrom(c, place, "get", "action", Null, next), UNCHANGED strmID,
                 next = "isOff" => Reported(c) = "ready"
          PROVE  Goal
      BY <3>8 DEF CallFrom, Goto
    <3>9. ASSUME NEW place, DecideAck(c, place),
                 \/ place = "isDone" /\ ret[c] = "done"
                 \/ place = "isOff" /\ ret[c] = "off"
                 \/ place = "differs" /\ ret[c] = Reported(c)
          PROVE  Goal
      BY <3>9 DEF DecideAck, Handler, Goto, Silent, globalVars
    <3>10. CASE IsDone(c)
      BY <3>8, <3>9, <3>10 DEF IsDone, Silent, globalVars, Looking
    <3>11. CASE IsOff(c)
      BY <3>8, <3>9, <3>11 DEF IsOff, Silent, globalVars, Looking
    <3>12. CASE Differs(c)
      <4>1. CASE ret[c] = Reported(c) /\ DecideAck(c, "differs")
        BY <3>9, <4>1
      <4>2. ~CallFrom(c, "differs", "get", "action", Null, "act")
        BY DEF CallFrom, Goto, Looking
      <4> QED
        BY <3>12, <4>1, <4>2 DEF Differs
    <3> QED
      BY <3>1, <3>3, <3>4, <3>5, <3>6, <3>7, <3>10, <3>11, <3>12
  <2> QED
    BY <1>7, <2>3, <2>4, <2>5
<1> QED
  BY <1>3, <1>4, <1>5, <1>6, <1>7 DEF SystemNext, ServerNext
LEMMA AsksHolds ==
  ASSUME TalkInv, SystemNext, NEW c \in Conns, Asks(c)
  PROVE  Asks(c)'
<1> SUFFICES ASSUME at'[c] \in Looking PROVE Asks(c)'
  BY DEF Asks, Looking
<1>1. strmID' = strmID /\ Reported(c)' = Reported(c)
  BY HandlerKinds DEF Reported
<1>2. CASE UNCHANGED <<at[c], op[c], pc[c], ret[c]>>
  BY <1>1, <1>2 DEF Asks
<1>3. CASE /\ Call(c, "get", "action", Null, strmID)
           /\ at'[c] = "isOff" => Reported(c) = "ready"
  <2>1. op'[c].key = "action" /\ op'[c].file = strmID
    BY <1>3, ServerAssumption DEF Call, TalkInv, SInv, IInv, TypeOK, Threads
  <2> QED
    BY <1>1, <1>3, <2>1 DEF Asks
<1>4. CASE at'[c] = at[c] /\ ServerFileStep(c) /\ phase' # "down"
  <2>1. c \in Threads /\ FileStep(c) /\ IInv
    BY <1>4, ServerAssumption DEF ServerFileStep, Threads, TalkInv, SInv
  <2>2. op'[c] = op[c] \/ pc'[c] = "idle"
    BY <1>4, <2>1, FileStepCases
  <2>3. pc[c] # "idle"
    BY <2>1 DEF FileStep, ReadFile, ReadEntry, ReadAgain, Truncate, WriteNew, WriteFile
  <2> QED
    BY <1>1, <1>4, <2>2, <2>3 DEF Asks
<1> QED
  BY <1>2, <1>3, <1>4, HandlerKinds DEF Looking

\* The only session there is tells the status of its device, which is not leaving.
LEMMA NobodyReportsOff ==
  ASSUME TalkInv, NEW c \in Conns, at[c] \in Looking
  PROVE  Reported(c) # "off"
<1>1. Session(c)
  BY TheSession DEF TalkInv, Looking
<1>2. Deliberating(c)
  <2>1. conns[c].server # "closed"
    BY <1>1 DEF Session, Placed, Looking
  <2>2. ~Crashed(c)
    BY DEF Crashed, Awaits, Looking
  <2> QED
    BY <1>1, <2>1, <2>2, Turns DEF Looking
<1>3. Reported(c) = status[Device(c)]
  BY <1>2 DEF Deliberating, Reported, Report, getJsonValueFromObj
<1> QED
  BY <1>1, <1>3 DEF TalkInv, OneSession, Apart, Session, Placed

LEMMA DecidesHolds ==
  ASSUME "done" \notin Commands, ObeyInv, SystemNext, NEW c \in Conns
  PROVE  Decides(c)'
<1> SUFFICES ASSUME at'[c] \in Looking \cup {"ack", "sendAck"},
                    pending'[strmID'] # Null, ~Commanding(strmID)'
             PROVE  /\ at'[c] \in Looking /\ pc'[c] = "idle" => ret'[c] = pending'[strmID']
                    /\ at'[c] \in {"ack", "sendAck"} => Reported(c)' = Mode(pending'[strmID'])
  BY DEF Decides
<1> /\ TalkInv /\ Rest /\ Asks(c) /\ Decides(c) /\ PendingNext /\ SInv /\ IInv
    /\ c \in Threads /\ c \in Workers
  BY ServerAssumption DEF ObeyInv, SystemNext, TalkInv, SInv, Threads
<1>1. strmID' = strmID /\ Reported(c)' = Reported(c)
  BY HandlerKinds DEF Reported
<1>2. PICK s \in Streams : strmID = s
  <2>1. SInv'
    BY SystemStepHolds
  <2> QED
    BY <1>1, <2>1 DEF SInv, Memory, Looking
<1>3. pending'[s] # Null /\ ~Commanding(s)'
  BY <1>1, <1>2
<1>4. Deciding'
  BY DEF Deciding, Looking
<1>5. ~Commanding(s) /\ pending'[s] = pending[s]
  BY <1>3, <1>4, StillPending
<1>6. pending[s] \in Commands /\ Kept(s)
  BY <1>3, <1>5 DEF Rest, ObeyInv, Promised
<1>7. /\ at[c] \in Looking /\ pc[c] = "idle" => ret[c] = pending[s]
      /\ at[c] \in {"ack", "sendAck"} => Reported(c) = Mode(pending[s])
  BY <1>2, <1>3, <1>5 DEF Decides
<1> SUFFICES /\ at'[c] \in Looking /\ pc'[c] = "idle" => ret'[c] = pending[s]
             /\ at'[c] \in {"ack", "sendAck"} => Reported(c) = Mode(pending[s])
  BY <1>1, <1>2, <1>5
<1>8. CASE UNCHANGED <<at[c], op[c], pc[c], ret[c]>>
  BY <1>7, <1>8
<1>9. CASE Call(c, "get", "action", Null, strmID) /\ at'[c] \in Looking
  BY <1>9 DEF Call, IInv, TypeOK, Looking
<1>10. CASE /\ pc[c] = "idle" /\ at'[c] = "ack"
            /\ \/ at[c] = "isDone" /\ ret[c] = "done"
               \/ at[c] = "isOff" /\ ret[c] = "off"
               \/ at[c] = "differs" /\ ret[c] = Reported(c)
  <2>1. ret[c] = pending[s] /\ at[c] # "isDone"
    BY <1>6, <1>7, <1>10 DEF Looking
  <2>2. at[c] = "differs" => Reported(c) # "off"
    BY NobodyReportsOff DEF Looking
  <2> QED
    BY <1>10, <2>1, <2>2 DEF Mode, Asks, Looking
<1>11. CASE at[c] = "ack" /\ at'[c] = "sendAck"
  BY <1>7, <1>11 DEF Looking
<1>12. CASE at'[c] = at[c] /\ ServerFileStep(c) /\ phase' # "down"
  <2>1. FileStep(c) /\ pc[c] # "idle"
    BY <1>12 DEF ServerFileStep, FileStep, ReadFile, ReadEntry, ReadAgain, Truncate, WriteNew, WriteFile
  <2>2. ASSUME at'[c] \in Looking, pc'[c] = "idle" PROVE ret'[c] = pending[s]
    <3>1. /\ op[c].key = "action" /\ op[c].file = s
          /\ op[c].fn = "get" /\ pc[c] # "write"
      BY <1>2, <1>12, <2>1, <2>2 DEF Asks, SInv, AllAsked, Asked, Looking
    <3>2. /\ op'[c] = Null /\ disk[s] \in Documents /\ Returned(c) = disk[s]["action"]
      BY <1>12, <2>1, <2>2, <3>1, FileStepCases
    <3>3. ret'[c] = Returned(c)
      BY <1>12, <3>2 DEF ServerFileStep, SInv, Memory
    <3>4. disk[s] # Empty
      BY <3>2, ConstantsAssumption
    <3> QED
      BY <1>6, <3>2, <3>3, <3>4 DEF Kept
  <2> QED
    BY <1>7, <1>12, <2>2 DEF Looking
<1> QED
  BY <1>8, <1>9, <1>10, <1>11, <1>12, HandlerKinds
LEMMA ObeyStep ==
  ASSUME Sparse, MaxInterrupts = 0, "done" \notin Commands, ObeyInv, [SystemNext]_systemVars
  PROVE  ObeyInv'
<1>1. TalkInv' /\ Rest'
  BY TalkStep, RestHolds DEF ObeyInv, TalkInv
<1>2. CASE SystemNext
  <2>1. Setters' /\ \A s \in Streams : Promised(s)'
    BY <1>2, SettersHold, PromiseHolds DEF ObeyInv, TalkInv
  <2>2. \A c \in Conns : Asks(c)' /\ Decides(c)'
    BY <1>2, AsksHolds, DecidesHolds DEF ObeyInv
  <2> QED
    BY <1>1, <2>1, <2>2 DEF ObeyInv
<1>3. CASE UNCHANGED systemVars
  <2>1. UNCHANGED <<disk, op, pc, buf, phase, at, jobj, ret, strmID, pending>>
    BY <1>3 DEF systemVars, vars, serverVars
  <2>2. Setters'
    BY <2>1 DEF ObeyInv, Setters
  <2>3. ASSUME NEW s \in Streams PROVE Promised(s)'
    <3>1. Promised(s)
      BY DEF ObeyInv
    <3> QED
      BY <2>1, <3>1 DEF Promised, Overlap, Commanding, Kept
  <2>4. ASSUME NEW c \in Conns PROVE Asks(c)' /\ Decides(c)'
    <3>1. Asks(c) /\ Decides(c)
      BY DEF ObeyInv
    <3> QED
      BY <2>1, <3>1 DEF Asks, Decides, Commanding, Reported
  <2> QED
    BY <1>1, <2>2, <2>3, <2>4 DEF ObeyInv
<1> QED
  BY <1>2, <1>3

LEMMA ObeyInit == ASSUME SystemInit PROVE ObeyInv
<1>1. TalkInv /\ Rest
  BY TalkInit, RestInit
<1>2. /\ \A t \in Threads : op[t] = Null
      /\ \A s \in Streams : pending[s] = Null
      /\ \A c \in Conns : at[c] = "none"
  BY DEF SystemInit, ServerInit, Init, Nobody, FreshMemory
<1>3. Main \in Threads /\ Player \in Threads /\ Conns \subseteq Threads
  BY ServerAssumption DEF Threads
<1>4. Setters /\ \A s \in Streams : Promised(s)
  BY <1>2, <1>3 DEF Setters, Promised
<1>5. \A c \in Conns : Asks(c) /\ Decides(c)
  BY <1>2 DEF Asks, Decides, Looking
<1> QED
  BY <1>1, <1>4, <1>5 DEF ObeyInv

\* An ACK that ends a session takes no undisturbed command with it: the handler
\* sends it only when the device has reported the mode the player asked for
\* (msgParse and SIGAck of srvrComm.c).  A player's "done" is no mode.
THEOREM CommandsAreObeyed ==
  ASSUME Sparse, MaxInterrupts = 0, "done" \notin Commands
  PROVE  SystemSpec => ObeyedBeforeAck
<1>1. SystemInit => ObeyInv
  BY ObeyInit
<1>2. ObeyInv /\ [SystemNext]_systemVars => ObeyInv'
  BY ObeyStep
<1> DEFINE Obeyed == \A c \in Conns :
                       /\ at[c] = "sendAck" /\ at'[c] = "loop"
                       /\ pending[strmID] # Null /\ op[Player] = Null
                       => Reported(c) = Mode(pending[strmID])
<1>3. ObeyInv => Obeyed
  <2> SUFFICES ASSUME ObeyInv, NEW c \in Conns, at[c] = "sendAck", pending[strmID] # Null,
                      op[Player] = Null
               PROVE  Reported(c) = Mode(pending[strmID])
    OBVIOUS
  <2>1. ~Commanding(strmID)
    BY DEF Commanding
  <2>2. Decides(c)
    BY DEF ObeyInv
  <2> QED
    BY <2>1, <2>2 DEF Decides
<1>4. ObeyInv /\ [SystemNext]_systemVars => [Obeyed]_systemVars
  BY <1>3
<1> QED
  BY <1>1, <1>2, <1>4, PTL DEF SystemSpec, ObeyedBeforeAck
=============================================================================
