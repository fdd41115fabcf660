----------------------------- MODULE PlayerServer -----------------------------
(***************************************************************************)
(* The player server (PlayerServer.c) and its players: the test player of  *)
(* ws/client (client.c) and browsers, which send what the page of          *)
(* ws/client or somebody else's sends.                                     *)
(*                                                                         *)
(* One thread calls lws_service for ever; a message of a player makes it   *)
(* call websocket_write_back, which executes the request on the status     *)
(* files and answers before the next message is looked at.  The test       *)
(* player has two threads, main with its callbacks and pthread_routine.    *)
(* libwebsockets is external: it delivers the messages of a connection in  *)
(* order, and tells each end when the other is gone.                       *)
(***************************************************************************)
EXTENDS StatusFiles, Sequences

CONSTANTS Player,    \* the thread that uses the files: of the player server, or of a
                     \* connection handler whose calls do not overlap with its
          TestPlayers, Browsers,
          MyStream,  \* the stream that the test player asks for
          Requests,  \* what browsers send
          DeviceUpdates,  \* the <<key, value>> pairs that handlers store for reports
          MaxClicks, \* bound: requests of one browser
          MaxReports \* bound: reports of devices

Players == TestPlayers \cup Browsers

VARIABLES
  link,      \* link[p]: "none", "open", or "cut" when the server has stopped
  running,   \* running[p]: p's process has not ended
  connection_flag, writeable_flag, destroy_flag,  \* of client.c, for each p
  writable,  \* writable[p]: lws_callback_on_writable was called for p
  routine,   \* routine[p]: where pthread_routine is
  toServer, toClient,  \* messages on their way
  serving,   \* the message in websocket_write_back, with its player, or Null
  answer,    \* what getJsonValueFromFile has returned in it
  asked,     \* history: asked[p]: the requests p has sent
  reports,   \* reports of devices so far
  answers,   \* history: answers[p]: how many of them were answered
  acked      \* history: acked[s]: the last action the server has acknowledged, Null
             \* when a stop has come between a later action and its ACK

linkVars    == <<link, toServer, toClient>>
clientVars  == <<running, connection_flag, writeable_flag, destroy_flag, writable, routine, asked>>
serviceVars == <<serving, answer, reports, answers, acked>>
playerVars  == <<vars, linkVars, clientVars, serviceVars>>

\* The messages.  Malformed has no "action", or no streamId, or is no JSON.
Request(s, action) == [streamId |-> s, action |-> action]
Malformed          == [text |-> "malformed"]
ACK                == [text |-> "ACK"]
Answer(s, status)  == [streamId |-> s, status |-> status]

GoodRequests == [streamId : Streams, action : Values \cup {"status"}]

ASSUME PlayerAssumption ==
  /\ Workers = {Player}
  /\ MyStream \in Streams
  /\ TestPlayers \cap Browsers = {}
  /\ Null \notin [from : Players, request : GoodRequests]
  /\ Requests \subseteq GoodRequests \cup {Malformed}
  /\ DeviceUpdates \subseteq {"streamId", "status"} \X (Values \cup {Null})
  /\ DeviceUpdates \cup ({"action"} \X Values) \subseteq Updates
  /\ {MaxClicks, MaxReports} \subseteq Nat

AllRequests == Requests \cup {Request(MyStream, "status"), Request(MyStream, "live")}
Replies     == {ACK} \cup [streamId : Streams, status : Values]

PlayerTypeOK ==
  /\ TypeOK
  /\ link \in [Players -> {"none", "open", "cut"}]
  /\ {running, connection_flag, writeable_flag, destroy_flag, writable}
       \subseteq [Players -> BOOLEAN]
  /\ routine \in [Players -> {"wait", "greet", "sleep", "done"}]
  /\ toServer \in [Players -> Seq(AllRequests)]
  /\ toClient \in [Players -> Seq(Replies)]
  /\ serving \in [from : Players, request : AllRequests] \cup {Null}
  /\ answer \in Values \cup {Null}
  /\ asked \in [Players -> Seq(AllRequests)]
  /\ answers \in [Players -> 0..(MaxClicks + 2)]
  /\ acked \in [Streams -> Values \cup {Null}]
  /\ reports \in 0..MaxReports

No  == [p \in Players |-> FALSE]
Nil == [p \in Players |-> <<>>]

PlayerInit ==
  /\ Init
  /\ link = [p \in Players |-> "none"]
  /\ running = [p \in Players |-> TRUE]
  /\ connection_flag = No /\ writeable_flag = No /\ destroy_flag = No /\ writable = No
  /\ routine = [p \in Players |-> "wait"]
  /\ toServer = Nil /\ toClient = Nil /\ asked = Nil
  /\ serving = Null /\ answer = Null
  /\ reports = 0
  /\ answers = [p \in Players |-> 0]
  /\ acked = [s \in Streams |-> Null]

----------------------------------------------------------------------------
(* The server *)

\* The process stops: its connections are cut, what it has not read is lost, and so
\* may be what it has sent.
Cuts ==
  /\ link' = [p \in Players |-> IF link[p] = "open" THEN "cut" ELSE link[p]]
  /\ toServer' = Nil
  /\ \E kept \in SUBSET Players :
       toClient' = [p \in Players |-> IF p \in kept THEN toClient[p] ELSE <<>>]
  /\ serving' = Null /\ answer' = Null
  /\ acked' = IF serving = Null THEN acked
              ELSE [acked EXCEPT ![serving.request.streamId] = Null]

Runs == UNCHANGED <<linkVars, serving, answer, acked>>

\* Mutant: "status" is stored like any other action.
ExecuteAlwaysStores(request) ==
  Call(Player, "set", "action", request.action, request.streamId)

\* Mutant: the action is stored under "status".
ExecuteWrongKey(request) ==
  IF request.action = "status"
  THEN Call(Player, "get", "status", Null, request.streamId)
  ELSE Call(Player, "set", "status", request.action, request.streamId)

\* Any action but "status" is stored, whatever it is.
Execute(request) ==
  IF request.action = "status"
  THEN Call(Player, "get", "status", Null, request.streamId)
  ELSE Call(Player, "set", "action", request.action, request.streamId)

\* Mutant: what a player has sent before it ended is thrown away.
ReceiveFromLiving(p) ==
  /\ phase = "serving" /\ serving = Null
  /\ pc[Player] = "idle" /\ running[p] /\ toServer[p] # <<>>
  /\ Head(toServer[p]) # Malformed
  /\ toServer' = [toServer EXCEPT ![p] = Tail(@)]
  /\ serving' = [from |-> p, request |-> Head(toServer[p])]
  /\ Execute(Head(toServer[p]))
  /\ UNCHANGED <<phase, todo, alarms, deaths, link, toClient, answer, acked, clientVars, answers,
                 reports>>

\* LWS_CALLBACK_RECEIVE.  By a malformed message strcmp, or the file function, is
\* given NULL.
Receive(p) ==
  /\ phase = "serving" /\ serving = Null /\ pc[Player] = "idle"
  /\ toServer[p] # <<>>
  /\ LET request == Head(toServer[p]) IN
     IF request = Malformed
     THEN Exit /\ Cuts
     ELSE /\ toServer' = [toServer EXCEPT ![p] = Tail(@)]
          /\ serving' = [from |-> p, request |-> request]
          /\ Execute(request)
          /\ UNCHANGED <<phase, todo, alarms, deaths, link, toClient, answer, acked>>
  /\ UNCHANGED <<clientVars, reports, answers>>

\* One access to a status file by any thread.
ServiceFileStep(t) ==
  /\ FileStep(t)
  /\ IF phase' = "down"
     THEN Cuts
     ELSE /\ answer' = IF t = Player /\ op'[t] = Null THEN Returned(t) ELSE answer
          /\ UNCHANGED <<linkVars, serving, acked>>
  /\ UNCHANGED <<clientVars, reports, answers>>

\* Mutant: the action is compared with "live", not with "status".
ReplyUnlessLive ==
  IF serving.request.action # "live" THEN Answer(serving.request.streamId, "off") ELSE ACK

Reply ==
  IF serving.request.action = "status" THEN Answer(serving.request.streamId, answer) ELSE ACK

\* lws_write, whose result nobody looks at: a player that has ended gets nothing.
WriteBack ==
  /\ phase = "serving" /\ serving # Null /\ pc[Player] = "idle"
  /\ LET p == serving.from
         s == serving.request.streamId IN
     /\ toClient' = IF running[p] THEN [toClient EXCEPT ![p] = Append(@, Reply)] ELSE toClient
     /\ answers' = [answers EXCEPT ![p] = @ + 1]
     /\ acked' = IF Reply = ACK THEN [acked EXCEPT ![s] = serving.request.action] ELSE acked
  /\ serving' = Null /\ answer' = Null
  /\ UNCHANGED <<vars, link, toServer, reports, clientVars>>

\* A connection handler records a report, while no request is under way.
HandlerReports ==
  /\ phase = "serving" /\ serving = Null
  /\ reports < MaxReports
  /\ reports' = reports + 1
  /\ \E u \in DeviceUpdates, s \in Streams : Call(Player, "set", u[1], u[2], s)
  /\ UNCHANGED <<phase, todo, alarms, deaths, linkVars, clientVars, serving, answer, answers, acked>>

ServerProcess ==
  /\ \/ Boot /\ Runs
     \/ NextEntry /\ Runs
     \/ BootDone /\ Runs
     \/ Die /\ Cuts
  /\ UNCHANGED <<clientVars, reports, answers>>

----------------------------------------------------------------------------
(* A player *)

\* lws_write, of a player: what is sent after the server has gone is lost.
Send(p, request) ==
  IF link[p] = "open"
  THEN /\ toServer' = [toServer EXCEPT ![p] = Append(@, request)]
       /\ asked' = [asked EXCEPT ![p] = Append(@, request)]
  ELSE UNCHANGED <<toServer, asked>>

\* The loop of main is still calling lws_service.
Loops(p) == running[p] /\ ~destroy_flag[p]

Connect(p) ==
  /\ Loops(p) /\ link[p] = "none" /\ phase = "serving"
  /\ link' = [link EXCEPT ![p] = "open"]
  /\ connection_flag' = [connection_flag EXCEPT ![p] = TRUE]
  /\ UNCHANGED <<vars, serviceVars, toServer, toClient, running, writeable_flag, destroy_flag,
                 writable, routine, asked>>

\* LWS_CALLBACK_CLIENT_CONNECTION_ERROR, or LWS_CALLBACK_CLOSED once all has been read.
Disconnected(p) ==
  /\ Loops(p)
  /\ \/ link[p] = "none" /\ phase # "serving"
     \/ link[p] = "cut" /\ toClient[p] = <<>>
  /\ destroy_flag' = [destroy_flag EXCEPT ![p] = TRUE]
  /\ connection_flag' = [connection_flag EXCEPT ![p] = FALSE]
  /\ UNCHANGED <<vars, serviceVars, linkVars, running, writeable_flag, writable, routine, asked>>

\* Mutant: only a reply that comes before the command ends the player.
TakeReplyEarly(p) ==
  /\ Loops(p) /\ toClient[p] # <<>>
  /\ toClient' = [toClient EXCEPT ![p] = Tail(@)]
  /\ destroy_flag' = [destroy_flag EXCEPT ![p] = @ \/ (p \in TestPlayers /\ ~writeable_flag[p])]
  /\ UNCHANGED <<vars, serviceVars, link, toServer, running, connection_flag, writeable_flag,
                 writable, routine, asked>>

\* LWS_CALLBACK_CLIENT_RECEIVE: whatever comes after the command ends the test player,
\* also the answer to its first message, when that is late.
TakeReply(p) ==
  /\ Loops(p) /\ toClient[p] # <<>>
  /\ toClient' = [toClient EXCEPT ![p] = Tail(@)]
  /\ destroy_flag' = [destroy_flag EXCEPT ![p] = @ \/ writeable_flag[p]]
  /\ UNCHANGED <<vars, serviceVars, link, toServer, running, connection_flag, writeable_flag,
                 writable, routine, asked>>

\* LWS_CALLBACK_CLIENT_WRITEABLE
Writeable(p) ==
  /\ Loops(p) /\ writable[p] /\ link[p] = "open"
  /\ Send(p, Request(MyStream, "live"))
  /\ writable' = [writable EXCEPT ![p] = FALSE]
  /\ writeable_flag' = [writeable_flag EXCEPT ![p] = TRUE]
  /\ UNCHANGED <<vars, serviceVars, link, toClient, running, connection_flag, destroy_flag, routine>>

\* SIGINT
INT_HANDLER(p) ==
  /\ p \in TestPlayers /\ Loops(p)
  /\ destroy_flag' = [destroy_flag EXCEPT ![p] = TRUE]
  /\ UNCHANGED <<vars, serviceVars, linkVars, running, connection_flag, writeable_flag, writable,
                 routine, asked>>

\* main leaves its loop and returns, whatever pthread_routine is doing.
Ends(p) ==
  /\ running' = [running EXCEPT ![p] = FALSE]
  /\ toClient' = [toClient EXCEPT ![p] = <<>>]
  /\ UNCHANGED <<vars, serviceVars, link, toServer, connection_flag, writeable_flag, destroy_flag,
                 writable, routine, asked>>

Destroy(p) == running[p] /\ destroy_flag[p] /\ Ends(p)

\* pthread_routine goes from one place to the next.
Then(p, place, next) ==
  /\ p \in TestPlayers /\ running[p]
  /\ routine[p] = place
  /\ routine' = [routine EXCEPT ![p] = next]

SeesConnection(p) ==
  /\ Then(p, "wait", "greet")
  /\ connection_flag[p]
  /\ UNCHANGED <<vars, serviceVars, linkVars, running, connection_flag, writeable_flag,
                 destroy_flag, writable, asked>>

Greet(p) ==
  /\ Then(p, "greet", "sleep")
  /\ Send(p, Request(MyStream, "status"))
  /\ UNCHANGED <<vars, serviceVars, link, toClient, running, connection_flag, writeable_flag,
                 destroy_flag, writable>>

AskWritable(p) ==
  /\ Then(p, "sleep", "done")
  /\ writable' = [writable EXCEPT ![p] = TRUE]
  /\ UNCHANGED <<vars, serviceVars, linkVars, running, connection_flag, writeable_flag,
                 destroy_flag, asked>>

\* lws has freed the connection (LWS_CALLBACK_CLOSED) that pthread_routine goes on
\* using: the process may crash.
UsesFreed(p) ==
  /\ p \in TestPlayers /\ running[p]
  /\ routine[p] \in {"greet", "sleep"} /\ ~connection_flag[p]
  /\ Ends(p)

Routine(p) == SeesConnection(p) \/ Greet(p) \/ AskWritable(p)

\* A browser sends what somebody makes it send.
Click(p) ==
  /\ p \in Browsers /\ Loops(p) /\ link[p] = "open"
  /\ Len(asked[p]) < MaxClicks
  /\ \E request \in Requests : Send(p, request)
  /\ UNCHANGED <<vars, serviceVars, link, toClient, running, connection_flag, writeable_flag,
                 destroy_flag, writable, routine>>

Callbacks(p) == Connect(p) \/ Disconnected(p) \/ TakeReply(p) \/ Writeable(p) \/ Destroy(p)

PlayerNext ==
  \/ ServerProcess
  \/ \E t \in Threads : ServiceFileStep(t)
  \/ WriteBack
  \/ HandlerReports
  \/ \E p \in Players : Receive(p) \/ Callbacks(p) \/ Routine(p) \/ UsesFreed(p)
                        \/ INT_HANDLER(p) \/ Click(p)

PlayerSpec == PlayerInit /\ [][PlayerNext]_playerVars

\* The restart loop and every thread run on.  lws_service looks at every connection
\* each time.  Nobody has to press a button or a key.
PlayerFairness ==
  /\ WF_playerVars((Boot \/ NextEntry \/ BootDone) /\ Runs /\ UNCHANGED <<clientVars, reports, answers>>)
  /\ \A t \in Threads : WF_playerVars(ServiceFileStep(t))
  /\ WF_playerVars(WriteBack)
  /\ \A p \in Players : /\ SF_playerVars(Receive(p))
                        /\ WF_playerVars(Callbacks(p))
                        /\ WF_playerVars(Routine(p))

FairPlayers == PlayerSpec /\ PlayerFairness

----------------------------------------------------------------------------
(* Properties *)

\* What the server has acknowledged last is what the file tells the device, across
\* kills and restarts, unless the file was left truncated or is being rewritten, or a
\* stop has left it open whether a later command was stored.
\* (An alarm may undo it: see MaxAlarms.)
AckedIsStored ==
  \A s \in Streams :
    acked[s] # Null /\ serving = Null /\ ~Unreadable(s) => disk[s]["action"] = acked[s]

\* A player can tell the answers apart by counting: the i-th message it is sent is the
\* answer to its i-th request, though an ACK says nothing of what it acknowledges.
Unread(p) == answers[p] - Len(toClient[p])

AnswersMatchRequests ==
  \A p \in Players : running[p] /\ link[p] = "open" =>
    /\ answers[p] <= Len(asked[p])
    /\ \A i \in 1..Len(toClient[p]) :
         toClient[p][i] = ACK <=> asked[p][Unread(p) + i].action # "status"

\* A request that was sent is served, also when its player has ended in the meantime
\* (the test player takes a late first answer for the end), unless the server stops.
EveryRequestIsServed ==
  \A p \in Players : \A n \in 1..(MaxClicks + 2) :
    Len(asked[p]) >= n ~> (answers[p] >= n \/ link[p] = "cut")

\* A test player ends, whenever the server is stopped and started.
TestPlayerEnds == \A p \in TestPlayers : <>(~running[p])
=============================================================================
