-------------------------- MODULE PlayerServerProofs --------------------------
(***************************************************************************)
(* What holds of the player server for any number of players, requests,    *)
(* reports and kills: it uses the files as StatusFiles says, so that the   *)
(* theorems about files hold of it, and what it has acknowledged is        *)
(* stored.                                                                 *)
(***************************************************************************)
EXTENDS PlayerServer, StatusFilesProofs

-----------------------------------------------------------------------------
(* Messages, and the use of the files *)

Messages ==
  /\ toServer \in [Players -> Seq(GoodRequests \cup {Malformed})]
  /\ serving = Null \/ serving \in [from : Players, request : GoodRequests]
  /\ acked \in [Streams -> Values \cup {Null}]

\* The requests of the test player and of browsers are good or malformed.
LEMMA RequestTypes ==
  /\ Requests \subseteq GoodRequests \cup {Malformed}
  /\ \A action \in {"status", "live"} : Request(MyStream, action) \in GoodRequests
  BY PlayerAssumption, ConstantsAssumption DEF GoodRequests, Request

LEMMA InitMessages == PlayerInit => Messages
  BY DEF PlayerInit, Messages, Nil

LEMMA CutsMessages == ASSUME Messages, Cuts PROVE Messages'
<1>1. toServer' \in [Players -> Seq(GoodRequests \cup {Malformed})]
  BY DEF Cuts, Nil
<1>2. serving' = Null
  BY DEF Cuts
<1>3. acked' \in [Streams -> Values \cup {Null}]
  BY DEF Cuts, Messages
<1> QED
  BY <1>1, <1>2, <1>3 DEF Messages

LEMMA SendMessages ==
  ASSUME Messages, NEW p \in Players, NEW request \in GoodRequests \cup {Malformed},
         Send(p, request), UNCHANGED <<serving, acked>>
  PROVE  Messages'
<1>1. CASE UNCHANGED toServer
  BY <1>1 DEF Messages
<1>2. CASE toServer' = [toServer EXCEPT ![p] = Append(@, request)]
  BY <1>2 DEF Messages
<1> QED
  BY <1>1, <1>2 DEF Send

\* A request becomes a call that a worker of StatusFiles may make.
LEMMA ExecuteCalls ==
  ASSUME NEW request \in GoodRequests, Execute(request), phase = "serving",
         UNCHANGED <<phase, todo, alarms, deaths>>
  PROVE  CallGet(Player) \/ CallSet(Player)
<1>1. request.streamId \in Streams
  BY DEF GoodRequests
<1>2. CASE request.action = "status"
  BY <1>1, <1>2 DEF Execute, CallGet
<1>3. CASE request.action # "status"
  <2>1. request.action \in Values
    BY <1>3 DEF GoodRequests
  <2> DEFINE u == <<"action", request.action>>
  <2>2. u \in Updates
    BY <2>1, PlayerAssumption
  <2>3. Call(Player, "set", u[1], u[2], request.streamId)
    BY <1>3 DEF Execute
  <2> QED
    BY <1>1, <2>2, <2>3 DEF CallSet
<1> QED
  BY <1>2, <1>3

\* Every step is a step of the files or leaves them alone.
LEMMA StepRefines ==
  ASSUME Messages, [PlayerNext]_playerVars
  PROVE  Messages' /\ [Next]_vars
<1> Player \in Workers /\ Threads = {Player, Main}
  BY PlayerAssumption DEF Threads
<1>1. CASE ServerProcess
  <2>1. Messages'
    BY <1>1, CutsMessages DEF ServerProcess, Runs, linkVars, Messages
  <2> QED
    BY <1>1, <2>1 DEF ServerProcess, Next, MainStep
<1>2. ASSUME NEW t \in Threads, ServiceFileStep(t) PROVE Messages' /\ [Next]_vars
  <2>1. Messages'
    BY <1>2, CutsMessages DEF ServiceFileStep, linkVars, Messages
  <2> QED
    BY <1>2, <2>1 DEF ServiceFileStep, Next, MainStep
<1>3. CASE WriteBack
  <2>1. serving # Null /\ serving' = Null /\ UNCHANGED <<toServer, vars>>
    BY <1>3 DEF WriteBack
  <2>2. acked' \in [Streams -> Values \cup {Null}]
    <3>1. CASE UNCHANGED acked
      BY <3>1 DEF Messages
    <3>2. CASE Reply = ACK /\ acked' = [acked EXCEPT ![serving.request.streamId] = serving.request.action]
      <4>1. serving.request \in GoodRequests
        BY <2>1 DEF Messages
      <4>2. serving.request.action # "status"
        <5> SUFFICES ASSUME serving.request.action = "status" PROVE FALSE
          OBVIOUS
        <5>1. Reply = [streamId |-> serving.request.streamId, status |-> answer]
          BY DEF Reply, Answer
        <5>2. DOMAIN Reply = {"streamId", "status"} /\ DOMAIN ACK = {"text"}
          BY <5>1 DEF ACK
        <5> QED
          BY <3>2, <5>2
      <4>3. serving.request.action \in Values
        BY <4>1, <4>2 DEF GoodRequests
      <4> QED
        BY <3>2, <4>3 DEF Messages
    <3> QED
      BY <1>3, <3>1, <3>2 DEF WriteBack
  <2> QED
    BY <2>1, <2>2 DEF Messages
<1>4. CASE HandlerReports
  <2>1. PICK u \in DeviceUpdates, s \in Streams : Call(Player, "set", u[1], u[2], s)
    BY <1>4 DEF HandlerReports
  <2>2. CallSet(Player)
    BY <1>4, <2>1, PlayerAssumption DEF HandlerReports, CallSet
  <2> QED
    BY <1>4, <2>2 DEF HandlerReports, linkVars, Messages, Next
<1>5. ASSUME NEW p \in Players, Receive(p) PROVE Messages' /\ [Next]_vars
  <2> DEFINE request == Head(toServer[p])
  <2>1. /\ request \in GoodRequests \cup {Malformed}
        /\ Tail(toServer[p]) \in Seq(GoodRequests \cup {Malformed})
    BY <1>5 DEF Receive, Messages
  <2>2. CASE request = Malformed
    BY <1>5, <2>2, CutsMessages DEF Receive, Next
  <2>3. CASE request # Malformed
    <3>1. /\ toServer' = [toServer EXCEPT ![p] = Tail(@)]
          /\ serving' = [from |-> p, request |-> request]
          /\ Execute(request)
          /\ UNCHANGED <<phase, todo, alarms, deaths, acked>>
          /\ phase = "serving"
      BY <1>5, <2>3 DEF Receive
    <3>2. Messages'
      BY <2>1, <2>3, <3>1 DEF Messages
    <3> QED
      BY <2>1, <2>3, <3>1, <3>2, ExecuteCalls DEF Next
  <2> QED
    BY <2>2, <2>3
<1>6. ASSUME NEW p \in Players, Writeable(p) \/ Greet(p) \/ Click(p)
      PROVE  Messages' /\ [Next]_vars
  <2>1. PICK request \in GoodRequests \cup {Malformed} : Send(p, request)
    BY <1>6, RequestTypes DEF Writeable, Greet, Click
  <2> QED
    BY <1>6, <2>1, SendMessages DEF Writeable, Greet, Click, serviceVars
<1>7. ASSUME NEW p \in Players,
             \/ Connect(p) \/ Disconnected(p) \/ TakeReply(p) \/ Destroy(p) \/ SeesConnection(p)
             \/ AskWritable(p) \/ UsesFreed(p) \/ INT_HANDLER(p)
      PROVE  Messages' /\ [Next]_vars
  BY <1>7 DEF Connect, Disconnected, TakeReply, Destroy, SeesConnection, AskWritable,
     UsesFreed, INT_HANDLER, Ends, serviceVars, linkVars, Messages
<1>8. CASE UNCHANGED playerVars
  BY <1>8 DEF playerVars, linkVars, serviceVars, Messages
<1> QED
  BY <1>1, <1>2, <1>3, <1>4, <1>5, <1>6, <1>7, <1>8 DEF PlayerNext, Callbacks, Routine

\* The player server uses the files as StatusFiles says, whatever players send: each
\* theorem about the files holds of it.
THEOREM PlayersUseFiles == PlayerSpec => Spec
<1>1. PlayerInit => Init /\ Messages
  BY InitMessages DEF PlayerInit
<1>2. Messages /\ [PlayerNext]_playerVars => Messages' /\ [Next]_vars
  BY StepRefines
<1> QED
  BY <1>1, <1>2, PTL DEF PlayerSpec, Spec

-----------------------------------------------------------------------------
(* What was acknowledged is stored *)

\* The request in websocket_write_back stores an action in the file of s.
Commanding(s) ==
  serving # Null /\ serving.request.streamId = s /\ serving.request.action # "status"

\* While the server serves, the main thread is idle, and the calls of the player
\* thread are those of its requests or of reports, which store no action; the main
\* thread only resets.
Turns ==
  /\ phase = "serving" => todo = {} /\ pc[Main] = "idle"
  /\ serving # Null => phase = "serving"
  /\ pc[Main] # "idle" => op[Main].fn = "reset"
  /\ pc[Player] # "idle" =>
       IF serving = Null
       THEN op[Player].fn = "set" /\ op[Player].key # "action"
       ELSE /\ op[Player].file = serving.request.streamId
            /\ IF serving.request.action = "status"
               THEN op[Player].fn = "get"
               ELSE /\ op[Player].fn = "set" /\ op[Player].key = "action"
                    /\ op[Player].val = serving.request.action

\* An acknowledged action is in the file, when it can be read, and in what any call
\* is going to write to it, until a request for another one is taken.
Kept ==
  \A s \in Streams : acked[s] # Null /\ ~Commanding(s) =>
    /\ disk[s] # Absent
    /\ disk[s] # Empty => disk[s]["action"] = acked[s]
    /\ \A t \in Threads : pc[t] \in Holding /\ op[t].file = s => buf[t]["action"] = acked[s]

\* When the call of a request is over, its action is in the file.
Stored ==
  \A s \in Streams : Commanding(s) =>
    /\ pc[Player] = "idle" => ~Unreadable(s) /\ disk[s]["action"] = serving.request.action
    /\ pc[Player] \in {"truncate", "write"} => buf[Player]["action"] = serving.request.action

PInv == IInv /\ Messages /\ Turns /\ Kept /\ Stored

LEMMA InitPlayers == PlayerInit => PInv
<1> SUFFICES ASSUME PlayerInit PROVE PInv
  OBVIOUS
<1>1. IInv /\ Messages
  BY InitInv, InitMessages DEF PlayerInit
<1>2. phase = "down" /\ serving = Null /\ pc[Player] = "idle" /\ pc[Main] = "idle"
  BY PlayerAssumption DEF PlayerInit, Init, Idle, Threads
<1>3. \A s \in Streams : acked[s] = Null
  BY DEF PlayerInit
<1> QED
  BY <1>1, <1>2, <1>3 DEF PInv, Turns, Kept, Stored, Commanding

\* A stop forgets what was being acknowledged; the files stay.
LEMMA CutsKeep ==
  ASSUME PInv, Stop, Cuts
  PROVE  Turns' /\ Kept' /\ Stored'
<1>1. serving' = Null /\ phase' = "down" /\ disk' = disk
  BY DEF Stop, Cuts
<1>2. \A t \in Threads : pc'[t] = "idle"
  BY DEF Stop, Idle
<1>3. Player \in Threads /\ Main \in Threads
  BY PlayerAssumption DEF Threads
<1>4. ASSUME NEW s \in Streams, acked'[s] # Null PROVE acked[s] = acked'[s] /\ ~Commanding(s)
  <2>1. CASE serving = Null
    BY <1>4, <2>1 DEF Cuts, Commanding
  <2>2. CASE serving # Null
    <3>1. acked' = [acked EXCEPT ![serving.request.streamId] = Null]
      BY <2>2 DEF Cuts
    <3>2. s # serving.request.streamId
      BY <1>4, <3>1 DEF PInv, Messages
    <3> QED
      BY <3>1, <3>2 DEF Commanding, PInv, Messages
  <2> QED
    BY <2>1, <2>2
<1>5. Turns'
  BY <1>1, <1>2, <1>3 DEF Turns
<1>6. Kept'
  BY <1>1, <1>2, <1>4 DEF Kept, PInv, Holding
<1>7. Stored'
  BY <1>1 DEF Stored, Commanding
<1> QED
  BY <1>5, <1>6, <1>7

-----------------------------------------------------------------------------
(* The steps of a call *)

\* With does not touch another key, and sets its own.
LEMMA WithEntries ==
  ASSUME NEW doc, NEW key, NEW val
  PROVE  /\ key # "action" /\ "action" \in DOMAIN doc => With(doc, key, val)["action"] = doc["action"]
         /\ With(doc, "action", val)["action"] = val
  BY DEF With, AS!With

\* A document that is read and changed goes on holding what is acknowledged, unless
\* a request changes that.
LEMMA ProceedKeeps ==
  ASSUME PInv, NEW t \in Threads, pc[t] \in {"read", "reread"},
         ~Unreadable(op[t].file), Proceed(t, disk[op[t].file]),
         phase' # "down", UNCHANGED <<serving, acked>>
  PROVE  Turns' /\ Kept' /\ Stored'
<1> DEFINE s == op[t].file
<1>0. Threads = {Player, Main} /\ Player # Main /\ Player \in Workers
  BY PlayerAssumption, ConstantsAssumption DEF Threads
<1>1. op[t] \in Calls /\ s \in Streams /\ pc[t] # "idle"
  BY CallType DEF PInv, IInv, TypeOK
<1>2. disk[s] \in Documents /\ DOMAIN disk[s] = Keys
  BY <1>1 DEF Unreadable, PInv, IInv, TypeOK, DiskHistory
<1>3. op[t].key \in Keys /\ {"status", "action"} \subseteq Keys
  BY <1>1, CallType DEF Keys, AS!Keys
<1>4. t = Player \/ (t = Main /\ phase # "serving")
  BY <1>0, <1>1 DEF PInv, Turns
<1>5. phase # "down"
  BY <1>1 DEF PInv, IInv, Quiet, TypeOK
<1>6. CASE Return(t) /\ op[t].fn = "get" /\ UNCHANGED <<disk, last, fresh, phase, todo>>
  <2>1. pc' = [pc EXCEPT ![t] = "idle"] /\ op' = [op EXCEPT ![t] = Null]
        /\ buf' = [buf EXCEPT ![t] = Null]
    BY <1>6 DEF Return
  <2>2. pc \in [Threads -> Labels] /\ op \in [Threads -> {Null} \cup Calls]
        /\ buf \in [Threads -> {Null} \cup Documents]
    BY DEF PInv, IInv, TypeOK
  <2>3. \A r \in Streams : ~Commanding(r) \/ t = Main
    BY <1>1, <1>4, <1>6 DEF PInv, Turns, Commanding
  <2>4. Turns'
    BY <1>0, <1>4, <1>6, <2>1, <2>2 DEF PInv, Turns
  <2>5. Kept'
    BY <1>6, <2>1, <2>2 DEF PInv, Kept, Commanding, Holding
  <2>6. Stored'
    BY <1>0, <1>4, <1>6, <2>1, <2>2, <2>3 DEF PInv, Stored, Commanding, Turns, Unreadable
  <2> QED
    BY <2>4, <2>5, <2>6
<1>7. CASE /\ Hold(t, With(disk[s], op[t].key, op[t].val), "truncate", TRUE)
           /\ op[t].fn # "get"
  <2> DEFINE doc == With(disk[s], op[t].key, op[t].val)
  <2>1. pc' = [pc EXCEPT ![t] = "truncate"] /\ buf' = [buf EXCEPT ![t] = doc]
        /\ UNCHANGED <<disk, op, phase, todo>>
    BY <1>7 DEF Hold
  <2>2. pc \in [Threads -> Labels] /\ op \in [Threads -> {Null} \cup Calls]
        /\ buf \in [Threads -> {Null} \cup Documents]
    BY DEF PInv, IInv, TypeOK
  <2>3. op[t].key = "action" => t = Player /\ Commanding(s) /\ op[t].val = serving.request.action
    BY <1>1, <1>4, <1>7, CallType DEF PInv, Turns, Commanding
  <2>4. ~Commanding(s) /\ acked[s] # Null => doc["action"] = acked[s]
    BY <1>1, <1>2, <1>3, <2>3, WithEntries DEF PInv, Kept, Unreadable
  <2>5. t = Player /\ Commanding(s) => doc["action"] = serving.request.action
    BY <1>1, <1>4, WithEntries DEF PInv, Turns, Commanding
  <2>6. Turns'
    BY <1>0, <1>4, <2>1, <2>2 DEF PInv, Turns
  <2>7. Kept'
    BY <2>1, <2>2, <2>4 DEF PInv, Kept, Commanding
  <2>8. Stored'
    BY <1>0, <1>4, <2>1, <2>2, <2>5 DEF PInv, Stored, Commanding, Turns, Unreadable
  <2> QED
    BY <2>6, <2>7, <2>8
<1> QED
  BY <1>2, <1>3, <1>6, <1>7, <1>1, CallType DEF Proceed, Stop, Calls

\* A worker that makes a new file has found none: a file it cannot read does not exist,
\* because nobody else is writing one.
LEMMA NewFileIsNew ==
  ASSUME PInv, NEW t \in Threads, pc[t] = "read", op[t].fn \in {"get", "set"},
         Unreadable(op[t].file)
  PROVE  t = Player /\ phase = "serving" /\ disk[op[t].file] = Absent
<1> DEFINE s == op[t].file
<1>0. Threads = {Player, Main} /\ Player # Main /\ Player \in Workers
  BY PlayerAssumption, ConstantsAssumption DEF Threads
<1>1. op[t] \in Calls /\ s \in Streams /\ op[t] # Null
  BY CallType DEF PInv, IInv, TypeOK
<1>2. t = Player
  BY <1>0 DEF PInv, Turns
<1>3. phase = "serving"
  BY <1>0, <1>1, <1>2 DEF PInv, IInv, Quiet, TypeOK
<1>4. disk[s] = Absent
  <2> SUFFICES ASSUME disk[s] = Empty PROVE FALSE
    BY DEF Unreadable
  <2>1. PICK u \in Threads : pc[u] \in Torn /\ op[u].file = s
    BY <1>1, <1>3 DEF PInv, IInv, TornExplained
  <2>2. u = Main
    BY <1>0, <1>2, <2>1 DEF Torn
  <2> QED
    BY <1>3, <2>1, <2>2 DEF PInv, Turns, Torn
<1> QED
  BY <1>2, <1>3, <1>4

\* The defaults that newJsonFile writes replace nothing that was acknowledged: a file
\* that a worker cannot read does not exist.
LEMMA NewFileKeeps ==
  ASSUME PInv, NEW t \in Threads, pc[t] = "read", op[t].fn \in {"get", "set"},
         Unreadable(op[t].file),
         Hold(t, Default(op[t].file), "newTruncate", disk[op[t].file] = Absent),
         UNCHANGED <<serving, acked>>
  PROVE  Turns' /\ Kept' /\ Stored'
<1> DEFINE s == op[t].file
<1>0. Threads = {Player, Main} /\ Player # Main /\ Player \in Workers
  BY PlayerAssumption, ConstantsAssumption DEF Threads
<1>1. op[t] \in Calls /\ s \in Streams /\ op[t] # Null
  BY CallType DEF PInv, IInv, TypeOK
<1>2. t = Player /\ disk[s] = Absent
  BY NewFileIsNew
<1>3. ~Commanding(s) => acked[s] = Null
  BY <1>1, <1>2 DEF PInv, Kept
<1>4. pc' = [pc EXCEPT ![t] = "newTruncate"] /\ buf' = [buf EXCEPT ![t] = Default(s)]
      /\ UNCHANGED <<disk, op, phase, todo>>
  BY DEF Hold
<1>5. pc \in [Threads -> Labels] /\ op \in [Threads -> {Null} \cup Calls]
      /\ buf \in [Threads -> {Null} \cup Documents]
  BY DEF PInv, IInv, TypeOK
<1>6. Turns'
  BY <1>0, <1>2, <1>4, <1>5 DEF PInv, Turns
<1>7. Kept'
  BY <1>3, <1>4, <1>5 DEF PInv, Kept, Commanding
<1>8. Stored'
  BY <1>0, <1>2, <1>4, <1>5 DEF PInv, Stored, Commanding, Unreadable
<1> QED
  BY <1>6, <1>7, <1>8

\* A file is truncated, or written with what a call holds.
LEMMA WriteKeeps ==
  ASSUME PInv, NEW t \in Threads, Truncate(t) \/ WriteNew(t) \/ WriteFile(t),
         UNCHANGED <<serving, acked>>
  PROVE  Turns' /\ Kept' /\ Stored'
<1> DEFINE s == op[t].file
<1>0. Threads = {Player, Main} /\ Player # Main /\ Player \in Workers
  BY PlayerAssumption, ConstantsAssumption DEF Threads
<1>1. op[t] \in Calls /\ s \in Streams /\ op[t] # Null /\ pc[t] \in Holding
  BY CallType DEF PInv, IInv, TypeOK, Truncate, WriteNew, WriteFile, Holding
<1>2. t = Player \/ (t = Main /\ phase # "serving")
  BY <1>0, <1>1 DEF PInv, Turns, Holding
<1>3. /\ pc \in [Threads -> Labels] /\ op \in [Threads -> {Null} \cup Calls]
      /\ buf \in [Threads -> {Null} \cup Documents]
      /\ disk \in [Streams -> {Absent, Empty} \cup Documents]
  BY DEF PInv, IInv, TypeOK
<1>4. buf[t] \in Documents /\ Absent \notin Documents \cup {Empty} /\ Empty \notin Documents
  BY <1>1, <1>3, ConstantsAssumption DEF PInv, IInv, TypeOK
<1>5. t = Main => \A r \in Streams : ~Commanding(r)
  BY <1>0, <1>2 DEF PInv, Turns, Commanding
<1>6. CASE Truncate(t)
  <2>1. /\ pc' = [pc EXCEPT ![t] = IF pc[t] = "truncate" THEN "write" ELSE "newWrite"]
        /\ disk' = [disk EXCEPT ![s] = Empty]
        /\ UNCHANGED <<op, buf, phase, todo>>
        /\ pc[t] \in {"newTruncate", "truncate"}
    BY <1>6 DEF Truncate
  <2>2. Turns'
    BY <1>0, <1>2, <1>3, <2>1 DEF PInv, Turns
  <2>3. Kept'
    BY <1>1, <1>3, <1>4, <2>1 DEF PInv, Kept, Commanding, Holding
  <2>4. Stored'
    BY <1>0, <1>2, <1>3, <1>5, <2>1 DEF PInv, Stored, Commanding
  <2> QED
    BY <2>2, <2>3, <2>4
<1>7. CASE WriteNew(t)
  <2>1. /\ pc' = [pc EXCEPT ![t] = "reread"]
        /\ disk' = [disk EXCEPT ![s] = buf[t]]
        /\ buf' = [buf EXCEPT ![t] = Null]
        /\ UNCHANGED <<op, phase, todo>>
    BY <1>7 DEF WriteNew, Store
  <2>2. Turns'
    BY <1>0, <1>2, <1>3, <1>7, <2>1 DEF PInv, Turns, WriteNew
  <2>3. Kept'
    BY <1>1, <1>3, <1>4, <2>1 DEF PInv, Kept, Commanding, Holding
  <2>4. Stored'
    BY <1>0, <1>2, <1>3, <1>5, <2>1 DEF PInv, Stored, Commanding
  <2> QED
    BY <2>2, <2>3, <2>4
<1>8. CASE WriteFile(t)
  <2>1. /\ pc' = [pc EXCEPT ![t] = "idle"]
        /\ disk' = [disk EXCEPT ![s] = buf[t]]
        /\ buf' = [buf EXCEPT ![t] = Null]
        /\ op' = [op EXCEPT ![t] = Null]
        /\ UNCHANGED <<phase, todo>>
        /\ pc[t] = "write"
    BY <1>8 DEF WriteFile, Store, Return
  <2>2. Turns'
    BY <1>0, <1>2, <1>3, <2>1 DEF PInv, Turns
  <2>3. Kept'
    BY <1>1, <1>3, <1>4, <2>1 DEF PInv, Kept, Commanding, Holding
  <2>4. Stored'
    <3> SUFFICES ASSUME NEW r \in Streams, Commanding(r)'
                 PROVE  /\ pc'[Player] = "idle" =>
                             ~Unreadable(r)' /\ disk'[r]["action"] = serving'.request.action
                        /\ pc'[Player] \notin {"truncate", "write"}
      BY DEF Stored
    <3>1. Commanding(r) /\ t = Player
      BY <1>2, <1>5 DEF Commanding
    <3>2. s = r /\ buf[t]["action"] = serving.request.action
      BY <2>1, <3>1 DEF PInv, Turns, Stored, Commanding
    <3> QED
      BY <1>0, <1>3, <1>4, <2>1, <3>1, <3>2 DEF Unreadable
  <2> QED
    BY <2>2, <2>3, <2>4
<1> QED
  BY <1>6, <1>7, <1>8

\* No access to a file loses what was acknowledged.
LEMMA FileStepKeeps ==
  ASSUME PInv, NEW t \in Threads, ServiceFileStep(t)
  PROVE  Turns' /\ Kept' /\ Stored'
<1>1. CASE phase' = "down"
  <2>1. pc[t] # "idle" /\ phase # "down"
    BY DEF ServiceFileStep, FileStep, ReadFile, ReadEntry, ReadAgain, Truncate, WriteNew,
       WriteFile, PInv, IInv, TypeOK, Quiet
  <2>2. Stop
    BY <1>1, <2>1 DEF ServiceFileStep, FileStep, ReadFile, ReadEntry, ReadAgain, Truncate,
       WriteNew, WriteFile, Store, Hold, Proceed, Return
  <2> QED
    BY <1>1, <2>2, CutsKeep DEF ServiceFileStep
<1>2. CASE phase' # "down"
  <2>1. UNCHANGED <<serving, acked>> /\ ~Stop
    BY <1>2 DEF ServiceFileStep, Stop
  <2>2. CASE ReadFile(t) /\ Unreadable(op[t].file)
    BY <2>1, <2>2, NewFileKeeps DEF ReadFile
  <2>3. CASE (ReadFile(t) \/ ReadEntry(t) \/ ReadAgain(t)) /\ ~Unreadable(op[t].file)
    BY <1>2, <2>1, <2>3, ProceedKeeps DEF ReadFile, ReadEntry, ReadAgain
  <2>4. CASE Truncate(t) \/ WriteNew(t) \/ WriteFile(t)
    BY <2>1, <2>4, WriteKeeps
  <2> QED
    BY <2>1, <2>2, <2>3, <2>4 DEF ServiceFileStep, FileStep, ReadEntry, ReadAgain
<1> QED
  BY <1>1, <1>2

-----------------------------------------------------------------------------
(* The other steps *)

\* A request is taken: nothing is held, and what is acknowledged about its file is
\* kept only if it asks for the status.
LEMMA ReceiveKeeps ==
  ASSUME PInv, NEW p \in Players, Receive(p)
  PROVE  Turns' /\ Kept' /\ Stored'
<1> DEFINE request == Head(toServer[p])
<1>0. Threads = {Player, Main} /\ Player # Main
  BY PlayerAssumption, ConstantsAssumption DEF Threads
<1>1. CASE request = Malformed
  <2>1. Stop /\ Cuts
    BY <1>1 DEF Receive, Exit
  <2> QED
    BY <2>1, CutsKeep
<1>2. CASE request # Malformed
  <2>1. request \in GoodRequests
    BY <1>2 DEF Receive, PInv, Messages
  <2>2. /\ serving = Null /\ phase = "serving" /\ pc[Player] = "idle"
        /\ serving' = [from |-> p, request |-> request]
        /\ Execute(request)
        /\ UNCHANGED <<phase, todo, acked>>
    BY <1>2 DEF Receive
  <2>3. PICK c : /\ c.file = request.streamId
                 /\ IF request.action = "status"
                    THEN c.fn = "get"
                    ELSE c.fn = "set" /\ c.key = "action" /\ c.val = request.action
                 /\ op' = [op EXCEPT ![Player] = c]
    BY <2>2 DEF Execute, Call
  <2>4. /\ pc' = [pc EXCEPT ![Player] = "read"] /\ UNCHANGED <<disk, buf>>
    BY <2>2 DEF Execute, Call
  <2>5. pc \in [Threads -> Labels] /\ op \in [Threads -> {Null} \cup Calls]
    BY DEF PInv, IInv, TypeOK
  <2>6. serving'.request = request /\ serving' # Null
    <3>1. serving' \in [from : Players, request : GoodRequests]
      BY <2>1, <2>2
    <3> QED
      BY <2>2, <3>1, PlayerAssumption
  <2>7. Turns'
    BY <1>0, <2>2, <2>3, <2>4, <2>5, <2>6 DEF PInv, Turns
  <2>8. Kept'
    BY <1>0, <2>2, <2>3, <2>4, <2>5, <2>6 DEF PInv, Kept, Turns, Commanding, Holding
  <2>9. Stored'
    BY <1>0, <2>2, <2>4, <2>5, <2>6 DEF Stored
  <2> QED
    BY <2>7, <2>8, <2>9
<1> QED
  BY <1>1, <1>2

\* A report is stored by the same thread, and changes no action.
LEMMA ReportKeeps ==
  ASSUME PInv, HandlerReports
  PROVE  Turns' /\ Kept' /\ Stored'
<1>0. Threads = {Player, Main} /\ Player # Main
  BY PlayerAssumption, ConstantsAssumption DEF Threads
<1>1. PICK u \in DeviceUpdates, s \in Streams : Call(Player, "set", u[1], u[2], s)
  BY DEF HandlerReports
<1>2. u[1] # "action"
  BY PlayerAssumption
<1> DEFINE c == [fn |-> "set", key |-> u[1], val |-> u[2], file |-> s]
<1>3. /\ pc' = [pc EXCEPT ![Player] = "read"] /\ op' = [op EXCEPT ![Player] = c]
      /\ UNCHANGED <<disk, buf, phase, todo, serving, acked>>
      /\ serving = Null /\ phase = "serving"
  BY <1>1 DEF HandlerReports, Call
<1>4. pc \in [Threads -> Labels] /\ op \in [Threads -> {Null} \cup Calls]
  BY DEF PInv, IInv, TypeOK
<1>5. Turns'
  BY <1>0, <1>2, <1>3, <1>4 DEF PInv, Turns
<1>6. Kept'
  BY <1>0, <1>3, <1>4 DEF PInv, Kept, Turns, Commanding, Holding
<1>7. Stored'
  BY <1>3 DEF Stored, Commanding
<1> QED
  BY <1>5, <1>6, <1>7

\* The answer is sent: ACK when the action has been stored.
LEMMA WriteBackKeeps ==
  ASSUME PInv, WriteBack
  PROVE  Turns' /\ Kept' /\ Stored'
<1> DEFINE s == serving.request.streamId
<1>0. Threads = {Player, Main} /\ Player # Main
  BY PlayerAssumption, ConstantsAssumption DEF Threads
<1>1. /\ serving # Null /\ serving' = Null /\ pc[Player] = "idle" /\ UNCHANGED vars
      /\ acked' = IF Reply = ACK THEN [acked EXCEPT ![s] = serving.request.action] ELSE acked
  BY DEF WriteBack
<1>2. s \in Streams /\ acked \in [Streams -> Values \cup {Null}]
  BY <1>1 DEF PInv, Messages, GoodRequests
<1>3. Reply = ACK <=> serving.request.action # "status"
  <2>1. DOMAIN ACK = {"text"}
    BY DEF ACK
  <2>2. serving.request.action = "status" => DOMAIN Reply = {"streamId", "status"}
    BY DEF Reply, Answer
  <2>3. {"text"} # {"streamId", "status"}
    OBVIOUS
  <2> QED
    BY <2>1, <2>2, <2>3 DEF Reply
<1>4. Turns'
  BY <1>1 DEF PInv, Turns, vars
<1>5. pc[Main] = "idle"
  BY <1>1 DEF PInv, Turns
<1>6. ASSUME NEW r \in Streams, acked'[r] # Null
      PROVE  /\ disk[r] # Absent
             /\ disk[r] # Empty => disk[r]["action"] = acked'[r]
  <2>1. CASE Commanding(r)
    BY <1>1, <1>2, <1>3, <2>1 DEF PInv, Stored, Commanding, Unreadable
  <2>2. CASE ~Commanding(r)
    BY <1>1, <1>2, <1>3, <1>6, <2>2 DEF PInv, Kept, Commanding
  <2> QED
    BY <2>1, <2>2
<1>7. Kept'
  BY <1>0, <1>1, <1>5, <1>6 DEF Kept, vars, Holding
<1>8. Stored'
  BY <1>1 DEF Stored, Commanding
<1> QED
  BY <1>4, <1>7, <1>8

LEMMA NextEntryKeeps ==
  ASSUME PInv, NextEntry, UNCHANGED <<serving, acked>>
  PROVE  Turns' /\ Kept' /\ Stored'
<1>0. Threads = {Player, Main} /\ Player # Main
  BY PlayerAssumption, ConstantsAssumption DEF Threads
<1>1. PICK s \in todo :
        /\ todo' = todo \ {s}
        /\ IF disk[s] = Absent
           THEN pc[Main] = "idle" /\ UNCHANGED storeVars
           ELSE Call(Main, "reset", "status", "off", s)
  BY DEF NextEntry
<1>2. phase # "serving" /\ phase' = phase /\ serving = Null
  BY <1>1 DEF NextEntry, PInv, Turns
<1>3. CASE UNCHANGED storeVars
  BY <1>0, <1>2, <1>3 DEF storeVars, PInv, Turns, Kept, Stored, Commanding
<1>4. CASE Call(Main, "reset", "status", "off", s)
  <2> DEFINE c == [fn |-> "reset", key |-> "status", val |-> "off", file |-> s]
  <2>1. /\ pc' = [pc EXCEPT ![Main] = "read"] /\ op' = [op EXCEPT ![Main] = c]
        /\ UNCHANGED <<disk, buf>>
    BY <1>4 DEF Call
  <2>2. pc \in [Threads -> Labels] /\ op \in [Threads -> {Null} \cup Calls]
    BY DEF PInv, IInv, TypeOK
  <2>3. Turns'
    BY <1>0, <1>2, <2>1, <2>2 DEF PInv, Turns
  <2>4. Kept'
    BY <1>0, <2>1, <2>2 DEF PInv, Kept, Commanding, Holding
  <2>5. Stored'
    BY <1>2 DEF Stored, Commanding
  <2> QED
    BY <2>3, <2>4, <2>5
<1> QED
  BY <1>1, <1>3, <1>4

LEMMA PlayerNextInv == ASSUME PInv, [PlayerNext]_playerVars PROVE PInv'
<1>0. Threads = {Player, Main} /\ Player # Main
  BY PlayerAssumption, ConstantsAssumption DEF Threads
<1>1. Messages' /\ [Next]_vars
  BY StepRefines DEF PInv
<1>2. IInv'
  BY <1>1, NextInv DEF PInv
<1> SUFFICES Turns' /\ Kept' /\ Stored'
  BY <1>1, <1>2 DEF PInv
<1>3. CASE ServerProcess
  <2>1. CASE NextEntry /\ Runs
    BY <2>1, NextEntryKeeps DEF Runs
  <2>2. CASE Boot /\ Runs
    BY <1>0, <2>2 DEF Boot, Runs, storeVars, PInv, Turns, Kept, Stored, Commanding
  <2>3. CASE BootDone /\ Runs
    BY <1>0, <2>3 DEF BootDone, Runs, storeVars, PInv, Turns, Kept, Stored, Commanding, Unreadable
  <2>4. CASE Die /\ Cuts
    BY <2>4, CutsKeep DEF Die
  <2> QED
    BY <1>3, <2>1, <2>2, <2>3, <2>4 DEF ServerProcess
<1>4. ASSUME UNCHANGED <<vars, serving, acked>> PROVE Turns' /\ Kept' /\ Stored'
  BY <1>4 DEF vars, PInv, Turns, Kept, Stored, Commanding, Unreadable
<1>5. ASSUME NEW p \in Players, Callbacks(p) \/ Routine(p) \/ UsesFreed(p) \/ INT_HANDLER(p) \/ Click(p)
      PROVE  UNCHANGED <<vars, serving, acked>>
  BY <1>5 DEF Callbacks, Connect, Disconnected, TakeReply, Writeable, Destroy, Routine,
     SeesConnection, Greet, AskWritable, UsesFreed, INT_HANDLER, Click, Ends, serviceVars
<1>6. CASE UNCHANGED playerVars
  BY <1>4, <1>6 DEF playerVars, serviceVars
<1> QED
  BY <1>3, <1>4, <1>5, <1>6, FileStepKeeps, WriteBackKeeps, ReportKeeps, ReceiveKeeps
  DEF PlayerNext

\* An action for which a player has got its ACK is what the device will be told, after
\* any number of kills and restarts: only a file that was left truncated loses it.
THEOREM AcknowledgedIsStored == PlayerSpec => []AckedIsStored
<1>1. PInv => AckedIsStored
  BY DEF PInv, Kept, Commanding, AckedIsStored, Unreadable
<1>2. PlayerInit => PInv
  BY InitPlayers
<1>3. PInv /\ [PlayerNext]_playerVars => PInv'
  BY PlayerNextInv
<1> QED
  BY <1>1, <1>2, <1>3, PTL DEF PlayerSpec

\* No player is ever answered from a truncated file or from an incomplete record, as the
\* theorems about files say.
THEOREM PlayersMeetNoTornFile == PlayerSpec => [](NoTornAtRest /\ CompleteDocuments)
  BY PlayersUseFiles, TornFilesHaveWriters, DocumentsComplete, PTL

-----------------------------------------------------------------------------
(* The atomic records *)

\* Only one thread has a call at a time: the main thread at start-up, the player thread
\* while the server serves.
LEMMA OneCall ==
  ASSUME PInv, NEW t \in Threads, NEW u \in Threads, pc[t] # "idle", pc[u] # "idle"
  PROVE  t = u
<1>1. Threads = {Player, Main} /\ Player # Main /\ Player \in Workers
  BY PlayerAssumption, ConstantsAssumption DEF Threads
<1>2. op[t] # Null /\ op[u] # Null
  BY DEF PInv, IInv, TypeOK
<1> QED
  BY <1>1, <1>2 DEF PInv, IInv, TypeOK, Quiet, Turns

\* No call is ever overtaken.
AllFresh == \A t \in Threads : fresh[t]

LEMMA FreshStays == ASSUME PInv, AllFresh, [Next]_vars PROVE AllFresh'
<1>0. fresh \in [Threads -> BOOLEAN]
  BY DEF PInv, IInv, TypeOK
<1>1. CASE Stop
  BY <1>1 DEF Stop, AllOK, AllFresh
<1>2. CASE UNCHANGED fresh
  BY <1>2 DEF AllFresh
<1>3. ASSUME NEW t \in Threads, NEW doc, NEW label, Hold(t, doc, label, TRUE)
      PROVE  AllFresh'
  BY <1>0, <1>3 DEF Hold, AllFresh
<1>4. ASSUME NEW t \in Threads, Store(t), pc[t] # "idle" PROVE AllFresh'
  <2> SUFFICES ASSUME NEW u \in Threads PROVE fresh'[u]
    BY DEF AllFresh
  <2>1. u = t \/ pc[u] \notin Holding
    BY <1>4, OneCall DEF Holding
  <2> QED
    BY <1>4, <2>1 DEF Store, AllFresh
<1>5. ASSUME NEW t \in Threads, NEW doc, Proceed(t, doc) PROVE AllFresh'
  BY <1>1, <1>2, <1>3, <1>5 DEF Proceed
<1>6. ASSUME NEW t \in Threads, FileStep(t) PROVE AllFresh'
  <2>1. CASE ReadFile(t)
    BY <1>3, <1>5, <2>1, NewFileIsNew DEF ReadFile
  <2>2. CASE ReadEntry(t) \/ ReadAgain(t)
    BY <1>1, <1>5, <2>2 DEF ReadEntry, ReadAgain
  <2>3. CASE Truncate(t)
    BY <1>2, <2>3 DEF Truncate
  <2>4. CASE WriteNew(t) \/ WriteFile(t)
    BY <1>4, <2>4 DEF WriteNew, WriteFile
  <2> QED
    BY <1>6, <2>1, <2>2, <2>3, <2>4 DEF FileStep
<1>7. CASE Boot \/ Alarm \/ NextEntry \/ BootDone
  BY <1>2, <1>7 DEF Boot, Alarm, NextEntry, BootDone, storeVars, Call
<1>8. ASSUME NEW t \in Workers, CallGet(t) \/ CallSet(t) PROVE AllFresh'
  BY <1>2, <1>8 DEF CallGet, CallSet, Call
<1> QED
  BY <1>1, <1>2, <1>6, <1>7, <1>8 DEF Next, MainStep, Die, Exit, vars, Threads

\* Only a write changes the last document.
LEMMA WritesAlone ==
  ASSUME [Next]_vars
  PROVE  \/ last' = last
         \/ \E t \in Threads : WriteNew(t) \/ WriteFile(t)
<1>1. ASSUME NEW t \in Threads, FileStep(t), ~(WriteNew(t) \/ WriteFile(t))
      PROVE  last' = last
  BY <1>1 DEF FileStep, ReadFile, ReadEntry, ReadAgain, Truncate, Proceed, Hold, Stop
<1>2. CASE Boot \/ Alarm \/ Die \/ Exit \/ NextEntry \/ BootDone \/ UNCHANGED vars
  BY <1>2 DEF Boot, Alarm, Die, Exit, NextEntry, BootDone, Stop, Call, storeVars, vars
<1>3. ASSUME NEW t \in Workers, CallGet(t) \/ CallSet(t) PROVE last' = last
  BY <1>3 DEF CallGet, CallSet, Call
<1> QED
  BY <1>1, <1>2, <1>3 DEF Next, MainStep, Threads

\* With one call at a time the files are atomic records, through all kills and restarts:
\* every write creates a record with the defaults or changes one key of the current one.
THEOREM PlayersImplementAtomicStatus == PlayerSpec => ImplementsAtomicStatus
<1>1. PlayerInit => PInv /\ AllFresh /\ AS!Init
  BY InitPlayers DEF PlayerInit, Init, AllOK, AllFresh, AS!Init
<1>2. PInv /\ AllFresh /\ [PlayerNext]_playerVars => PInv' /\ AllFresh'
  BY PlayerNextInv, FreshStays, StepRefines DEF PInv
<1>3. PInv /\ AllFresh /\ [PlayerNext]_playerVars => [AS!Next]_last
  <2> SUFFICES ASSUME PInv, AllFresh, [PlayerNext]_playerVars PROVE [AS!Next]_last
    OBVIOUS
  <2>1. [Next]_vars /\ IInv
    BY StepRefines DEF PInv
  <2>2. ASSUME NEW t \in Threads, WriteNew(t) \/ WriteFile(t) PROVE AS!Next
    BY <2>1, <2>2, FreshWriteIsAtomic DEF AllFresh
  <2> QED
    BY <2>1, <2>2, WritesAlone
<1> QED
  BY <1>1, <1>2, <1>3, PTL DEF PlayerSpec, ImplementsAtomicStatus, AS!Spec
=============================================================================
