-------------------------- MODULE PlayerAnswersProofs --------------------------
(***************************************************************************)
(* The conversation of the player server with each of its players, for any *)
(* number of players, requests, reports and kills: what is on its way, by  *)
(* which every answer can be told to belong to its request.                *)
(***************************************************************************)
EXTENDS PlayerServerProofs, SequenceTheorems

-----------------------------------------------------------------------------
(* The invariant *)

\* The types of the messages and of the players, but for the bounds.
TalkTypes ==
  /\ link \in [Players -> {"none", "open", "cut"}]
  /\ running \in [Players -> BOOLEAN] /\ connection_flag \in [Players -> BOOLEAN]
  /\ writeable_flag \in [Players -> BOOLEAN] /\ destroy_flag \in [Players -> BOOLEAN]
  /\ writable \in [Players -> BOOLEAN]
  /\ routine \in [Players -> {"wait", "greet", "sleep", "done"}]
  /\ toServer \in [Players -> Seq(AllRequests)]
  /\ toClient \in [Players -> Seq(Replies)]
  /\ asked \in [Players -> Seq(AllRequests)]
  /\ serving \in [from : Players, request : AllRequests] \cup {Null}
  /\ answers \in [Players -> Nat]
  /\ reports \in 0..MaxReports

\* A player's request is in websocket_write_back.
Served(p) == serving # Null /\ serving.from = p

\* How many requests of p have been taken.
Taken(p) == IF Served(p) THEN answers[p] + 1 ELSE answers[p]

\* What was sent on an open connection is answered, being served, or on its way, in
\* this order; nothing is sent or served on another one.
InOrder ==
  /\ \A p \in Players :
       /\ answers[p] <= Len(asked[p])
       /\ link[p] = "none" => asked[p] = <<>> /\ toClient[p] = <<>>
       /\ link[p] # "open" => toServer[p] = <<>>
       /\ link[p] = "open" =>
            /\ Len(asked[p]) = Taken(p) + Len(toServer[p])
            /\ \A i \in 1..Len(toServer[p]) : toServer[p][i] = asked[p][Taken(p) + i]
  /\ serving # Null =>
       /\ link[serving.from] = "open"
       /\ asked[serving.from][answers[serving.from] + 1] = serving.request

\* What a living player has not read yet are the last answers, each of the kind that its
\* request calls for.
KindsMatch ==
  \A p \in Players : running[p] /\ link[p] = "open" =>
    /\ Len(toClient[p]) <= answers[p]
    /\ \A i \in 1..Len(toClient[p]) :
         toClient[p][i] = ACK <=> asked[p][Unread(p) + i].action # "status"

\* What getJsonValueFromFile returns is a value of the record.
StatusFound ==
  /\ answer \in Values \cup {Null}
  /\ serving # Null /\ serving.request.action = "status" =>
       /\ pc[Player] \notin {"truncate", "write"}
       /\ pc[Player] = "idle" => answer \in Values

\* How often a test player may still send: pthread_routine greets once, and asks once
\* to be called back for its command.
Left(p) ==
  IF routine[p] \in {"wait", "greet"} THEN 2
  ELSE IF routine[p] = "sleep" \/ writable[p] THEN 1 ELSE 0

FewRequests ==
  /\ \A p \in Browsers : Len(asked[p]) <= MaxClicks /\ ~writable[p]
  /\ \A p \in TestPlayers :
       /\ Len(asked[p]) + Left(p) <= 2
       /\ writable[p] => routine[p] = "done"

AInv == TalkTypes /\ InOrder /\ KindsMatch /\ StatusFound /\ FewRequests

LEMMA InitAnswers == PlayerInit => AInv
<1> SUFFICES ASSUME PlayerInit PROVE AInv
  OBVIOUS
<1>1. TalkTypes
  BY PlayerAssumption DEF PlayerInit, TalkTypes, No, Nil
<1>2. InOrder /\ KindsMatch /\ StatusFound
  BY DEF PlayerInit, InOrder, KindsMatch, StatusFound, Nil
<1>3. FewRequests
  BY PlayerAssumption DEF PlayerInit, FewRequests, Left, No, Nil, Players
<1> QED
  BY <1>1, <1>2, <1>3 DEF AInv

\* ACK and an answer are different messages.
LEMMA RepliesDiffer == \A s, status : Answer(s, status) # ACK
<1>1. \A s, status : DOMAIN Answer(s, status) = {"streamId", "status"}
  BY DEF Answer
<1>2. DOMAIN ACK = {"text"} /\ {"text"} # {"streamId", "status"}
  BY DEF ACK
<1> QED
  BY <1>1, <1>2

-----------------------------------------------------------------------------
(* Steps of the server *)

\* A stop takes all requests with it, and some of the answers.
LEMMA CutsAnswers ==
  ASSUME AInv, Cuts, UNCHANGED <<clientVars, reports, answers>>
  PROVE  AInv'
<1>1. /\ link' = [p \in Players |-> IF link[p] = "open" THEN "cut" ELSE link[p]]
      /\ toServer' = Nil /\ serving' = Null /\ answer' = Null
  BY DEF Cuts
<1>2. PICK kept \in SUBSET Players :
        toClient' = [p \in Players |-> IF p \in kept THEN toClient[p] ELSE <<>>]
  BY DEF Cuts
<1>3. UNCHANGED <<running, connection_flag, writeable_flag, destroy_flag, writable, routine,
                  asked, reports, answers>>
  BY DEF clientVars
<1>4. \A p \in Players : link'[p] # "open"
  BY <1>1
<1>5. TalkTypes'
  <2>1. link' \in [Players -> {"none", "open", "cut"}]
    BY <1>1 DEF AInv, TalkTypes
  <2>2. toServer' \in [Players -> Seq(AllRequests)]
    BY <1>1 DEF Nil
  <2>3. toClient' \in [Players -> Seq(Replies)]
    BY <1>2 DEF AInv, TalkTypes
  <2> QED
    BY <1>1, <1>3, <2>1, <2>2, <2>3 DEF AInv, TalkTypes
<1>6. InOrder'
  BY <1>1, <1>2, <1>3, <1>4 DEF AInv, InOrder, Nil
<1>7. KindsMatch' /\ StatusFound'
  BY <1>1, <1>4 DEF KindsMatch, StatusFound
<1>8. FewRequests'
  BY <1>3 DEF AInv, FewRequests, Left
<1> QED
  BY <1>5, <1>6, <1>7, <1>8 DEF AInv

\* Nothing else of the server, until a request is taken or answered, touches the
\* conversations.
LEMMA QuietAnswers ==
  ASSUME AInv, UNCHANGED <<linkVars, serving, clientVars, answers>>, reports' \in 0..MaxReports,
         StatusFound'
  PROVE  AInv'
<1>1. UNCHANGED <<link, toServer, toClient, serving, answers, running, connection_flag,
                  writeable_flag, destroy_flag, writable, routine, asked>>
  BY DEF linkVars, clientVars
<1>2. TalkTypes'
  BY <1>1 DEF AInv, TalkTypes
<1>3. \A p \in Players : Taken(p)' = Taken(p) /\ Unread(p)' = Unread(p) /\ Left(p)' = Left(p)
  BY <1>1 DEF Taken, Served, Unread, Left
<1>4. InOrder'
  BY <1>1, <1>3 DEF AInv, InOrder
<1>5. KindsMatch'
  BY <1>1, <1>3 DEF AInv, KindsMatch
<1>6. FewRequests'
  BY <1>1, <1>3 DEF AInv, FewRequests, Players
<1> QED
  BY <1>2, <1>4, <1>5, <1>6 DEF AInv

\* A call of getJsonValueFromFile finds its key, or makes the file and finds it then.
LEMMA FileStepAnswers ==
  ASSUME PInv, AInv, NEW t \in Threads, ServiceFileStep(t)
  PROVE  AInv'
<1>1. CASE phase' = "down"
  BY <1>1, CutsAnswers DEF ServiceFileStep
<1>2. CASE phase' # "down"
  <2>0. Threads = {Player, Main} /\ Player # Main
    BY PlayerAssumption, ConstantsAssumption DEF Threads
  <2>1. /\ FileStep(t)
        /\ answer' = IF t = Player /\ op'[t] = Null THEN Returned(t) ELSE answer
        /\ UNCHANGED <<linkVars, serving, clientVars, reports, answers>>
    BY <1>2 DEF ServiceFileStep
  <2> DEFINE s == op[t].file
  <2>2. /\ op[t] \in Calls /\ s \in Streams /\ op[t].key \in Keys /\ op[t] # Null
        /\ pc[t] # "idle"
    BY <2>1, CallType DEF FileStep, ReadFile, ReadEntry, ReadAgain, Truncate, WriteNew,
       WriteFile, PInv, IInv, TypeOK
  <2>3. /\ pc \in [Threads -> Labels] /\ op \in [Threads -> {Null} \cup Calls]
    BY DEF PInv, IInv, TypeOK
  <2>4. ~Unreadable(s) => DOMAIN disk[s] = Keys /\ disk[s] \in [Keys -> Values]
    <3> SUFFICES ASSUME ~Unreadable(s) PROVE DOMAIN disk[s] = Keys /\ disk[s] \in [Keys -> Values]
      OBVIOUS
    <3>1. disk[s] \in Documents /\ DOMAIN disk[s] = Keys
      BY <2>2 DEF PInv, IInv, TypeOK, DiskHistory, Unreadable
    <3>2. PICK K \in SUBSET Keys : disk[s] \in [K -> Values]
      BY <3>1 DEF Documents, AS!Documents, Keys
    <3> QED
      BY <3>1, <3>2
  <2>5. ~Stop
    BY <1>2 DEF Stop
  <2>6. ASSUME t = Player, op'[t] = Null PROVE Returned(t) \in Values \cup {Null}
    <3> SUFFICES ASSUME op[t].fn = "get", pc[t] \in {"read", "reread"}
                 PROVE  disk[s][op[t].key] \in Values
      BY DEF Returned
    <3>1. ~Unreadable(s)
      BY <2>1, <2>2, <2>3, <2>5, <2>6 DEF FileStep, ReadFile, ReadEntry, ReadAgain, Truncate,
         WriteNew, WriteFile, Hold
    <3> QED
      BY <2>2, <2>4, <3>1
  <2>7. answer' \in Values \cup {Null}
    BY <2>1, <2>6 DEF AInv, StatusFound
  <2>8. ASSUME serving # Null, serving.request.action = "status"
        PROVE  /\ pc'[Player] \notin {"truncate", "write"}
               /\ pc'[Player] = "idle" => answer' \in Values
    <3>1. CASE t # Player
      <4>1. pc'[Player] = pc[Player] /\ answer' = answer
        BY <2>0, <2>1, <2>3, <2>5, <3>1 DEF FileStep, ReadFile, ReadEntry, ReadAgain, Truncate,
           WriteNew, WriteFile, Hold, Return, Proceed
      <4> QED
        BY <2>8, <4>1 DEF AInv, StatusFound
    <3>2. CASE t = Player
      <4>1. op[t].fn = "get" /\ pc[t] \notin {"truncate", "write"}
        BY <2>2, <2>8, <3>2 DEF PInv, Turns, AInv, StatusFound
      <4>2. CASE Unreadable(s)
        BY <2>1, <2>3, <2>5, <3>2, <4>1, <4>2 DEF FileStep, ReadFile, ReadEntry, ReadAgain,
           Truncate, WriteNew, WriteFile, Hold
      <4>3. CASE ~Unreadable(s) /\ pc[t] \in {"read", "reread"}
        <5>1. Proceed(t, disk[s])
          BY <2>1, <4>1, <4>3 DEF FileStep, ReadFile, ReadEntry, ReadAgain, Truncate,
             WriteNew, WriteFile
        <5>2. Return(t)
          BY <2>2, <2>4, <4>1, <4>3, <5>1 DEF Proceed
        <5>3. op'[t] = Null /\ pc'[t] = "idle"
          BY <2>3, <5>2 DEF Return
        <5>4. answer' = disk[s][op[t].key]
          BY <2>1, <3>2, <4>1, <4>3, <5>3 DEF Returned
        <5> QED
          BY <2>2, <2>4, <3>2, <4>3, <5>3, <5>4
      <4>4. CASE ~Unreadable(s) /\ pc[t] \notin {"read", "reread"}
        BY <2>1, <2>3, <3>2, <4>1, <4>4 DEF FileStep, ReadFile, ReadEntry, ReadAgain, Truncate,
           WriteNew, WriteFile
      <4> QED
        BY <4>2, <4>3, <4>4
    <3> QED
      BY <3>1, <3>2
  <2>9. StatusFound'
    BY <2>1, <2>7, <2>8 DEF StatusFound
  <2> QED
    BY <2>1, <2>9, QuietAnswers DEF AInv, TalkTypes
<1> QED
  BY <1>1, <1>2

\* A request is taken: it is the next one that its player has sent.
LEMMA ReceiveAnswers ==
  ASSUME PInv, AInv, NEW q \in Players, Receive(q)
  PROVE  AInv'
<1> DEFINE request == Head(toServer[q])
<1>1. CASE request = Malformed
  BY <1>1, CutsAnswers DEF Receive
<1>2. CASE request # Malformed
  <2>1. /\ toServer[q] # <<>> /\ serving = Null /\ pc[Player] = "idle" /\ phase = "serving"
        /\ toServer' = [toServer EXCEPT ![q] = Tail(@)]
        /\ serving' = [from |-> q, request |-> request]
        /\ Execute(request)
        /\ UNCHANGED <<link, toClient, answer, clientVars, reports, answers>>
    BY <1>2 DEF Receive
  <2>2. UNCHANGED <<running, connection_flag, writeable_flag, destroy_flag, writable, routine, asked>>
    BY <2>1 DEF clientVars
  <2>3. /\ toServer[q] \in Seq(AllRequests) /\ asked[q] \in Seq(AllRequests) /\ answers[q] \in Nat
        /\ toServer \in [Players -> Seq(AllRequests)]
    BY DEF AInv, TalkTypes
  <2>4. /\ request \in AllRequests /\ Tail(toServer[q]) \in Seq(AllRequests)
        /\ Len(Tail(toServer[q])) = Len(toServer[q]) - 1
        /\ Len(toServer[q]) \in Nat \ {0}
        /\ request = toServer[q][1]
        /\ \A i \in 1..Len(Tail(toServer[q])) : Tail(toServer[q])[i] = toServer[q][i + 1]
    BY <2>1, <2>3, HeadTailProperties, EmptySeq
  <2>5. serving' # Null /\ serving'.from = q /\ serving'.request = request
    <3>1. serving' \in [from : Players, request : GoodRequests]
      BY <1>2, <2>1 DEF PInv, Messages
    <3> QED
      BY <2>1, <3>1, PlayerAssumption
  <2>6. TalkTypes'
    BY <2>1, <2>2, <2>3, <2>4 DEF AInv, TalkTypes
  <2>7. link[q] = "open" /\ Taken(q) = answers[q] /\ Taken(q)' = answers[q] + 1
    BY <2>1, <2>5 DEF AInv, InOrder, Taken, Served
  <2>8. InOrder'
    <3>1. ASSUME NEW p \in Players, p # q
          PROVE  toServer'[p] = toServer[p] /\ Taken(p)' = Taken(p)
      BY <2>1, <2>3, <2>5, <3>1 DEF Taken, Served
    <3>2. /\ Len(asked[q]) = Taken(q)' + Len(toServer'[q])
          /\ \A i \in 1..Len(toServer'[q]) : toServer'[q][i] = asked[q][Taken(q)' + i]
          /\ asked[q][answers[q] + 1] = request
      <4>1. /\ Len(asked[q]) = answers[q] + Len(toServer[q])
            /\ \A i \in 1..Len(toServer[q]) : toServer[q][i] = asked[q][answers[q] + i]
        BY <2>7 DEF AInv, InOrder
      <4>2. toServer'[q] = Tail(toServer[q])
        BY <2>1, <2>3
      <4>3. asked[q][answers[q] + 1] = request
        BY <2>4, <4>1
      <4>4. ASSUME NEW i \in 1..Len(Tail(toServer[q]))
            PROVE  Tail(toServer[q])[i] = asked[q][(answers[q] + 1) + i]
        <5>1. Len(Tail(toServer[q])) = Len(toServer[q]) - 1 /\ Len(toServer[q]) \in Nat
          BY <2>4
        <5>2. i + 1 \in 1..Len(toServer[q])
          BY <5>1
        <5>3. answers[q] + (i + 1) = (answers[q] + 1) + i
          BY <2>3
        <5> QED
          BY <2>4, <4>1, <5>2, <5>3
      <4> QED
        BY <2>3, <2>4, <2>7, <4>1, <4>2, <4>3, <4>4
    <3> QED
      BY <2>1, <2>2, <2>5, <2>7, <3>1, <3>2 DEF AInv, InOrder
  <2>9. KindsMatch'
    BY <2>1, <2>2 DEF AInv, KindsMatch, Unread
  <2>10. StatusFound'
    <3>1. pc'[Player] = "read"
      <4>1. Player \in Threads /\ pc \in [Threads -> Labels]
        BY PlayerAssumption DEF Threads, PInv, IInv, TypeOK
      <4> QED
        BY <2>1, <4>1 DEF Execute, Call
    <3> QED
      BY <2>1, <3>1 DEF AInv, StatusFound
  <2>11. FewRequests'
    BY <2>2 DEF AInv, FewRequests, Left
  <2> QED
    BY <2>6, <2>8, <2>9, <2>10, <2>11 DEF AInv
<1> QED
  BY <1>1, <1>2

\* An answer goes to the player whose request is next to be answered.
LEMMA WriteBackAnswers ==
  ASSUME PInv, AInv, WriteBack
  PROVE  AInv'
<1> DEFINE q == serving.from
<1>1. /\ serving # Null /\ pc[Player] = "idle" /\ serving' = Null /\ answer' = Null
      /\ toClient' = IF running[q] THEN [toClient EXCEPT ![q] = Append(@, Reply)] ELSE toClient
      /\ answers' = [answers EXCEPT ![q] = @ + 1]
      /\ UNCHANGED <<link, toServer, reports, running, connection_flag, writeable_flag,
                     destroy_flag, writable, routine, asked>>
  BY DEF WriteBack, clientVars
<1>2. /\ q \in Players /\ serving.request \in GoodRequests
      /\ answers \in [Players -> Nat] /\ toClient \in [Players -> Seq(Replies)]
      /\ asked \in [Players -> Seq(AllRequests)] /\ toServer \in [Players -> Seq(AllRequests)]
  BY <1>1 DEF AInv, TalkTypes, PInv, Messages
<1>3. Reply \in Replies /\ (Reply = ACK <=> serving.request.action # "status")
  <2>1. CASE serving.request.action = "status"
    <3>1. Reply = Answer(serving.request.streamId, answer)
      BY <2>1 DEF Reply
    <3>2. answer \in Values /\ serving.request.streamId \in Streams
      BY <1>1, <1>2, <2>1 DEF AInv, StatusFound, GoodRequests
    <3> QED
      BY <2>1, <3>1, <3>2, RepliesDiffer DEF Replies, Answer
  <2>2. CASE serving.request.action # "status"
    BY <2>2 DEF Reply, Replies
  <2> QED
    BY <2>1, <2>2
<1>4. link[q] = "open" /\ asked[q][answers[q] + 1] = serving.request
  BY <1>1 DEF AInv, InOrder
<1>5. \A p \in Players : Taken(p)' = Taken(p)
  BY <1>1, <1>2 DEF Taken, Served
<1>6. Taken(q) = answers[q] + 1 /\ answers'[q] = answers[q] + 1
      /\ \A p \in Players : p # q => answers'[p] = answers[p] /\ toClient'[p] = toClient[p]
  BY <1>1, <1>2 DEF Taken, Served
<1>7. TalkTypes'
  <2>1. toClient' \in [Players -> Seq(Replies)]
    BY <1>1, <1>2, <1>3
  <2>2. answers' \in [Players -> Nat]
    BY <1>1, <1>2
  <2> QED
    BY <1>1, <2>1, <2>2 DEF AInv, TalkTypes
<1>8. InOrder'
  <2>1. answers'[q] <= Len(asked[q])
    BY <1>2, <1>4, <1>6 DEF AInv, InOrder
  <2> QED
    BY <1>1, <1>2, <1>4, <1>5, <1>6, <2>1 DEF AInv, InOrder
<1>9. KindsMatch'
  <2> SUFFICES ASSUME NEW p \in Players, running[p], link[p] = "open"
               PROVE  /\ Len(toClient'[p]) <= answers'[p]
                      /\ \A i \in 1..Len(toClient'[p]) :
                           toClient'[p][i] = ACK
                             <=> asked[p][answers'[p] - Len(toClient'[p]) + i].action # "status"
    BY <1>1 DEF KindsMatch, Unread
  <2>1. /\ Len(toClient[p]) <= answers[p]
        /\ \A i \in 1..Len(toClient[p]) :
             toClient[p][i] = ACK
               <=> asked[p][answers[p] - Len(toClient[p]) + i].action # "status"
    BY DEF AInv, KindsMatch, Unread
  <2>2. CASE p # q
    BY <1>6, <2>1, <2>2
  <2>3. CASE p = q
    <3> DEFINE n == Len(toClient[q])
    <3>1. toClient'[q] = Append(toClient[q], Reply)
      BY <1>1, <1>2, <2>3
    <3>2. /\ n \in Nat /\ Len(toClient'[q]) = n + 1
          /\ \A i \in 1..n : toClient'[q][i] = toClient[q][i]
          /\ toClient'[q][n + 1] = Reply
      BY <1>2, <1>3, <3>1, AppendProperties, LenProperties
    <3>3. /\ answers'[q] - Len(toClient'[q]) = answers[q] - n
          /\ answers[q] - n + (n + 1) = answers[q] + 1
          /\ Len(toClient'[q]) <= answers'[q]
      BY <1>2, <1>6, <2>1, <2>3, <3>2
    <3>4. ASSUME NEW i \in 1..(n + 1)
          PROVE  toClient'[q][i] = ACK <=> asked[q][answers[q] - n + i].action # "status"
      <4>1. CASE i \in 1..n
        BY <2>1, <2>3, <3>2, <4>1
      <4>2. CASE i = n + 1
        BY <1>3, <1>4, <3>2, <3>3, <4>2
      <4> QED
        BY <3>2, <4>1, <4>2
    <3> QED
      BY <2>3, <3>2, <3>3, <3>4
  <2> QED
    BY <2>2, <2>3
<1>10. StatusFound' /\ FewRequests'
  BY <1>1 DEF AInv, StatusFound, FewRequests, Left
<1> QED
  BY <1>7, <1>8, <1>9, <1>10 DEF AInv

-----------------------------------------------------------------------------
(* Steps of the players *)

\* What StatusFound is about is no player's.
LEMMA StatusStays ==
  ASSUME AInv, UNCHANGED <<pc, serving, answer>> PROVE StatusFound'
  BY DEF AInv, StatusFound

\* A message that is sent is the last of its conversation.
LEMMA SendAnswers ==
  ASSUME AInv, NEW q \in Players, NEW request \in AllRequests, Send(q, request),
         FewRequests',
         UNCHANGED <<pc, link, toClient, running, connection_flag, destroy_flag, serviceVars>>,
         writable' \in [Players -> BOOLEAN], writeable_flag' \in [Players -> BOOLEAN],
         routine' \in [Players -> {"wait", "greet", "sleep", "done"}]
  PROVE  AInv'
<1>1. UNCHANGED <<serving, answer, reports, answers>>
  BY DEF serviceVars
<1>2. /\ answers \in [Players -> Nat] /\ toClient \in [Players -> Seq(Replies)]
      /\ asked \in [Players -> Seq(AllRequests)] /\ toServer \in [Players -> Seq(AllRequests)]
  BY DEF AInv, TalkTypes
<1>3. \A p \in Players : Taken(p)' = Taken(p) /\ Taken(p) \in Nat /\ answers[p] <= Taken(p)
  BY <1>1, <1>2 DEF Taken, Served
<1>4. CASE link[q] # "open"
  <2>1. UNCHANGED <<toServer, asked>>
    BY <1>4 DEF Send
  <2>2. TalkTypes'
    BY <1>1, <2>1 DEF AInv, TalkTypes
  <2>3. InOrder'
    BY <1>1, <1>3, <2>1 DEF AInv, InOrder
  <2>4. KindsMatch'
    BY <1>1, <2>1 DEF AInv, KindsMatch, Unread
  <2> QED
    BY <1>1, <1>4, <2>2, <2>3, <2>4, StatusStays DEF AInv
<1>5. CASE link[q] = "open"
  <2> DEFINE n == Len(asked[q])
             k == Len(toServer[q])
  <2>1. /\ toServer' = [toServer EXCEPT ![q] = Append(@, request)]
        /\ asked' = [asked EXCEPT ![q] = Append(@, request)]
    BY <1>5 DEF Send
  <2>2. /\ toServer'[q] = Append(toServer[q], request) /\ asked'[q] = Append(asked[q], request)
        /\ \A p \in Players : p # q => toServer'[p] = toServer[p] /\ asked'[p] = asked[p]
    BY <1>2, <2>1
  <2>3. /\ n \in Nat /\ Len(asked'[q]) = n + 1
        /\ \A i \in 1..n : asked'[q][i] = asked[q][i]
        /\ asked'[q][n + 1] = request
        /\ k \in Nat /\ Len(toServer'[q]) = k + 1
        /\ \A i \in 1..k : toServer'[q][i] = toServer[q][i]
        /\ toServer'[q][k + 1] = request
    BY <1>2, <2>2, AppendProperties, LenProperties
  <2>4. /\ answers[q] <= n /\ n = Taken(q) + k
        /\ \A i \in 1..k : toServer[q][i] = asked[q][Taken(q) + i]
    BY <1>5 DEF AInv, InOrder
  <2>5. TalkTypes'
    <3>1. toServer' \in [Players -> Seq(AllRequests)] /\ asked' \in [Players -> Seq(AllRequests)]
      BY <1>2, <2>1
    <3> QED
      BY <1>1, <3>1 DEF AInv, TalkTypes
  <2>6. InOrder'
    <3>1. \A i \in 1..(k + 1) : toServer'[q][i] = asked'[q][Taken(q) + i]
      <4> SUFFICES ASSUME NEW i \in 1..(k + 1) PROVE toServer'[q][i] = asked'[q][Taken(q) + i]
        OBVIOUS
      <4>1. CASE i \in 1..k
        <5>1. Taken(q) + i \in 1..n
          BY <1>3, <2>3, <2>4, <4>1
        <5> QED
          BY <2>3, <2>4, <4>1, <5>1
      <4>2. CASE i = k + 1
        <5>1. Taken(q) + i = n + 1
          BY <1>3, <2>3, <2>4, <4>2
        <5> QED
          BY <2>3, <4>2, <5>1
      <4> QED
        BY <2>3, <4>1, <4>2
    <3>2. Len(asked'[q]) = Taken(q) + Len(toServer'[q]) /\ answers[q] <= Len(asked'[q])
      BY <1>2, <1>3, <2>3, <2>4
    <3>3. ASSUME serving # Null, serving.from = q
          PROVE  asked'[q][answers[q] + 1] = serving.request
      <4>1. Taken(q) = answers[q] + 1
        BY <3>3 DEF Taken, Served
      <4>2. answers[q] + 1 \in 1..n
        BY <1>2, <2>3, <2>4, <4>1
      <4> QED
        BY <2>3, <3>3, <4>2 DEF AInv, InOrder
    <3>4. serving # Null => serving.from \in Players
      BY DEF AInv, TalkTypes
    <3>5. ASSUME NEW p \in Players PROVE InOrder!1!(p)'
      <4>1. CASE p = q
        BY <1>1, <1>3, <1>5, <2>2, <2>3, <3>1, <3>2, <4>1
      <4>2. CASE p # q
        <5>1. InOrder!1!(p)
          BY DEF AInv, InOrder
        <5>2. /\ toServer'[p] = toServer[p] /\ asked'[p] = asked[p] /\ answers' = answers
              /\ link' = link /\ toClient' = toClient /\ Taken(p)' = Taken(p)
          BY <1>1, <1>3, <2>2, <4>2
        <5> QED
          BY <5>1, <5>2
      <4> QED
        BY <4>1, <4>2
    <3>6. InOrder!2'
      BY <1>1, <2>2, <3>3, <3>4 DEF AInv, InOrder
    <3> QED
      BY <3>5, <3>6 DEF InOrder
  <2>7. KindsMatch'
    <3> SUFFICES ASSUME NEW p \in Players, running[p], link[p] = "open"
                 PROVE  /\ Len(toClient[p]) <= answers[p]
                        /\ \A i \in 1..Len(toClient[p]) :
                             toClient[p][i] = ACK <=> asked'[p][Unread(p) + i].action # "status"
      BY <1>1 DEF KindsMatch, Unread
    <3>1. /\ Len(toClient[p]) <= answers[p]
          /\ \A i \in 1..Len(toClient[p]) :
               toClient[p][i] = ACK <=> asked[p][Unread(p) + i].action # "status"
      BY DEF AInv, KindsMatch
    <3>2. CASE p # q
      BY <2>2, <3>1, <3>2
    <3>3. CASE p = q
      <4>1. \A i \in 1..Len(toClient[p]) : Unread(p) + i \in 1..n
        BY <1>2, <2>3, <2>4, <3>1, <3>3, LenProperties DEF Unread
      <4> QED
        BY <2>3, <3>1, <3>3, <4>1
    <3> QED
      BY <3>2, <3>3
  <2> QED
    BY <1>1, <1>5, <2>5, <2>6, <2>7, StatusStays DEF AInv
<1> QED
  BY <1>4, <1>5

\* A message that was read, or lost with its reader, is off the conversation.
LEMMA ReadAnswers ==
  ASSUME AInv, NEW q \in Players, UNCHANGED <<pc, link, toServer, asked, serviceVars>>,
         FewRequests', TalkTypes',
         \A p \in Players : p # q => toClient'[p] = toClient[p] /\ running'[p] = running[p],
         \/ running'[q] = running[q] /\ toClient[q] # <<>> /\ toClient'[q] = Tail(toClient[q])
         \/ ~running'[q] /\ toClient'[q] = <<>>
         \/ running'[q] = running[q] /\ toClient'[q] = toClient[q]
  PROVE  AInv'
<1>1. UNCHANGED <<serving, answer, reports, answers>>
  BY DEF serviceVars
<1>2. /\ answers \in [Players -> Nat] /\ toClient \in [Players -> Seq(Replies)]
  BY DEF AInv, TalkTypes
<1>3. \A p \in Players : Taken(p)' = Taken(p)
  BY <1>1 DEF Taken, Served
<1>4. InOrder'
  <2>1. toClient[q] = <<>> => toClient'[q] = <<>>
    OBVIOUS
  <2>2. ASSUME NEW p \in Players PROVE InOrder!1!(p)'
    <3>1. InOrder!1!(p)
      BY DEF AInv, InOrder
    <3>2. toClient[p] = <<>> => toClient'[p] = <<>>
      BY <2>1
    <3> QED
      BY <1>1, <1>3, <3>1, <3>2
  <2> QED
    BY <1>1, <2>2 DEF AInv, InOrder
<1>5. KindsMatch'
  <2> SUFFICES ASSUME NEW p \in Players, running'[p], link[p] = "open"
               PROVE  /\ Len(toClient'[p]) <= answers[p]
                      /\ \A i \in 1..Len(toClient'[p]) :
                           toClient'[p][i] = ACK
                             <=> asked[p][answers[p] - Len(toClient'[p]) + i].action # "status"
    BY <1>1 DEF KindsMatch, Unread
  <2>1. running[p] =>
          /\ Len(toClient[p]) <= answers[p]
          /\ \A i \in 1..Len(toClient[p]) :
               toClient[p][i] = ACK
                 <=> asked[p][answers[p] - Len(toClient[p]) + i].action # "status"
    BY DEF AInv, KindsMatch, Unread
  <2>2. CASE running'[p] = running[p] /\ toClient'[p] = toClient[p]
    BY <2>1, <2>2
  <2>3. CASE p = q /\ running'[q] = running[q] /\ toClient[q] # <<>> /\ toClient'[q] = Tail(toClient[q])
    <3> DEFINE n == Len(toClient[q])
    <3>1. /\ n \in Nat \ {0} /\ Len(toClient'[q]) = n - 1
          /\ \A i \in 1..(n - 1) : toClient'[q][i] = toClient[q][i + 1]
      BY <1>2, <2>3, HeadTailProperties, EmptySeq, LenProperties
    <3> HIDE DEF n
    <3>2. answers[q] \in Nat
      BY <1>2
    <3>3. ASSUME NEW i \in 1..(n - 1)
          PROVE  i + 1 \in 1..n /\ answers[q] - (n - 1) + i = answers[q] - n + (i + 1)
      <4>1. n \in Nat /\ i \in Nat /\ i <= n - 1 /\ 1 <= i
        BY <3>1
      <4>2. i + 1 \in 1..n
        BY <4>1
      <4>3. \A a \in Nat : a - (n - 1) + i = a - n + (i + 1)
        BY <4>1
      <4> QED
        BY <3>2, <4>2, <4>3
    <3>4. n <= answers[q] => n - 1 <= answers[q]
      BY <3>1, <3>2
    <3> QED
      BY <2>1, <2>3, <3>1, <3>3, <3>4 DEF n
  <2> QED
    BY <2>2, <2>3
<1> QED
  BY <1>1, <1>4, <1>5, StatusStays DEF AInv

LEMMA ConnectAnswers == ASSUME AInv, NEW q \in Players, Connect(q) PROVE AInv'
<1>1. /\ link[q] = "none" /\ link' = [link EXCEPT ![q] = "open"]
      /\ connection_flag' = [connection_flag EXCEPT ![q] = TRUE]
      /\ UNCHANGED <<pc, serving, answer, reports, answers, toServer, toClient, running,
                     writeable_flag, destroy_flag, writable, routine, asked>>
  BY DEF Connect, vars, serviceVars
<1>2. /\ asked[q] = <<>> /\ toClient[q] = <<>> /\ toServer[q] = <<>> /\ answers[q] = 0
  <2>1. asked[q] = <<>> /\ answers[q] <= Len(asked[q]) /\ toClient[q] = <<>> /\ toServer[q] = <<>>
    BY <1>1 DEF AInv, InOrder
  <2>2. answers[q] \in Nat
    BY DEF AInv, TalkTypes
  <2> QED
    BY <2>1, <2>2
<1>3. link' \in [Players -> {"none", "open", "cut"}] /\ link'[q] = "open"
      /\ \A p \in Players : p # q => link'[p] = link[p]
  BY <1>1 DEF AInv, TalkTypes
<1>4. TalkTypes'
  BY <1>1, <1>3 DEF AInv, TalkTypes
<1>5. ~Served(q)
  BY <1>1 DEF AInv, InOrder, Served
<1>6. \A p \in Players : Taken(p)' = Taken(p)
  BY <1>1 DEF Taken, Served
<1>7. InOrder'
  <2>1. Taken(q) = 0
    BY <1>2, <1>5 DEF Taken
  <2>2. ASSUME NEW p \in Players PROVE InOrder!1!(p)'
    <3>1. InOrder!1!(p)
      BY DEF AInv, InOrder
    <3>2. CASE p = q
      BY <1>1, <1>2, <1>3, <1>6, <2>1, <3>2
    <3>3. CASE p # q
      BY <1>1, <1>3, <1>6, <3>1, <3>3
    <3> QED
      BY <3>2, <3>3
  <2>3. serving # Null => serving.from # q /\ serving.from \in Players
    BY <1>5 DEF Served, AInv, TalkTypes
  <2> QED
    BY <1>1, <1>3, <2>2, <2>3 DEF AInv, InOrder
<1>8. KindsMatch'
  <2>1. ASSUME NEW p \in Players, p # q PROVE KindsMatch!(p)'
    BY <1>1, <1>3, <2>1 DEF AInv, KindsMatch, Unread
  <2>2. KindsMatch!(q)'
    BY <1>1, <1>2
  <2> QED
    BY <2>1, <2>2 DEF KindsMatch
<1>9. FewRequests'
  BY <1>1 DEF AInv, FewRequests, Left
<1> QED
  BY <1>1, <1>4, <1>7, <1>8, <1>9, StatusStays DEF AInv

\* The steps that neither send nor connect.
LEMMA OtherAnswers ==
  ASSUME AInv, NEW q \in Players,
         \/ Disconnected(q) \/ TakeReply(q) \/ Destroy(q) \/ SeesConnection(q)
         \/ AskWritable(q) \/ UsesFreed(q) \/ INT_HANDLER(q)
  PROVE  AInv'
<1> USE DEF AInv
<1>0. /\ running \in [Players -> BOOLEAN] /\ toClient \in [Players -> Seq(Replies)]
      /\ destroy_flag \in [Players -> BOOLEAN] /\ connection_flag \in [Players -> BOOLEAN]
      /\ writeable_flag \in [Players -> BOOLEAN] /\ writable \in [Players -> BOOLEAN]
      /\ routine \in [Players -> {"wait", "greet", "sleep", "done"}]
  BY DEF TalkTypes
<1>1. CASE Disconnected(q) \/ INT_HANDLER(q)
  <2>1. UNCHANGED <<pc, serviceVars, link, toServer, toClient, running, asked, writeable_flag,
                    writable, routine>>
    BY <1>1 DEF Disconnected, INT_HANDLER, vars, linkVars
  <2>2. TalkTypes'
    BY <1>0, <1>1, <2>1 DEF Disconnected, INT_HANDLER, serviceVars, TalkTypes
  <2>3. FewRequests'
    BY <2>1 DEF FewRequests, Left
  <2> QED
    BY <2>1, <2>2, <2>3, ReadAnswers
<1>2. CASE TakeReply(q)
  <2>1. /\ toClient[q] # <<>> /\ toClient' = [toClient EXCEPT ![q] = Tail(@)]
        /\ destroy_flag' = [destroy_flag EXCEPT ![q] = @ \/ writeable_flag[q]]
        /\ UNCHANGED <<pc, serviceVars, link, toServer, running, asked, connection_flag,
                       writeable_flag, writable, routine>>
    BY <1>2 DEF TakeReply, vars
  <2>2. Tail(toClient[q]) \in Seq(Replies)
    BY <1>0, <2>1, HeadTailProperties
  <2>3. toClient' \in [Players -> Seq(Replies)] /\ toClient'[q] = Tail(toClient[q])
        /\ \A p \in Players : p # q => toClient'[p] = toClient[p]
    BY <1>0, <2>1, <2>2
  <2>4. destroy_flag' \in [Players -> BOOLEAN]
    BY <1>0, <2>1
  <2>5. TalkTypes'
    BY <2>1, <2>3, <2>4 DEF serviceVars, TalkTypes
  <2>6. FewRequests'
    BY <2>1 DEF FewRequests, Left
  <2> QED
    BY <2>1, <2>3, <2>5, <2>6, ReadAnswers
<1>3. CASE Destroy(q) \/ UsesFreed(q)
  <2>1. /\ running' = [running EXCEPT ![q] = FALSE]
        /\ toClient' = [toClient EXCEPT ![q] = <<>>]
        /\ UNCHANGED <<pc, serviceVars, link, toServer, asked, connection_flag,
                       writeable_flag, destroy_flag, writable, routine>>
    BY <1>3 DEF Destroy, UsesFreed, Ends, vars
  <2>2. toClient' \in [Players -> Seq(Replies)] /\ toClient'[q] = <<>>
        /\ running' \in [Players -> BOOLEAN] /\ ~running'[q]
        /\ \A p \in Players : p # q => toClient'[p] = toClient[p] /\ running'[p] = running[p]
    BY <1>0, <2>1
  <2>3. TalkTypes'
    BY <2>1, <2>2 DEF serviceVars, TalkTypes
  <2>4. FewRequests'
    BY <2>1 DEF FewRequests, Left
  <2> QED
    BY <2>1, <2>2, <2>3, <2>4, ReadAnswers
<1>4. CASE SeesConnection(q) \/ AskWritable(q)
  <2>1. UNCHANGED <<pc, serviceVars, link, toServer, toClient, running, asked, connection_flag,
                    writeable_flag, destroy_flag>>
    BY <1>4 DEF SeesConnection, AskWritable, vars, linkVars
  <2>2. TalkTypes'
    BY <1>0, <1>4, <2>1 DEF SeesConnection, AskWritable, Then, serviceVars, TalkTypes
  <2>3. q \in TestPlayers /\ q \notin Browsers
    BY <1>4, PlayerAssumption DEF SeesConnection, AskWritable, Then
  <2>4. \A p \in Players : p # q => Left(p)' = Left(p) /\ writable'[p] = writable[p] /\ routine'[p] = routine[p]
    BY <1>0, <1>4 DEF SeesConnection, AskWritable, Then, Left
  <2>5. Left(q)' = Left(q) /\ (writable'[q] => routine'[q] = "done")
    <3>1. CASE SeesConnection(q)
      BY <1>0, <2>3, <3>1 DEF SeesConnection, Then, Left, FewRequests
    <3>2. CASE AskWritable(q)
      BY <1>0, <2>3, <3>2 DEF AskWritable, Then, Left, FewRequests
    <3> QED
      BY <1>4, <3>1, <3>2
  <2>6. FewRequests'
    BY <2>1, <2>3, <2>4, <2>5 DEF FewRequests, Players
  <2> QED
    BY <2>1, <2>2, <2>6, ReadAnswers
<1> QED
  BY <1>1, <1>2, <1>3, <1>4

\* The steps that send: a test player's greeting and command are its last two requests,
\* and a browser counts.
LEMMA SenderAnswers ==
  ASSUME AInv, NEW q \in Players, Greet(q) \/ Writeable(q) \/ Click(q)
  PROVE  AInv'
<1> USE DEF AInv
<1>0. /\ writeable_flag \in [Players -> BOOLEAN] /\ writable \in [Players -> BOOLEAN]
      /\ routine \in [Players -> {"wait", "greet", "sleep", "done"}]
      /\ asked \in [Players -> Seq(AllRequests)] /\ q \notin TestPlayers \cap Browsers
  BY PlayerAssumption DEF TalkTypes
<1>1. ASSUME NEW request \in AllRequests, Send(q, request)
      PROVE  /\ \A p \in Players : p # q => asked'[p] = asked[p]
             /\ Len(asked[q]) \in Nat
             /\ Len(asked'[q]) \in Nat
             /\ Len(asked'[q]) <= Len(asked[q]) + 1
             /\ link[q] # "open" => asked' = asked
  <2>1. Len(asked[q]) \in Nat
    BY <1>0, LenProperties
  <2>2. CASE asked' = asked
    BY <1>0, <2>1, <2>2, LenProperties
  <2>3. CASE link[q] = "open" /\ asked' = [asked EXCEPT ![q] = Append(@, request)]
    <3>1. asked'[q] = Append(asked[q], request)
      BY <1>0, <2>3
    <3>2. Len(asked'[q]) = Len(asked[q]) + 1
      BY <1>0, <1>1, <3>1, AppendProperties
    <3> QED
      BY <1>0, <2>1, <2>3, <3>2
  <2> QED
    BY <1>1, <2>2, <2>3 DEF Send
<1>2. CASE Writeable(q)
  <2>1. /\ Send(q, Request(MyStream, "live")) /\ writable[q]
        /\ writable' = [writable EXCEPT ![q] = FALSE]
        /\ writeable_flag' = [writeable_flag EXCEPT ![q] = TRUE]
        /\ UNCHANGED <<pc, serviceVars, link, toClient, running, connection_flag, destroy_flag, routine>>
        /\ Request(MyStream, "live") \in AllRequests
    BY <1>2 DEF Writeable, vars, AllRequests
  <2>2. q \in TestPlayers /\ q \notin Browsers /\ routine[q] = "done"
    BY <1>0, <2>1 DEF FewRequests, Players
  <2>3. Left(q) = 1 /\ Left(q)' = 0 /\ ~writable'[q]
        /\ \A p \in Players : p # q => Left(p)' = Left(p) /\ writable'[p] = writable[p]
    BY <1>0, <2>1, <2>2 DEF Left
  <2>4. Len(asked'[q]) + Left(q)' <= 2
    <3>1. Len(asked[q]) + 1 <= 2
      BY <2>2, <2>3 DEF FewRequests
    <3> QED
      BY <1>1, <2>1, <2>3, <3>1
  <2>5. FewRequests'
    BY <1>1, <2>1, <2>2, <2>3, <2>4 DEF FewRequests, Players
  <2>6. writable' \in [Players -> BOOLEAN] /\ writeable_flag' \in [Players -> BOOLEAN]
    BY <1>0, <2>1
  <2> QED
    BY <1>0, <2>1, <2>5, <2>6, SendAnswers
<1>3. CASE Greet(q)
  <2>1. /\ Send(q, Request(MyStream, "status")) /\ q \in TestPlayers /\ routine[q] = "greet"
        /\ routine' = [routine EXCEPT ![q] = "sleep"]
        /\ UNCHANGED <<pc, serviceVars, link, toClient, running, connection_flag, writeable_flag,
                       destroy_flag, writable>>
        /\ Request(MyStream, "status") \in AllRequests
    BY <1>3 DEF Greet, Then, vars, AllRequests
  <2>2. Left(q) = 2 /\ Left(q)' = 1 /\ ~writable[q] /\ q \notin Browsers
        /\ \A p \in Players : p # q => Left(p)' = Left(p) /\ routine'[p] = routine[p]
    BY <1>0, <2>1 DEF Left, FewRequests
  <2>3. Len(asked'[q]) + Left(q)' <= 2
    <3>1. Len(asked[q]) + 2 <= 2
      BY <2>1, <2>2 DEF FewRequests
    <3> QED
      BY <1>1, <2>1, <2>2, <3>1
  <2>4. FewRequests'
    BY <1>1, <2>1, <2>2, <2>3 DEF FewRequests, Players
  <2>5. routine' \in [Players -> {"wait", "greet", "sleep", "done"}]
    BY <1>0, <2>1
  <2> QED
    BY <1>0, <2>1, <2>4, <2>5, SendAnswers
<1>4. CASE Click(q)
  <2>1. PICK request \in Requests : Send(q, request)
    BY <1>4 DEF Click
  <2>2. /\ q \in Browsers /\ q \notin TestPlayers /\ Len(asked[q]) < MaxClicks
        /\ UNCHANGED <<pc, serviceVars, link, toClient, running, connection_flag, writeable_flag,
                       destroy_flag, writable, routine>>
        /\ request \in AllRequests /\ MaxClicks \in Nat
    BY <1>0, <1>4, PlayerAssumption DEF Click, vars, AllRequests
  <2>3. Len(asked'[q]) <= MaxClicks
    BY <1>1, <2>1, <2>2
  <2>4. FewRequests'
    BY <1>1, <2>1, <2>2, <2>3 DEF FewRequests, Left, Players
  <2> QED
    BY <1>0, <2>1, <2>2, <2>4, SendAnswers
<1> QED
  BY <1>2, <1>3, <1>4

-----------------------------------------------------------------------------
(* The theorems *)

LEMMA PlayerNextAnswers == ASSUME PInv, AInv, [PlayerNext]_playerVars PROVE AInv'
<1>1. CASE ServerProcess
  <2>1. CASE Cuts
    BY <1>1, <2>1, CutsAnswers DEF ServerProcess
  <2>2. CASE Runs /\ (Boot \/ NextEntry \/ BootDone)
    <3>1. pc'[Player] = pc[Player]
      <4>1. Threads = {Player, Main} /\ Player # Main /\ pc \in [Threads -> Labels]
        BY PlayerAssumption, ConstantsAssumption DEF Threads, PInv, IInv, TypeOK
      <4> QED
        BY <2>2, <4>1 DEF Boot, NextEntry, BootDone, storeVars, Call
    <3>2. StatusFound'
      BY <2>2, <3>1 DEF Runs, AInv, StatusFound
    <3> QED
      BY <1>1, <2>2, <3>2, QuietAnswers DEF ServerProcess, Runs, AInv, TalkTypes
  <2> QED
    BY <1>1, <2>1, <2>2 DEF ServerProcess
<1>2. CASE HandlerReports
  <2>1. reports' \in 0..MaxReports
    <3>1. reports \in 0..MaxReports /\ MaxReports \in Nat /\ reports < MaxReports
          /\ reports' = reports + 1
      BY <1>2, PlayerAssumption DEF HandlerReports, AInv, TalkTypes
    <3> QED
      BY <3>1
  <2>2. StatusFound'
    BY <1>2 DEF HandlerReports, AInv, StatusFound
  <2> QED
    BY <1>2, <2>1, <2>2, QuietAnswers DEF HandlerReports
<1>3. CASE UNCHANGED playerVars
  <2>1. StatusFound'
    BY <1>3 DEF playerVars, vars, serviceVars, AInv, StatusFound
  <2> QED
    BY <1>3, <2>1, QuietAnswers DEF playerVars, serviceVars, AInv, TalkTypes
<1> QED
  BY <1>1, <1>2, <1>3, FileStepAnswers, WriteBackAnswers, ReceiveAnswers, ConnectAnswers,
     OtherAnswers, SenderAnswers
  DEF PlayerNext, Callbacks, Routine

LEMMA AnswersInvariant == PlayerSpec => [](PInv /\ AInv)
<1>1. PlayerInit => PInv /\ AInv
  BY InitPlayers, InitAnswers
<1>2. PInv /\ AInv /\ [PlayerNext]_playerVars => PInv' /\ AInv'
  BY PlayerNextInv, PlayerNextAnswers
<1> QED
  BY <1>1, <1>2, PTL DEF PlayerSpec

\* The types of the player server, its players and what is between them hold for ever:
\* every answer is ACK or names a value of the record, never the C pointer NULL.
THEOREM PlayerTypes == PlayerSpec => []PlayerTypeOK
<1>1. ASSUME PInv, AInv PROVE PlayerTypeOK
  <2>1. answers \in [Players -> 0..(MaxClicks + 2)]
    <3>1. ASSUME NEW p \in Players PROVE answers[p] \in 0..(MaxClicks + 2)
      <4>1. answers[p] \in Nat /\ answers[p] <= Len(asked[p]) /\ Len(asked[p]) \in Nat
        BY <1>1, LenProperties DEF AInv, TalkTypes, InOrder
      <4>2. Left(p) \in 0..2 /\ MaxClicks \in Nat
        BY PlayerAssumption DEF Left
      <4>3. Len(asked[p]) <= MaxClicks \/ Len(asked[p]) + Left(p) <= 2
        BY <1>1 DEF AInv, FewRequests, Players
      <4> QED
        BY <4>1, <4>2, <4>3
    <3> QED
      BY <1>1, <3>1 DEF AInv, TalkTypes
  <2> QED
    BY <1>1, <2>1 DEF PlayerTypeOK, PInv, IInv, AInv, TalkTypes, StatusFound, Messages
<1> QED
  BY <1>1, AnswersInvariant, PTL

\* The i-th message that a player is sent is of the kind that its i-th request calls for,
\* as long as its connection is open, however its requests cross the answers, the other
\* players' requests and the stops of the server.
THEOREM AnswersBelong == PlayerSpec => []AnswersMatchRequests
<1>1. PInv /\ AInv => AnswersMatchRequests
  BY DEF AInv, InOrder, KindsMatch, AnswersMatchRequests
<1> QED
  BY <1>1, AnswersInvariant, PTL
=============================================================================
