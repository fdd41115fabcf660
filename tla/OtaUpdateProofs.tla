---------------------------- MODULE OtaUpdateProofs ----------------------------
(***************************************************************************)
(* What a client of OTAServer has recorded it has installed, for any       *)
(* number of clients, versions and crossing sessions.                      *)
(***************************************************************************)
EXTENDS OtaUpdate, TLAPS

-----------------------------------------------------------------------------
(* The inductive invariant *)

\* Where a handler reads the globals, they hold what it is about to use.
Handlers ==
  \A c \in Clients : /\ hand[c] = "recv" => fd[c] \in Clients
                     /\ hand[c] = "available" => latest[c] \in Versions

\* Nobody is offered, told or has recorded a version before it is published, and a
\* version is published after its package.
NothingAhead ==
  /\ published <= package
  /\ \A v \in Versions : tempBuff = Available(v) => v <= published
  /\ \A c \in Clients :
       /\ latest[c] # None => latest[c] <= published
       /\ \A v \in Versions : toClient[c] = Available(v) => v <= published
       /\ told[c] # None => told[c] <= published
       /\ recorded[c] # None => recorded[c] <= published

Updating == {"wget", "tar", "sh", "truncate", "write"}

\* What version v brings is not older than what c was told or has recorded.
Serves(c, v) ==
  /\ v \in Versions
  /\ v >= told[c]
  /\ recorded[c] # None => v >= recorded[c]

\* As long as nothing fails, what an update has fetched, unpacked and installed is
\* at every command as new as what it was told.
Progress ==
  \A c \in Clients :
    /\ at[c] \in Updating => told[c] \in Versions
    /\ Undisturbed =>
         /\ at[c] # "tar" => tarball[c] = None
         /\ at[c] = "tar" => Serves(c, tarball[c])
         /\ at[c] = "sh" => Serves(c, unpacked[c])
         /\ at[c] \in {"truncate", "write"} => Serves(c, installed[c])
         /\ recorded[c] # None => installed[c] >= recorded[c]

OtaInv == OtaTypeOK /\ Handlers /\ NothingAhead /\ Progress

\* Frames of different kinds differ, and an offer names its version.
LEMMA FramesDiffer ==
  /\ \A v, w \in Versions : Available(v) = Available(w) => v = w
  /\ \A v \in Versions : /\ {Available(v), Request(v)} \subseteq Frames
                         /\ \A w \in Versions : Available(v) # Request(w)
                         /\ Available(v) \notin {Blank, Updated}
  /\ {Blank, Updated} \subseteq Frames
<1>1. \A v, w \in Versions : Available(v) = Available(w) => v = w
  <2> SUFFICES ASSUME NEW v \in Versions, NEW w \in Versions, Available(v) = Available(w)
               PROVE  v = w
    OBVIOUS
  <2>1. Available(v).version = v /\ Available(w).version = w
    BY DEF Available
  <2> QED
    BY <2>1
<1>2. ASSUME NEW v \in Versions
      PROVE  /\ \A w \in Versions : Available(v) # Request(w)
             /\ Available(v) \notin {Blank, Updated}
  <2>1. Available(v).is = "available" /\ Blank.is = "blank" /\ Updated.is = "updated"
    BY DEF Available, Blank, Updated
  <2>2. \A w \in Versions : Request(w).is = "request"
    BY DEF Request
  <2> QED
    BY <2>1, <2>2
<1> QED
  BY <1>1, <1>2 DEF Frames

LEMMA OtaInitInv == OtaInit => OtaInv
<1> SUFFICES ASSUME OtaInit PROVE OtaInv
  OBVIOUS
<1>1. 1 \in Versions /\ 0 \in 0..MaxMishaps
  BY UpdateAssumption DEF Versions
<1>2. OtaTypeOK
  BY <1>1, UpdateAssumption, FramesDiffer DEF OtaInit, OtaTypeOK
<1>3. NothingAhead
  <2>1. \A v \in Versions : tempBuff # Available(v)
    BY FramesDiffer DEF OtaInit
  <2>2. \A c \in Clients, v \in Versions : toClient[c] = Available(v) => v <= published
    BY UpdateAssumption, FramesDiffer DEF OtaInit
  <2> QED
    BY <1>1, <2>1, <2>2 DEF OtaInit, NothingAhead, Versions
<1> QED
  BY <1>2, <1>3 DEF OtaInit, OtaInv, Handlers, Progress, Updating

-----------------------------------------------------------------------------
(* Publication *)

LEMMA PublicationInv == ASSUME OtaInv, Upload \/ Publish PROVE OtaInv'
<1>1. package \in Nat /\ published \in Nat /\ \A v \in Versions : v \in Nat
  BY DEF OtaInv, OtaTypeOK, Versions
<1>2. UNCHANGED <<serverVars, wire, clientVars, counters>>
  BY DEF Upload, Publish
<1>3. OtaTypeOK'
  <2>1. package' \in Versions /\ published' \in Versions
    BY UpdateAssumption DEF OtaInv, OtaTypeOK, Upload, Publish, Versions
  <2> QED
    BY <1>2, <2>1 DEF serverVars, wire, clientVars, counters, OtaInv, OtaTypeOK
<1>4. published' <= package' /\ published <= published'
  BY <1>1 DEF Upload, Publish, OtaInv, NothingAhead
<1>5. NothingAhead'
  <2>1. \A v \in Nat : v <= published => v <= published'
    BY <1>1, <1>3, <1>4 DEF OtaTypeOK, Versions
  <2>2. \A c \in Clients : /\ latest[c] # None => latest[c] \in Nat
                           /\ told[c] # None => told[c] \in Nat
                           /\ recorded[c] # None => recorded[c] \in Nat
    BY <1>1 DEF OtaInv, OtaTypeOK
  <2> QED
    BY <1>1, <1>2, <1>4, <2>1, <2>2
    DEF serverVars, wire, clientVars, OtaInv, NothingAhead
<1>6. Handlers' /\ Progress'
  BY <1>2 DEF serverVars, wire, clientVars, counters, OtaInv, Handlers, Progress, Serves,
              Undisturbed
<1> QED
  BY <1>3, <1>5, <1>6 DEF OtaInv

-----------------------------------------------------------------------------
(* The server *)

\* A handler changes nothing of a client but the frame sent to it.
LEMMA ServerProgress ==
  ASSUME OtaInv, Rest
  PROVE  /\ Progress'
         /\ published' <= package'
         /\ \A c \in Clients : /\ told'[c] # None => told'[c] <= published'
                               /\ recorded'[c] # None => recorded'[c] <= published'
  BY DEF Rest, clientVars, counters, OtaInv, NothingAhead, Progress, Serves, Undisturbed

LEMMA CrashOtaInv == ASSUME OtaInv, Crash, Rest PROVE OtaInv'
<1>1. \A v \in Versions : tempBuff' # Available(v)
  BY FramesDiffer DEF Crash
<1>2. OtaTypeOK'
  BY FramesDiffer DEF Crash, Rest, wire, clientVars, counters, OtaInv, OtaTypeOK
<1>3. Handlers'
  BY DEF Crash, Handlers
<1>4. NothingAhead'
  BY <1>1, ServerProgress DEF Crash, Rest, wire, OtaInv, NothingAhead
<1> QED
  BY <1>2, <1>3, <1>4, ServerProgress DEF OtaInv

LEMMA RestartInv == ASSUME OtaInv, Restart PROVE OtaInv'
  BY DEF Restart, wire, clientVars, counters, OtaInv, OtaTypeOK, Handlers, NothingAhead,
         Progress, Serves, Undisturbed

LEMMA HandlerInv == ASSUME OtaInv, NEW c \in Clients, HandlerStep(c) PROVE OtaInv'
<1> USE DEF Rest, wire, clientVars, counters, Handler, Goto
<1>1. CASE Crash
  <2>1. Rest
    BY <1>1 DEF HandlerStep, HandleTCPClient, CallRecv, RecvReturns, msgParse, ReadVersion,
                SIGUpdated, SIGAvailable, Formats, sendData, Close
  <2> QED
    BY <1>1, <2>1, CrashOtaInv
<1>2. CASE HandleTCPClient(c)
  BY <1>2, ServerProgress DEF HandleTCPClient, OtaInv, OtaTypeOK, Handlers, NothingAhead
<1>3. CASE CallRecv(c) /\ ~Crash
  <2>1. \A v \in Versions : tempBuff' # Available(v)
    BY <1>3, FramesDiffer DEF CallRecv
  <2>2. clntSock \in Clients
    BY <1>3 DEF CallRecv, OtaInv, OtaTypeOK
  <2>3. /\ tempBuff' = Blank /\ fd' = [fd EXCEPT ![c] = clntSock]
        /\ hand' = [hand EXCEPT ![c] = "recv"]
        /\ UNCHANGED <<up, open, clntSock, latest, wire>> /\ Rest
    BY <1>3 DEF CallRecv
  <2>4. OtaTypeOK'
    BY <2>2, <2>3, FramesDiffer DEF OtaInv, OtaTypeOK
  <2>5. Handlers'
    BY <2>2, <2>3 DEF OtaInv, OtaTypeOK, Handlers
  <2>6. NothingAhead'
    BY <2>1, <2>3, ServerProgress DEF OtaInv, NothingAhead
  <2> QED
    BY <2>3, <2>4, <2>5, <2>6, ServerProgress DEF OtaInv
<1>4. CASE RecvReturns(c) /\ ~Crash
  <2> DEFINE k == fd[c]
  <2>1. k \in Clients
    BY <1>4 DEF RecvReturns, Handler, OtaInv, Handlers
  <2>2. toServer[k] \in Versions \cup {None}
    BY <2>1 DEF OtaInv, OtaTypeOK
  <2>3. /\ toServer' = [toServer EXCEPT ![k] = None]
        /\ tempBuff' = IF toServer[k] = None THEN Blank ELSE Request(toServer[k])
        /\ fd' = [fd EXCEPT ![c] = None]
        /\ hand' = [hand EXCEPT ![c] = "parse"]
        /\ UNCHANGED <<up, open, clntSock, latest, toClient>> /\ Rest
    BY <1>4 DEF RecvReturns, Received, Goto
  <2>4. tempBuff' \in Frames /\ \A v \in Versions : tempBuff' # Available(v)
    BY <2>2, <2>3, FramesDiffer DEF OtaInv, OtaTypeOK
  <2> HIDE DEF k
  <2>5. OtaTypeOK'
    BY <2>1, <2>3, <2>4 DEF OtaInv, OtaTypeOK
  <2>6. Handlers'
    BY <2>3 DEF OtaInv, OtaTypeOK, Handlers
  <2>7. NothingAhead'
    BY <2>3, <2>4, ServerProgress DEF OtaInv, NothingAhead
  <2> QED
    BY <2>3, <2>5, <2>6, <2>7, ServerProgress DEF OtaInv
<1>5. CASE msgParse(c) /\ ~Crash
  BY <1>5, ServerProgress DEF msgParse, OtaInv, OtaTypeOK, Handlers, NothingAhead
<1>6. CASE ReadVersion(c)
  <2>1. published \in Versions
    BY DEF OtaInv, OtaTypeOK
  <2>2. published <= published
    BY <2>1 DEF Versions
  <2>3. OtaTypeOK'
    BY <1>6, <2>1 DEF ReadVersion, OtaInv, OtaTypeOK
  <2>4. Handlers'
    BY <1>6, <2>1 DEF ReadVersion, OtaInv, OtaTypeOK, Handlers
  <2>5. NothingAhead'
    BY <1>6, <2>2, ServerProgress DEF ReadVersion, OtaInv, OtaTypeOK, NothingAhead
  <2> QED
    BY <1>6, <2>3, <2>4, <2>5, ServerProgress DEF ReadVersion, OtaInv
<1>7. ASSUME NEW answer \in Frames, Formats(c, answer),
             \A v \in Versions : answer = Available(v) => v <= published
      PROVE  OtaInv'
  BY <1>7, ServerProgress DEF Formats, OtaInv, OtaTypeOK, Handlers, NothingAhead
<1>8. CASE SIGUpdated(c)
  BY <1>7, <1>8, FramesDiffer DEF SIGUpdated
<1>9. CASE SIGAvailable(c)
  <2>1. latest[c] \in Versions /\ latest[c] <= published
    BY <1>9, UpdateAssumption DEF SIGAvailable, OtaInv, Handlers, NothingAhead
  <2> QED
    BY <1>7, <1>9, <2>1, FramesDiffer DEF SIGAvailable
<1>10. CASE sendData(c) /\ ~Crash
  <2>1. /\ UNCHANGED <<up, fd, open, clntSock, tempBuff, latest, toServer>> /\ Rest
        /\ hand' = [hand EXCEPT ![c] = "close"]
    BY <1>10 DEF sendData
  <2>2. /\ toClient' \in [Clients -> Frames \cup {None}]
        /\ \A d \in Clients : toClient'[d] \in {toClient[d], tempBuff}
    <3>1. toClient \in [Clients -> Frames \cup {None}] /\ tempBuff \in Frames
      BY DEF OtaInv, OtaTypeOK
    <3>2. toClient' \in {toClient, [toClient EXCEPT ![clntSock] = tempBuff]}
      BY <1>10 DEF sendData
    <3> QED
      BY <3>1, <3>2
  <2>3. OtaTypeOK'
    BY <2>1, <2>2 DEF OtaInv, OtaTypeOK
  <2>4. NothingAhead'
    BY <2>1, <2>2, ServerProgress DEF OtaInv, NothingAhead
  <2> QED
    BY <2>1, <2>3, <2>4, ServerProgress DEF OtaInv, Handlers
<1>11. CASE Close(c)
  BY <1>11, ServerProgress DEF Close, OtaInv, OtaTypeOK, Handlers, NothingAhead
<1> QED
  BY <1>1, <1>2, <1>3, <1>4, <1>5, <1>6, <1>8, <1>9, <1>10, <1>11 DEF HandlerStep

-----------------------------------------------------------------------------
(* The clients *)

\* A client changes nothing of the server but the hand-over of its connection.
ServerKept == UNCHANGED <<package, published, up, clntSock, tempBuff, latest, fd>>

\* What is to be shown of a client's step: its own part of the invariant.
LEMMA ClientInv ==
  ASSUME OtaInv, NEW c \in Clients, ServerKept, OtaTypeOK', Handlers',
         failures' >= failures, losses' >= losses,
         \A d \in Clients : toClient'[d] \in {toClient[d], None},
         told'[c] # None => told'[c] <= published,
         recorded'[c] # None => recorded'[c] <= published,
         \A d \in Clients \ {c} :
           /\ told'[d] = told[d] /\ recorded'[d] = recorded[d]
           /\ at'[d] = at[d] /\ tarball'[d] = tarball[d]
           /\ unpacked'[d] = unpacked[d] /\ installed'[d] = installed[d],
         at'[c] \in Updating => told'[c] \in Versions,
         Undisturbed' =>
           /\ at'[c] # "tar" => tarball'[c] = None
           /\ at'[c] = "tar" => Serves(c, tarball[c])'
           /\ at'[c] = "sh" => Serves(c, unpacked[c])'
           /\ at'[c] \in {"truncate", "write"} => Serves(c, installed[c])'
           /\ recorded'[c] # None => installed'[c] >= recorded'[c]
  PROVE  OtaInv'
<1>1. NothingAhead'
  <2>1. \A v \in Versions : None # Available(v)
    BY UpdateAssumption, FramesDiffer
  <2> QED
    BY <2>1 DEF ServerKept, OtaInv, NothingAhead
<1>2. Undisturbed' => Undisturbed
  BY DEF Undisturbed, OtaInv, OtaTypeOK
<1>3. Progress'
  BY <1>2 DEF OtaInv, Progress, Serves
<1> QED
  BY <1>1, <1>3 DEF OtaInv

\* The end of the program, which leaves c with nothing it was told.
LEMMA EndsInv ==
  ASSUME OtaInv, NEW c \in Clients, Ends(c), UNCHANGED <<package, published, serverVars>>,
         UNCHANGED <<unpacked, installed>>,
         failures' >= failures, losses' >= losses,
         {failures', losses', failures' + losses'} \subseteq 0..MaxMishaps,
         recorded' \in [Clients -> Versions \cup {None}],
         \A d \in Clients \ {c} : recorded'[d] = recorded[d],
         recorded'[c] # None => recorded'[c] <= published,
         recorded'[c] = None => losses' > 0,
         UNCHANGED tarball,
         Undisturbed' => /\ tarball[c] = None
                         /\ recorded'[c] # None => installed[c] >= recorded'[c]
  PROVE  OtaInv'
<1>1. ServerKept /\ Handlers'
  BY DEF serverVars, ServerKept, OtaInv, Handlers
<1>2. /\ at' = [at EXCEPT ![c] = "off"] /\ told' = [told EXCEPT ![c] = None]
      /\ toServer' = [toServer EXCEPT ![c] = None] /\ toClient' = [toClient EXCEPT ![c] = None]
  BY DEF Ends
<1>3. \A d \in Clients : recorded'[d] = None => at'[d] = "write" \/ losses' > 0
  BY <1>2 DEF OtaInv, OtaTypeOK
<1>4. OtaTypeOK'
  BY <1>2, <1>3 DEF serverVars, OtaInv, OtaTypeOK
<1>5. \A d \in Clients : toClient'[d] \in {toClient[d], None}
  BY <1>2 DEF OtaInv, OtaTypeOK
<1>6. at'[c] = "off" /\ told'[c] = None
  BY <1>2 DEF OtaInv, OtaTypeOK
<1>7. \A d \in Clients \ {c} : told'[d] = told[d] /\ at'[d] = at[d]
  BY <1>2 DEF OtaInv, OtaTypeOK
<1> QED
  BY <1>1, <1>4, <1>5, <1>6, <1>7, ClientInv DEF Updating

LEMMA AskInv == ASSUME OtaInv, NEW c \in Clients, SIGCheckUpdate(c) PROVE OtaInv'
<1> USE DEF SIGCheckUpdate, counters
<1>1. /\ at' = [at EXCEPT ![c] = "asked"] /\ toServer' = [toServer EXCEPT ![c] = recorded[c]]
      /\ hand' = [hand EXCEPT ![c] = "take"] /\ open' = open \cup {c}
      /\ at[c] = "off"
  OBVIOUS
<1>2. OtaTypeOK'
  BY <1>1 DEF OtaInv, OtaTypeOK
<1>3. ServerKept /\ Handlers'
  BY <1>1 DEF ServerKept, OtaInv, OtaTypeOK, Handlers
<1>4. at'[c] = "asked" /\ \A d \in Clients \ {c} : at'[d] = at[d]
  BY <1>1 DEF OtaInv, OtaTypeOK
<1>5. failures' >= failures /\ losses' >= losses
  BY DEF OtaInv, OtaTypeOK
<1>6. Undisturbed' => /\ tarball'[c] = None
                      /\ recorded'[c] # None => installed'[c] >= recorded'[c]
  BY <1>1 DEF OtaInv, Progress, Undisturbed
<1>7. /\ told'[c] # None => told'[c] <= published
      /\ recorded'[c] # None => recorded'[c] <= published
  BY DEF OtaInv, NothingAhead
<1> QED
  BY <1>2, <1>3, <1>4, <1>5, <1>6, <1>7, ClientInv DEF Updating

LEMMA ReceiveInv == ASSUME OtaInv, NEW c \in Clients, Receive(c) PROVE OtaInv'
<1> USE DEF Receive, counters
<1>1. at[c] = "asked" /\ failures' >= failures /\ losses' >= losses
  BY DEF OtaInv, OtaTypeOK
<1>2. Undisturbed => /\ tarball[c] = None
                     /\ recorded[c] # None => installed[c] >= recorded[c]
  BY <1>1 DEF OtaInv, Progress
<1>3. recorded[c] # None => recorded[c] <= published
  BY DEF OtaInv, NothingAhead
<1>4. CASE Ends(c)
  <2>1. Undisturbed' = Undisturbed
    BY DEF Undisturbed
  <2>2. /\ {failures', losses', failures' + losses'} \subseteq 0..MaxMishaps
        /\ recorded' \in [Clients -> Versions \cup {None}]
        /\ recorded'[c] = None => losses' > 0
    BY <1>1 DEF OtaInv, OtaTypeOK
  <2> QED
    BY <1>1, <1>2, <1>3, <1>4, <2>1, <2>2, EndsInv
<1>5. CASE ~Ends(c)
  <2>1. PICK v \in Offered(c) : /\ at' = [at EXCEPT ![c] = "wget"]
                                /\ told' = [told EXCEPT ![c] = v]
                                /\ toClient' = [toClient EXCEPT ![c] = None]
                                /\ UNCHANGED toServer
    BY <1>5
  <2>2. v \in Versions /\ v <= published
    BY DEF Offered, OtaInv, NothingAhead
  <2>3. OtaTypeOK'
    BY <1>1, <2>1, <2>2 DEF serverVars, OtaInv, OtaTypeOK
  <2>4. ServerKept /\ Handlers'
    BY DEF serverVars, ServerKept, OtaInv, Handlers
  <2>5. /\ at'[c] = "wget" /\ told'[c] = v
        /\ \A d \in Clients \ {c} : at'[d] = at[d] /\ told'[d] = told[d]
        /\ \A d \in Clients : toClient'[d] \in {toClient[d], None}
    BY <2>1 DEF OtaInv, OtaTypeOK
  <2>6. Undisturbed' => Undisturbed
    BY DEF Undisturbed
  <2> QED
    BY <1>1, <1>2, <1>3, <2>2, <2>3, <2>4, <2>5, <2>6, ClientInv DEF Updating
<1> QED
  BY <1>4, <1>5

\* A command of the update script, or the first half of setJsonValue, that takes c
\* from one place of the update to the next.
LEMMA CommandInv ==
  ASSUME OtaInv, NEW c \in Clients, NEW place \in Updating, NEW next \in Updating,
         Then(c, place, next),
         UNCHANGED <<package, published, serverVars, wire, told, losses>>,
         Works \/ Fails,
         tarball' \in [Clients -> Versions \cup {None}],
         unpacked' \in [Clients -> Versions \cup {None}],
         installed' \in [Clients -> Versions],
         recorded' \in [Clients -> Versions \cup {None}],
         \A d \in Clients \ {c} :
           /\ recorded'[d] = recorded[d] /\ tarball'[d] = tarball[d]
           /\ unpacked'[d] = unpacked[d] /\ installed'[d] = installed[d],
         recorded'[c] # None => recorded'[c] = recorded[c],
         recorded'[c] = None => next = "write" \/ losses > 0,
         Undisturbed /\ Works =>
           /\ next # "tar" => tarball'[c] = None
           /\ next = "tar" => Serves(c, tarball[c])'
           /\ next = "sh" => Serves(c, unpacked[c])'
           /\ next \in {"truncate", "write"} => Serves(c, installed[c])'
           /\ recorded'[c] # None => installed'[c] >= recorded'[c]
  PROVE  OtaInv'
<1>1. failures \in 0..MaxMishaps /\ losses \in 0..MaxMishaps
  BY DEF OtaInv, OtaTypeOK
<1>2. /\ failures' >= failures /\ losses' >= losses
      /\ {failures', losses', failures' + losses'} \subseteq 0..MaxMishaps
      /\ Undisturbed' => Undisturbed /\ Works
  <2>1. failures + losses \in 0..MaxMishaps
    BY DEF OtaInv, OtaTypeOK
  <2>2. CASE Works
    BY <1>1, <2>1, <2>2 DEF Works, Undisturbed
  <2>3. CASE Fails
    BY <1>1, <2>1, <2>3, UpdateAssumption DEF Fails, Undisturbed
  <2> QED
    BY <2>2, <2>3
<1>3. at' = [at EXCEPT ![c] = next] /\ at[c] = place
  BY DEF Then
<1>4. at'[c] = next /\ \A d \in Clients \ {c} : at'[d] = at[d]
  BY <1>3 DEF OtaInv, OtaTypeOK
<1>5. \A d \in Clients : recorded'[d] = None => at'[d] = "write" \/ losses' > 0
  BY <1>4 DEF OtaInv, OtaTypeOK
<1>6. at' \in [Clients -> {"off", "asked", "wget", "tar", "sh", "truncate", "write"}]
  BY <1>3 DEF OtaInv, OtaTypeOK, Updating
<1>7. OtaTypeOK'
  BY <1>2, <1>5, <1>6 DEF serverVars, wire, OtaInv, OtaTypeOK
<1>8. ServerKept /\ Handlers' /\ \A d \in Clients : toClient'[d] = toClient[d]
  BY DEF serverVars, wire, ServerKept, OtaInv, Handlers
<1>9. told[c] \in Versions
  BY <1>3 DEF OtaInv, Progress
<1>10. /\ told'[c] # None => told'[c] <= published
       /\ recorded'[c] # None => recorded'[c] <= published
  BY DEF OtaInv, NothingAhead
<1> QED
  BY <1>2, <1>4, <1>7, <1>8, <1>9, <1>10, ClientInv

LEMMA UpdateInv ==
  ASSUME OtaInv, NEW c \in Clients,
         Download(c) \/ Unpack(c) \/ Install(c) \/ TruncateRecord(c)
  PROVE  OtaInv'
<1> USE DEF Updating
<1>1. /\ tarball \in [Clients -> Versions \cup {None}]
      /\ unpacked \in [Clients -> Versions \cup {None}]
      /\ installed \in [Clients -> Versions]
      /\ recorded \in [Clients -> Versions \cup {None}]
      /\ recorded[c] = None => at[c] = "write" \/ losses > 0
      /\ package \in Versions /\ published \in Versions
  BY DEF OtaInv, OtaTypeOK
<1>2. Undisturbed =>
        /\ at[c] # "tar" => tarball[c] = None
        /\ at[c] = "tar" => Serves(c, tarball[c])
        /\ at[c] = "sh" => Serves(c, unpacked[c])
        /\ at[c] \in {"truncate", "write"} => Serves(c, installed[c])
        /\ recorded[c] # None => installed[c] >= recorded[c]
  BY DEF OtaInv, Progress
<1>3. CASE Download(c)
  <2>1. /\ tarball' \in {tarball, [tarball EXCEPT ![c] = package]}
        /\ UNCHANGED <<package, published, serverVars, wire, told, unpacked, installed,
                       recorded, losses>>
        /\ Works \/ Fails
        /\ Then(c, "wget", "tar") /\ at[c] = "wget"
    BY <1>1, <1>3 DEF Download, Then
  <2>2. Serves(c, package)
    <3>1. told[c] \in Versions /\ told[c] <= published /\ published <= package
      BY <2>1, UpdateAssumption DEF OtaInv, Progress, NothingAhead
    <3>2. recorded[c] # None => recorded[c] <= published
      BY DEF OtaInv, NothingAhead
    <3> QED
      BY <1>1, <3>1, <3>2 DEF Serves, Versions
  <2>3. Undisturbed /\ Works => tarball' = [tarball EXCEPT ![c] = package]
    <3>1. ASSUME Undisturbed, Works, ~(tarball' = [tarball EXCEPT ![c] = package]) PROVE FALSE
      <4>1. tarball[c] = None
        BY <1>2, <2>1, <3>1
      <4>2. ~Fails
        BY <3>1 DEF Undisturbed, Works, Fails
      <4> QED
        BY <1>3, <3>1, <4>1, <4>2 DEF Download
    <3> QED
      BY <3>1
  <2>4. Undisturbed /\ Works => Serves(c, tarball[c])'
    BY <1>1, <2>1, <2>2, <2>3 DEF Serves
  <2>5. \A d \in Clients \ {c} : tarball'[d] = tarball[d]
    BY <1>1, <2>1
  <2>6. tarball' \in [Clients -> Versions \cup {None}]
    BY <1>1, <2>1
  <2> QED
    BY <1>1, <1>2, <2>1, <2>4, <2>5, <2>6, CommandInv
<1>4. CASE Unpack(c)
  <2>1. /\ tarball' = [tarball EXCEPT ![c] = None]
        /\ unpacked' \in {unpacked, [unpacked EXCEPT ![c] = tarball[c]]}
        /\ UNCHANGED <<package, published, serverVars, wire, told, installed, recorded, losses>>
        /\ Works \/ Fails
        /\ Then(c, "tar", "sh") /\ at[c] = "tar"
    BY <1>1, <1>4 DEF Unpack, Then
  <2>2. Undisturbed /\ Works => unpacked' = [unpacked EXCEPT ![c] = tarball[c]]
    <3>1. ASSUME Undisturbed, Works PROVE unpacked' = [unpacked EXCEPT ![c] = tarball[c]]
      <4>1. tarball[c] \in Versions /\ tarball[c] # None
        BY <1>2, <2>1, <3>1, UpdateAssumption DEF Serves
      <4>2. ~Fails
        BY <3>1 DEF Undisturbed, Works, Fails
      <4> QED
        BY <1>4, <4>1, <4>2 DEF Unpack
    <3> QED
      BY <3>1
  <2>3. Undisturbed /\ Works => Serves(c, unpacked[c])'
    BY <1>1, <1>2, <2>1, <2>2 DEF Serves
  <2>4. \A d \in Clients \ {c} : tarball'[d] = tarball[d] /\ unpacked'[d] = unpacked[d]
    BY <1>1, <2>1
  <2>5. /\ tarball' \in [Clients -> Versions \cup {None}] /\ tarball'[c] = None
        /\ unpacked' \in [Clients -> Versions \cup {None}]
    BY <1>1, <2>1
  <2> QED
    BY <1>1, <1>2, <2>1, <2>3, <2>4, <2>5, CommandInv
<1>5. CASE Install(c)
  <2>1. /\ installed' = installed \/ (unpacked[c] # None /\ installed' = [installed EXCEPT ![c] = unpacked[c]])
        /\ UNCHANGED <<package, published, serverVars, wire, told, tarball, unpacked, recorded, losses>>
        /\ Works \/ Fails
        /\ Then(c, "sh", "truncate") /\ at[c] = "sh"
    BY <1>1, <1>5 DEF Install, Then
  <2>2. Undisturbed /\ Works => installed' = [installed EXCEPT ![c] = unpacked[c]]
    <3>1. ASSUME Undisturbed, Works PROVE installed' = [installed EXCEPT ![c] = unpacked[c]]
      <4>1. unpacked[c] \in Versions /\ unpacked[c] # None
        BY <1>2, <2>1, <3>1, UpdateAssumption DEF Serves
      <4>2. ~Fails
        BY <3>1 DEF Undisturbed, Works, Fails
      <4> QED
        BY <1>5, <4>1, <4>2 DEF Install
    <3> QED
      BY <3>1
  <2>3. Undisturbed /\ Works => /\ Serves(c, installed[c])'
                                /\ recorded'[c] # None => installed'[c] >= recorded'[c]
    BY <1>1, <1>2, <2>1, <2>2 DEF Serves
  <2>4. \A d \in Clients \ {c} : installed'[d] = installed[d]
    BY <1>1, <2>1
  <2>5. installed' \in [Clients -> Versions]
    BY <1>1, <2>1
  <2> QED
    BY <1>1, <1>2, <2>1, <2>3, <2>4, <2>5, CommandInv
<1>6. CASE TruncateRecord(c)
  <2>1. /\ recorded' = [recorded EXCEPT ![c] = None]
        /\ UNCHANGED <<package, published, serverVars, wire, told, tarball, unpacked,
                       installed, losses>>
        /\ Works
        /\ Then(c, "truncate", "write") /\ at[c] = "truncate"
    BY <1>6 DEF TruncateRecord, Then, Works, counters
  <2>2. /\ recorded' \in [Clients -> Versions \cup {None}] /\ recorded'[c] = None
        /\ \A d \in Clients \ {c} : recorded'[d] = recorded[d]
    BY <1>1, <2>1
  <2>3. Undisturbed => Serves(c, installed[c])'
    BY <1>2, <2>1, <2>2 DEF Serves
  <2> QED
    BY <1>1, <1>2, <2>1, <2>2, <2>3, CommandInv
<1> QED
  BY <1>3, <1>4, <1>5, <1>6

LEMMA RecordInv == ASSUME OtaInv, NEW c \in Clients, Record(c) PROVE OtaInv'
<1> USE DEF Record, counters
<1>1. at[c] = "write" /\ recorded' = [recorded EXCEPT ![c] = told[c]]
  OBVIOUS
<1>2. told[c] \in Versions /\ told[c] # None /\ told[c] <= published
  BY <1>1, UpdateAssumption DEF OtaInv, Progress, NothingAhead, Updating
<1>3. /\ recorded' \in [Clients -> Versions \cup {None}] /\ recorded'[c] = told[c]
      /\ \A d \in Clients \ {c} : recorded'[d] = recorded[d]
  BY <1>1, <1>2 DEF OtaInv, OtaTypeOK
<1>4. Undisturbed' => tarball[c] = None /\ installed[c] >= told[c]
  BY <1>1 DEF OtaInv, Progress, Undisturbed, Serves
<1>5. /\ failures' >= failures /\ losses' >= losses
      /\ {failures', losses', failures' + losses'} \subseteq 0..MaxMishaps
  BY DEF OtaInv, OtaTypeOK
<1> QED
  BY <1>2, <1>3, <1>4, <1>5, EndsInv

LEMMA PowerLossInv == ASSUME OtaInv, NEW c \in Clients, PowerLoss(c) PROVE OtaInv'
<1> USE DEF PowerLoss
<1>1. failures \in Nat /\ losses \in Nat /\ failures + losses < MaxMishaps /\ losses' = losses + 1
  BY DEF OtaInv, OtaTypeOK
<1>2. /\ failures' >= failures /\ losses' >= losses /\ losses' > 0 /\ ~Undisturbed'
      /\ {failures', losses', failures' + losses'} \subseteq 0..MaxMishaps
  BY <1>1, UpdateAssumption DEF Undisturbed
<1>3. /\ recorded' \in [Clients -> Versions \cup {None}]
      /\ recorded'[c] # None => recorded'[c] <= published
  BY DEF OtaInv, OtaTypeOK, NothingAhead
<1> QED
  BY <1>2, <1>3, EndsInv

-----------------------------------------------------------------------------
(* The theorems *)

LEMMA OtaNextInv == ASSUME OtaInv, [OtaNext]_otaVars PROVE OtaInv'
<1>1. ASSUME NEW c \in Clients, ClientStep(c) PROVE OtaInv'
  BY <1>1, ReceiveInv, UpdateInv, RecordInv DEF ClientStep
<1>2. CASE UNCHANGED otaVars
  BY <1>2 DEF otaVars, serverVars, wire, clientVars, counters, OtaInv, OtaTypeOK, Handlers,
              NothingAhead, Progress, Serves, Undisturbed
<1> QED
  BY <1>1, <1>2, PublicationInv, RestartInv, HandlerInv, AskInv, PowerLossInv DEF OtaNext

\* The types of messages, versions and places hold for ever, and a status.json is lost
\* only by a power failure in the middle of its writing.
THEOREM OtaTypes == OtaSpec => []OtaTypeOK
<1>1. OtaInv => OtaTypeOK
  BY DEF OtaInv
<1> QED
  BY <1>1, OtaInitInv, OtaNextInv, PTL DEF OtaSpec

\* However the sessions of clients cross at the server (srvrComm.c, one clntSock and one
\* tempBuff for all) and whatever is published meanwhile, a client that has recorded a
\* version has installed it or a later one, unless a command failed or power was lost.
THEOREM RecordsAreInstalled == OtaSpec => []RecordIsInstalled
<1>1. OtaInv => RecordIsInstalled
  BY DEF OtaInv, Progress, RecordIsInstalled
<1> QED
  BY <1>1, OtaInitInv, OtaNextInv, PTL DEF OtaSpec
=============================================================================
