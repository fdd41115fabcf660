------------------------------ MODULE OtaUpdate ------------------------------
(***************************************************************************)
(* Over-the-air updates: OTAClient asks OTAServer whether the version it   *)
(* has recorded is the published one, and if not downloads a package,      *)
(* unpacks it, runs its update.sh and records the version it was told.     *)
(*                                                                         *)
(* The server has a thread per connection; all use the globals clntSock    *)
(* and tempBuff.  A connection is named by its client, which runs the      *)
(* program again from time to time.  A step is one access to a socket, to  *)
(* tempBuff or to a file, or one command of the script that the client     *)
(* gives to system().                                                      *)
(***************************************************************************)
EXTENDS Naturals

CONSTANTS Clients, None,
          MaxVersion,   \* bound: versions published, 1 .. MaxVersion
          Unparsable,   \* versions whose text, put into JSON without quotes
                        \* (srvrComm.c:50), is no JSON number
          MaxMishaps    \* bound: commands of the update script that fail and times
                        \* that power is lost during an update

Versions == 1..MaxVersion

Blank        == [is |-> "blank"]
Request(v)   == [is |-> "request", version |-> v]
Updated      == [is |-> "updated"]
Available(v) == [is |-> "available", version |-> v]

Frames == {Blank, Updated} \cup {Request(v) : v \in Versions} \cup {Available(v) : v \in Versions}

ASSUME UpdateAssumption ==
  /\ {MaxVersion, MaxMishaps} \subseteq Nat /\ MaxVersion > 0
  /\ Unparsable \subseteq Versions
  /\ None \notin Versions /\ None \notin Clients /\ None \notin Frames

VARIABLES
  package,    \* the version of the package on the web server
  published,  \* "version" in status.json of the server
  up,         \* the server runs
  hand,       \* hand[c]: where the handler of c's connection is
  fd,         \* fd[c]: the descriptor it calls recv on
  open,       \* descriptors the server has open
  clntSock,   \* the global
  tempBuff,   \* the global: Blank, or a frame
  latest,     \* latest[c]: the version that SIGAvailable has read
  toServer,   \* toServer[c]: the version c reports, or None
  toClient,   \* toClient[c]: the frame sent to c, or None
  at,         \* at[c]: where the client program is; "off" when it does not run
  told,       \* told[c]: the version it was offered
  tarball,    \* tarball[c]: the version of the package in /root/update, or None
  unpacked,   \* unpacked[c]: the version of /root/update/update.sh, or None
  installed,  \* installed[c]: the version update.sh last brought
  recorded,   \* recorded[c]: "version" in its status.json, None when truncated
  failures, losses

serverVars == <<up, hand, fd, open, clntSock, tempBuff, latest>>
wire       == <<toServer, toClient>>
clientVars == <<at, told, tarball, unpacked, installed, recorded>>
counters   == <<failures, losses>>
otaVars    == <<package, published, serverVars, wire, clientVars, counters>>

OtaTypeOK ==
  /\ package \in Versions /\ published \in Versions
  /\ up \in BOOLEAN
  /\ hand \in [Clients -> {"none", "take", "call", "recv", "parse", "updated", "offer",
                         "available", "send", "close"}]
  /\ fd \in [Clients -> Clients \cup {None}]
  /\ open \subseteq Clients
  /\ clntSock \in Clients \cup {None}
  /\ toServer \in [Clients -> Versions \cup {None}]
  /\ tempBuff \in Frames
  /\ latest \in [Clients -> Versions \cup {None}]
  /\ toClient \in [Clients -> Frames \cup {None}]
  /\ at \in [Clients -> {"off", "asked", "wget", "tar", "sh", "truncate", "write"}]
  /\ {told, tarball, unpacked, recorded} \subseteq [Clients -> Versions \cup {None}]
  /\ installed \in [Clients -> Versions]
  /\ {failures, losses, failures + losses} \subseteq 0..MaxMishaps
  /\ \A c \in Clients : recorded[c] = None => at[c] = "write" \/ losses > 0

OtaInit ==
  /\ package = 1 /\ published = 1
  /\ up = TRUE
  /\ hand = [c \in Clients |-> "none"]
  /\ fd = [c \in Clients |-> None]
  /\ open = {}
  /\ clntSock = None
  /\ tempBuff = Blank
  /\ latest = [c \in Clients |-> None]
  /\ toServer = [c \in Clients |-> None]
  /\ toClient = [c \in Clients |-> None]
  /\ at = [c \in Clients |-> "off"]
  /\ told = [c \in Clients |-> None]
  /\ tarball = [c \in Clients |-> None]
  /\ unpacked = [c \in Clients |-> None]
  /\ installed = [c \in Clients |-> 1]
  /\ recorded = [c \in Clients |-> 1]
  /\ failures = 0 /\ losses = 0

----------------------------------------------------------------------------
(* Publication, by hand: first the package, then the version *)

Upload ==
  /\ package = published /\ package < MaxVersion
  /\ package' = package + 1
  /\ UNCHANGED <<published, serverVars, wire, clientVars, counters>>

Publish ==
  /\ published' = package
  /\ published # package
  /\ UNCHANGED <<package, serverVars, wire, clientVars, counters>>

----------------------------------------------------------------------------
(* The server *)

Handler(c, place) == up /\ hand[c] = place
Goto(c, place) == hand' = [hand EXCEPT ![c] = place]

\* exit(1) of receiveData, strcmp of NULL in msgParse, or SIGPIPE in sendData: all
\* connections end.
Crash ==
  /\ up' = FALSE
  /\ hand' = [c \in Clients |-> "none"]
  /\ fd' = [c \in Clients |-> None]
  /\ open' = {}
  /\ clntSock' = None
  /\ tempBuff' = Blank
  /\ latest' = [c \in Clients |-> None]
  /\ UNCHANGED wire

\* autorestartC.sh
Restart ==
  /\ ~up
  /\ up' = TRUE
  /\ UNCHANGED <<package, published, hand, fd, open, clntSock, tempBuff, latest, wire,
                 clientVars, counters>>

Rest == UNCHANGED <<package, published, clientVars, counters>>

HandleTCPClient(c) ==
  /\ Handler(c, "take")
  /\ clntSock' = c
  /\ Goto(c, "call")
  /\ UNCHANGED <<up, fd, open, tempBuff, latest, wire>> /\ Rest

\* tempBuff is cleared and recv called on clntSock.
CallRecv(c) ==
  /\ Handler(c, "call")
  /\ IF clntSock \notin open
     THEN Crash
     ELSE /\ tempBuff' = Blank
          /\ fd' = [fd EXCEPT ![c] = clntSock]
          /\ Goto(c, "recv")
          /\ UNCHANGED <<up, open, clntSock, latest, wire>>
  /\ Rest

\* The request has come, or the other end has closed, with which tempBuff is a text of
\* no bytes.
Received(c) ==
  LET k == fd[c] IN
  /\ toServer[k] # None \/ at[k] = "off"
  /\ toServer' = [toServer EXCEPT ![k] = None]
  /\ tempBuff' = IF toServer[k] = None THEN Blank ELSE Request(toServer[k])
  /\ fd' = [fd EXCEPT ![c] = None]
  /\ Goto(c, "parse")
  /\ UNCHANGED <<up, open, clntSock, latest, toClient>>

\* recv fails on a connection that a client that is gone has reset.
RecvReturns(c) ==
  /\ Handler(c, "recv")
  /\ Received(c) \/ (at[fd[c]] = "off" /\ Crash)
  /\ Rest

\* What tempBuff holds by now has an action only if it is a request.
msgParse(c) ==
  /\ Handler(c, "parse")
  /\ IF tempBuff \notin {Request(v) : v \in Versions}
     THEN Crash
     ELSE /\ Goto(c, IF tempBuff = Request(published) THEN "updated" ELSE "offer")
          /\ UNCHANGED <<up, fd, open, clntSock, tempBuff, latest, wire>>
  /\ Rest

\* SIGAvailable reads the published version once more,
ReadVersion(c) ==
  /\ Handler(c, "offer")
  /\ latest' = [latest EXCEPT ![c] = published]
  /\ Goto(c, "available")
  /\ UNCHANGED <<up, fd, open, clntSock, tempBuff, wire>> /\ Rest

\* and either function writes its answer into tempBuff.
Formats(c, answer) ==
  /\ tempBuff' = answer
  /\ latest' = [latest EXCEPT ![c] = None]
  /\ Goto(c, "send")
  /\ UNCHANGED <<up, fd, open, clntSock, wire>> /\ Rest

SIGUpdated(c) == Handler(c, "updated") /\ Formats(c, Updated)

\* Mutant: the version that was published before is offered.
OfferPrevious(c) ==
  Handler(c, "available") /\ Formats(c, Available(IF latest[c] > 1 THEN latest[c] - 1 ELSE 1))

SIGAvailable(c) == Handler(c, "available") /\ Formats(c, Available(latest[c]))

\* Whatever tempBuff holds goes to whatever clntSock is, of which a client reads one
\* answer.  A client that is gone may have reset its connection.
sendData(c) ==
  /\ Handler(c, "send")
  /\ \/ /\ toClient' = IF clntSock \in open /\ at[clntSock] = "asked" /\ toClient[clntSock] = None
                      THEN [toClient EXCEPT ![clntSock] = tempBuff]
                      ELSE toClient
        /\ Goto(c, "close")
        /\ UNCHANGED <<up, fd, open, clntSock, tempBuff, latest, toServer>>
     \/ clntSock \in open /\ at[clntSock] = "off" /\ Crash
  /\ Rest

Close(c) ==
  /\ Handler(c, "close")
  /\ open' = open \ {clntSock}
  /\ Goto(c, "none")
  /\ UNCHANGED <<up, fd, clntSock, tempBuff, latest, wire>> /\ Rest

HandlerStep(c) ==
  \/ HandleTCPClient(c) \/ CallRecv(c) \/ RecvReturns(c) \/ msgParse(c) \/ ReadVersion(c)
  \/ SIGUpdated(c) \/ SIGAvailable(c) \/ sendData(c) \/ Close(c)

----------------------------------------------------------------------------
(* A client *)

\* The program ends; its socket is closed.
Ends(c) ==
  /\ at' = [at EXCEPT ![c] = "off"]
  /\ told' = [told EXCEPT ![c] = None]
  /\ toServer' = [toServer EXCEPT ![c] = None]
  /\ toClient' = [toClient EXCEPT ![c] = None]

\* main of OTAClient: connect and send the request.  With a truncated status.json
\* there is no address to connect to.  It is run again only when the server has done
\* with its last connection.
SIGCheckUpdate(c) ==
  /\ at[c] = "off" /\ up
  /\ hand[c] = "none" /\ \A d \in Clients : fd[d] # c
  /\ recorded[c] # None
  /\ at' = [at EXCEPT ![c] = "asked"]
  /\ toServer' = [toServer EXCEPT ![c] = recorded[c]]
  /\ hand' = [hand EXCEPT ![c] = "take"]
  /\ open' = open \cup {c}
  /\ UNCHANGED <<package, published, up, fd, clntSock, tempBuff, latest, toClient, told,
                 tarball, unpacked, installed, recorded, counters>>

Offered(c) == {v \in Versions \ Unparsable : toClient[c] = Available(v)}

\* Mutant: any answer is taken for an offer.
ReceiveUnchecked(c) ==
  /\ at[c] = "asked"
  /\ \/ toClient[c] = None /\ c \notin open /\ Ends(c)
     \/ /\ toClient[c] # None
        /\ at' = [at EXCEPT ![c] = "wget"]
        /\ told' = [told EXCEPT ![c] = IF Offered(c) = {} THEN None ELSE toClient[c].version]
        /\ toClient' = [toClient EXCEPT ![c] = None]
        /\ UNCHANGED toServer
  /\ UNCHANGED <<package, published, serverVars, tarball, unpacked, installed, recorded,
                 counters>>

\* An offer starts an update.  Another frame, or the end of the connection, ends the
\* program: because all is up to date, or in strcmp of NULL when there is no status.
Receive(c) ==
  /\ at[c] = "asked"
  /\ toClient[c] # None \/ c \notin open
  /\ \/ Offered(c) = {} /\ Ends(c)
     \/ \E v \in Offered(c) :
          /\ at' = [at EXCEPT ![c] = "wget"]
          /\ told' = [told EXCEPT ![c] = v]
          /\ toClient' = [toClient EXCEPT ![c] = None]
          /\ UNCHANGED toServer
  /\ UNCHANGED <<package, published, serverVars, tarball, unpacked, installed, recorded,
                 counters>>

Then(c, place, next) == at[c] = place /\ at' = [at EXCEPT ![c] = next]

Fails == failures + losses < MaxMishaps /\ failures' = failures + 1
Works == UNCHANGED failures

\* wget: a package that an interrupted update has left is not overwritten, the new
\* one gets another name.
Download(c) ==
  /\ Then(c, "wget", "tar")
  /\ \/ Works /\ tarball' = [tarball EXCEPT ![c] = IF @ = None THEN package ELSE @]
     \/ Fails /\ UNCHANGED tarball
  /\ UNCHANGED <<package, published, serverVars, wire, told, unpacked, installed, recorded, losses>>

\* Mutant: rm comes before tar.
UnpackAfterRemoval(c) ==
  /\ Then(c, "tar", "sh")
  /\ tarball' = [tarball EXCEPT ![c] = None]
  /\ Works
  /\ UNCHANGED <<package, published, serverVars, wire, told, unpacked, installed, recorded, losses>>

\* tar and rm, over what the last update has unpacked.
Unpack(c) ==
  /\ Then(c, "tar", "sh")
  /\ \/ Works /\ unpacked' = [unpacked EXCEPT ![c] = IF tarball[c] = None THEN @ ELSE tarball[c]]
     \/ Fails /\ UNCHANGED unpacked
  /\ tarball' = [tarball EXCEPT ![c] = None]
  /\ UNCHANGED <<package, published, serverVars, wire, told, installed, recorded, losses>>

\* sh update.sh
Install(c) ==
  /\ Then(c, "sh", "truncate")
  /\ \/ Works /\ installed' = [installed EXCEPT ![c] = IF unpacked[c] = None THEN @ ELSE unpacked[c]]
     \/ Fails /\ UNCHANGED installed
  /\ UNCHANGED <<package, published, serverVars, wire, told, tarball, unpacked, recorded, losses>>

\* setJsonValue("version", ...), whatever the script has done.
TruncateRecord(c) ==
  /\ Then(c, "truncate", "write")
  /\ recorded' = [recorded EXCEPT ![c] = None]
  /\ UNCHANGED <<package, published, serverVars, wire, told, tarball, unpacked, installed,
                 counters>>

Record(c) ==
  /\ at[c] = "write"
  /\ recorded' = [recorded EXCEPT ![c] = told[c]]
  /\ Ends(c)
  /\ UNCHANGED <<package, published, serverVars, tarball, unpacked, installed, counters>>

PowerLoss(c) ==
  /\ at[c] # "off" /\ failures + losses < MaxMishaps
  /\ losses' = losses + 1
  /\ Ends(c)
  /\ UNCHANGED <<package, published, serverVars, tarball, unpacked, installed, recorded, failures>>

ClientStep(c) ==
  \/ Receive(c) \/ Download(c) \/ Unpack(c) \/ Install(c) \/ TruncateRecord(c) \/ Record(c)

OtaNext ==
  \/ Upload \/ Publish \/ Restart
  \/ \E c \in Clients : HandlerStep(c) \/ SIGCheckUpdate(c) \/ ClientStep(c) \/ PowerLoss(c)

OtaSpec == OtaInit /\ [][OtaNext]_otaVars

\* The server is restarted (autorestartC.sh), its threads and the clients run on,
\* clients are run again and again, and a publication is completed.
OtaFairness ==
  /\ WF_otaVars(Publish) /\ WF_otaVars(Restart)
  /\ \A c \in Clients : /\ WF_otaVars(HandlerStep(c))
                        /\ WF_otaVars(ClientStep(c))
                        /\ SF_otaVars(SIGCheckUpdate(c))

FairOta == OtaSpec /\ OtaFairness

----------------------------------------------------------------------------
(* Properties *)

Undisturbed == failures = 0 /\ losses = 0

\* A client that has recorded a version has installed it, or a later one whose
\* package was uploaded meanwhile, as long as no command fails and no power is lost,
\* however the sessions cross at the server: a client that records a version it has
\* not installed never asks for it again.
RecordIsInstalled ==
  \A c \in Clients : Undisturbed /\ recorded[c] # None => installed[c] >= recorded[c]

\* Another session is under way while c's is.
Crossing(c) == hand[c] # "none" /\ \E d \in Clients \ {c} : hand[d] # "none"

\* When no more versions are published, a client comes to record the last one, past
\* failed commands, lost power and earlier versions that cannot be parsed, unless it
\* has lost its status.json; and undisturbed it has also installed it.  One crossing
\* with another client's session may leave it waiting for its answer for ever.
UpToDate ==
  \A c \in Clients :
    \/ <>[](\/ package \in Unparsable
            \/ recorded[c] \in {package, None} /\ (Undisturbed => installed[c] = package))
    \/ <>Crossing(c)
=============================================================================
