----------------------------- MODULE Connections -----------------------------
(***************************************************************************)
(* The TCP connections between the devices and the stream port of          *)
(* StreamerServer, as the two programs use them: send puts one 254-byte    *)
(* frame on the wire (MAXDATASIZE - 1), recv takes one, and 0 bytes mean   *)
(* that the other end has closed.                                          *)
(*                                                                         *)
(* The number of a connection stands for the descriptor accept returns for *)
(* it; it is used again once both ends have closed.                        *)
(***************************************************************************)
EXTENDS Naturals, Sequences

CONSTANTS Devices,   \* cameras; a device's name is the streamId it reports
          MaxConns   \* bound: connections that exist at a time

Conns == 1..MaxConns

VARIABLE conns  \* conns[c]: the two ends and what is on the wire, for c in use

\* The frames.  A field of a JSON frame is a field of the record, so that a frame
\* lacks the fields that getJsonValueFromObj would not find in its text.
Ack   == [text |-> "ACK"]
Blank == [text |-> ""]       \* a buffer that memset has cleared
Report(device, status) == [streamId |-> device, status |-> status]
Order(device, action)  == [streamId |-> device, action |-> action]

NewConnection(d) == [device   |-> d,
                     toServer |-> <<>>,
                     toClient |-> <<>>,
                     client   |-> "open",
                     server   |-> "backlog"]

InUse(c) == c \in DOMAIN conns

\* Numbers whose two ends are closed are free again.  (A client's end is "reset"
\* when it was closed with frames unread or is sent one after the close: recv of
\* the server then fails.)
Tidy(all) == [c \in {k \in DOMAIN all : all[k].client = "open" \/ all[k].server # "closed"}
                |-> all[c]]

\* connect(): a free number is taken, in the backlog of the listening socket.
Opened(d, c) ==
  [k \in DOMAIN conns \cup {c} |-> IF k = c THEN NewConnection(d) ELSE conns[k]]

\* send() of the client, and of the server when the descriptor is still open.
SentToServer(c, frame) == [conns EXCEPT ![c].toServer = Append(@, frame)]

SentToClient(c, frame) ==
  IF ~InUse(c) \/ conns[c].server # "open"
  THEN conns
  ELSE IF conns[c].client = "open"
  THEN [conns EXCEPT ![c].toClient = Append(@, frame)]
  ELSE [conns EXCEPT ![c].client = "reset"]

\* close() of the server's descriptor c, and the end of the whole process.
ServerClosed(c) ==
  IF InUse(c) THEN Tidy([conns EXCEPT ![c].server = "closed"]) ELSE conns

AllServerEndsClosed ==
  Tidy([c \in DOMAIN conns |-> [conns[c] EXCEPT !.server = "closed", !.toServer = <<>>]])

\* recv() of the client has taken a frame.
Received(c) == [conns EXCEPT ![c].toClient = Tail(@)]

\* close() of the client's descriptor, and the end of the device's process, where
\* all is what the connections are by then.
ClientEndClosed(conn) ==
  [conn EXCEPT !.client = IF conn.toClient = <<>> THEN "closed" ELSE "reset",
               !.toClient = <<>>]

ClientClosed(all, c) == Tidy([all EXCEPT ![c] = ClientEndClosed(@)])

AllClientEndsClosed(all, d) ==
  Tidy([c \in DOMAIN all |->
          IF all[c].device = d /\ all[c].client = "open"
          THEN ClientEndClosed(all[c])
          ELSE all[c]])
=============================================================================
