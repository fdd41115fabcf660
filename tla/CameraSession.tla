---------------------------- MODULE CameraSession ----------------------------
(***************************************************************************)
(* What a camera and StreamerServer promise each other, one camera at a    *)
(* time and none of them interrupted: a session is a dialogue in which     *)
(* every report gets exactly one answer, an order or an ACK.  A camera     *)
(* changes its mode only to obey the order that answered its last report,  *)
(* and leaves the session only on an ACK, when the server is lost, or by a *)
(* crash on an order.                                                      *)
(***************************************************************************)
CONSTANTS Cameras,
          Orders,   \* the actions an order may name
          NoOrder

VARIABLES talk,   \* talk[d]: whose turn it is, as seen from camera d
          order,  \* order[d]: the order on its way to d, or NoOrder
          mode    \* mode[d]: what the camera does

sessionVars == <<talk, order, mode>>

\* Between two sessions, or in none for ever.
Outside == {"idle", "dead"}

\* The actions a camera knows, and the mode each leads to.
ModeOf(action) == CASE action = "live"  -> "live"
                    [] action = "local" -> "local"
                    [] action = "off"   -> "ready"
Known == {"live", "local", "off"}

Init ==
  /\ talk = [d \in Cameras |-> "idle"]
  /\ order = [d \in Cameras |-> NoOrder]
  /\ mode = [d \in Cameras |-> "ready"]

Turn(d, from, to) == talk[d] = from /\ talk' = [talk EXCEPT ![d] = to]

\* One camera at a time talks to the server.
Begin(d) ==
  /\ \A e \in Cameras : talk[e] \in Outside
  /\ Turn(d, "idle", "report")
  /\ UNCHANGED <<order, mode>>

Report(d) == Turn(d, "report", "wait") /\ UNCHANGED <<order, mode>>

AnswerOrder(d, action) ==
  /\ Turn(d, "wait", "ordered")
  /\ order' = [order EXCEPT ![d] = action]
  /\ UNCHANGED mode

AnswerAck(d) == Turn(d, "wait", "acked") /\ UNCHANGED <<order, mode>>

\* An order is carried out, or fails and leaves the mode as it is; it is reported in
\* both cases.  A camera that knows it may crash on it, and hang in one for "off".
Obey(d) ==
  /\ order' = [order EXCEPT ![d] = NoOrder]
  /\ \/ /\ Turn(d, "ordered", "report")
        /\ \/ UNCHANGED mode
           \/ order[d] \in Known /\ mode' = [mode EXCEPT ![d] = ModeOf(order[d])]
     \/ order[d] \in Known /\ Turn(d, "ordered", "dead") /\ UNCHANGED mode
     \/ order[d] = "off" /\ Turn(d, "ordered", "stopping") /\ UNCHANGED mode

End(d) == Turn(d, "acked", "idle") /\ UNCHANGED <<order, mode>>

ServerLost(d) == Turn(d, "wait", "dead") /\ UNCHANGED <<order, mode>>

Next ==
  \E d \in Cameras :
    \/ Begin(d)
    \/ Report(d)
    \/ \E action \in Orders : AnswerOrder(d, action)
    \/ AnswerAck(d)
    \/ Obey(d)
    \/ End(d)
    \/ ServerLost(d)

Spec == Init /\ [][Next]_sessionVars
=============================================================================
