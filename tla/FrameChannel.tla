----------------------------- MODULE FrameChannel -----------------------------
(***************************************************************************)
(* What a WebSocket connection promises to the programs at its two ends:   *)
(* frames arrive in the order they were sent, each once, up to a close     *)
(* frame; an end sends one close frame at most; and a frame is lost only   *)
(* when the connection was cut or after a close.                           *)
(***************************************************************************)
EXTENDS Sequences, SequencesExt

CONSTANTS Ends, Frames

VARIABLES
  inFlight,  \* inFlight[e]: frames sent by e and not yet received
  over,      \* over[e]: nobody receives from e any more
  closing,   \* closing[e]: e has sent a close frame
  cut        \* the connection below was interrupted

channelVars == <<inFlight, over, closing, cut>>

Init ==
  /\ inFlight = [e \in Ends |-> <<>>]
  /\ over = [e \in Ends |-> FALSE]
  /\ closing = [e \in Ends |-> FALSE]
  /\ cut = FALSE

\* The frames after which the receiver stops reading.
Final(f) == f.op \in {"close", "unmasked"}

\* One frame at most is sent by e in a step, and no second close frame.
Sends(e, sent) ==
  /\ sent = <<>> \/ \E f \in Frames : sent = <<f>> /\ ~(f.op = "close" /\ closing[e])
  /\ closing' = [closing EXCEPT ![e] = @ \/ (sent # <<>> /\ sent[1].op = "close")]

\* What remains in flight from e when sent is added; a cut may swallow it.
Added(e, sent) ==
  IF over[e] THEN {<<>>} ELSE {inFlight[e] \o sent} \cup (IF cut THEN {inFlight[e]} ELSE {})

Send(e) ==
  /\ \E sent \in {<<f>> : f \in Frames} :
       /\ Sends(e, sent)
       /\ inFlight' \in {[inFlight EXCEPT ![e] = q] : q \in Added(e, sent)}
  /\ UNCHANGED <<over, cut>>

\* The other end, r, takes the oldest frame of e, and may answer.
Deliver(e, r) ==
  /\ ~over[e] /\ inFlight[e] # <<>>
  /\ LET last == Final(Head(inFlight[e])) IN
     /\ over' = [over EXCEPT ![e] = last]
     /\ \E sent \in {<<>>} \cup {<<f>> : f \in Frames} :
          /\ Sends(r, sent)
          /\ inFlight' \in {[inFlight EXCEPT ![e] = IF last THEN <<>> ELSE Tail(@),
                                             ![r] = q] : q \in Added(r, sent)}
  /\ UNCHANGED cut

\* The connection is cut: what was not yet on the wire is lost.
Cut ==
  /\ cut' = TRUE
  /\ \A e \in Ends : IsPrefix(inFlight'[e], inFlight[e])
  /\ UNCHANGED <<over, closing>>

\* The receiver of e gives up: after a cut, or when nothing more will come.
GiveUp(e) ==
  /\ cut' \/ inFlight[e] = <<>>
  /\ over' = [over EXCEPT ![e] = TRUE]
  /\ inFlight' = [inFlight EXCEPT ![e] = <<>>]
  /\ cut => cut'
  /\ UNCHANGED closing

Next ==
  \/ Cut
  \/ \E e \in Ends : Send(e) \/ GiveUp(e)
  \/ \E e \in Ends : \E r \in Ends \ {e} : Deliver(e, r)

Spec == Init /\ [][Next]_channelVars
=============================================================================
