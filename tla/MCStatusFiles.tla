---------------------------- MODULE MCStatusFiles ----------------------------
(* StatusFiles on small instances. *)
EXTENDS StatusFiles, TLC

\* What handlers and the player set: a report, a command, the end of a command,
\* and the NULL status of an empty message.
MCUpdates == {<<"status", "ready">>, <<"action", "done">>, <<"status", Null>>}
\* What SIGAck sets, and no NULL: the file functions stop no server, so that what is left
\* is the exit(1) of receiveData when the recv of some handler fails (srvrComm.c:94).
AckUpdates == {<<"action", "done">>}
MCValues == Streams \cup {"off", "live", "ready", "done"}

\* The workers run the same code.
WorkerSymmetry == Permutations(Workers)
=============================================================================
