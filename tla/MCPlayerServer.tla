---------------------------- MODULE MCPlayerServer ----------------------------
(* PlayerServer on small instances. *)
EXTENDS PlayerServer

\* What a device reports, and with it all that is ever stored.
MCReports  == {<<"status", "live">>}
MCValues   == Streams \cup {"off", "live"}
MCUpdates  == MCReports \cup ({"action"} \X MCValues)
MCRequests == {Request(MyStream, "status"), Request(MyStream, "off"), Malformed}
=============================================================================
