--------------------------- MODULE MCStreamerSystem ---------------------------
(* StreamerSystem on small instances. *)
EXTENDS StreamerSystem


MCWorkers == Conns \cup {Player}
MCValues == Streams \cup {"off", "live", "local", "ready", "done"}
\* Every value the handlers and the player may set.
MCUpdates == ({"status"} \X (MCValues \cup {Null}))
             \cup ({"action"} \X {"live", "local", "off", "done"})
             \cup ({"streamId"} \X Streams)
=============================================================================
