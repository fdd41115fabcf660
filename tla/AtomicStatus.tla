---------------------------- MODULE AtomicStatus ----------------------------
(***************************************************************************)
(* What the status directory of StreamerServer promises when no two        *)
(* updates of one file overlap: a record per stream that comes into being  *)
(* with the defaults of newJsonFile (srvrJson.c:16) and then changes one   *)
(* key at a time, each change made to the current record.                  *)
(***************************************************************************)
CONSTANTS Streams,  \* stream ids; each names the file status/<id>.json
          Values,   \* strings a record may hold
          Absent    \* stands for a file that does not exist

Keys == {"streamId", "status", "action"}

Documents == UNION {[K -> Values] : K \in SUBSET Keys}

\* The record a file is created with.
Default(s) == [k \in Keys |-> CASE k = "streamId" -> s
                                [] k = "status"   -> "off"
                                [] k = "action"   -> "live"]

\* json_object_object_add: replace the value of a key, or add the key.
With(doc, key, val) ==
  [k \in DOMAIN doc \cup {key} |-> IF k = key THEN val ELSE doc[k]]

VARIABLE rec   \* rec[s]: the record of stream s, Absent before its creation

Init == rec = [s \in Streams |-> Absent]

Create(s) == /\ rec[s] = Absent
             /\ rec' = [rec EXCEPT ![s] = Default(s)]

Set(s, k, v) == /\ rec[s] # Absent
                /\ rec' = [rec EXCEPT ![s] = With(rec[s], k, v)]

Next == \E s \in Streams : \/ Create(s)
                           \/ \E k \in Keys, v \in Values : Set(s, k, v)

Spec == Init /\ [][Next]_rec
=============================================================================
