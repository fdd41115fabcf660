-------------------------- MODULE StatusFilesProofs --------------------------
(***************************************************************************)
(* What holds of StatusFiles for any number of streams, workers, values,   *)
(* alarms and kills: type correctness, the inductive invariant IInv and    *)
(* the safety properties that follow from it.                              *)
(***************************************************************************)
EXTENDS StatusFiles, TLAPS

-----------------------------------------------------------------------------
(* Documents *)

\* newJsonFile makes a document with all three keys.
LEMMA DefaultType ==
  ASSUME NEW s \in Streams
  PROVE  Default(s) \in Documents /\ DOMAIN Default(s) = Keys
<1>1. Default(s) = [k \in Keys |-> CASE k = "streamId" -> s
                                     [] k = "status"   -> "off"
                                     [] k = "action"   -> "live"]
  BY DEF Default, AS!Default, Keys
<1>2. Default(s) \in [Keys -> Values]
  BY <1>1, ConstantsAssumption DEF Keys, AS!Keys
<1> QED
  BY <1>1, <1>2 DEF Documents, AS!Documents, Keys

\* json_object_object_add of one of the keys makes a document, and a complete
\* one of a complete one.
LEMMA WithType ==
  ASSUME NEW doc \in Documents, NEW key \in Keys, NEW val \in Values
  PROVE  /\ With(doc, key, val) \in Documents
         /\ DOMAIN doc = Keys => DOMAIN With(doc, key, val) = Keys
<1> DEFINE D == DOMAIN doc \cup {key}
<1>1. PICK K \in SUBSET Keys : doc \in [K -> Values]
  BY DEF Documents, AS!Documents, Keys
<1>2. With(doc, key, val) = [k \in D |-> IF k = key THEN val ELSE doc[k]]
  BY DEF With, AS!With
<1>3. D \in SUBSET Keys
  BY <1>1
<1>4. With(doc, key, val) \in [D -> Values]
  BY <1>1, <1>2
<1>5. With(doc, key, val) \in Documents
  BY <1>3, <1>4 DEF Documents, AS!Documents, Keys
<1>6. DOMAIN doc = Keys => DOMAIN With(doc, key, val) = Keys
  BY <1>2
<1> QED
  BY <1>5, <1>6

\* A call's fields.
LEMMA CallType ==
  ASSUME NEW c \in Calls
  PROVE  /\ c.fn \in {"get", "set", "reset"}
         /\ c.key \in Keys
         /\ c.val \in Values \cup {Null}
         /\ c.file \in Streams
         /\ c.fn = "reset" => c.key = "status" /\ c.val = "off"
  BY ConstantsAssumption DEF Calls, Keys, AS!Keys

-----------------------------------------------------------------------------
(* Type correctness *)

LEMMA InitType == Init => TypeOK
  BY ConstantsAssumption
  DEF Init, TypeOK, Nobody, Idle, AllOK, Labels, Holding

LEMMA StopType ==
  ASSUME TypeOK, Stop, alarms' \in 0..MaxAlarms, deaths' \in 0..MaxDeaths
  PROVE  TypeOK'
  BY DEF TypeOK, Stop, Nobody, Idle, AllOK, Labels, Holding

LEMMA HoldType ==
  ASSUME TypeOK, NEW t \in Threads, NEW doc \in Documents,
         NEW label \in Holding, NEW isFresh \in BOOLEAN,
         op[t] # Null, Hold(t, doc, label, isFresh), UNCHANGED <<alarms, deaths>>
  PROVE  TypeOK'
<1>1. doc # Null /\ label # "idle" /\ label \in Labels
  BY ConstantsAssumption DEF Holding, Labels
<1> QED
  BY <1>1 DEF TypeOK, Hold

LEMMA ReturnType ==
  ASSUME TypeOK, NEW t \in Threads, Return(t),
         UNCHANGED <<phase, todo, alarms, deaths>>,
         disk' \in [Streams -> {Absent, Empty} \cup Documents],
         last' \in [Streams -> {Absent} \cup Documents],
         fresh' \in [Threads -> BOOLEAN],
         \A u \in Threads : fresh'[u] \/ pc'[u] \in Holding
  PROVE  TypeOK'
<1>1. "idle" \in Labels /\ "idle" \notin Holding
  BY DEF Holding, Labels
<1> QED
  BY <1>1 DEF TypeOK, Return

LEMMA CallTypeOK ==
  ASSUME TypeOK, NEW t \in Threads, NEW fn, NEW key, NEW val, NEW file,
         [fn |-> fn, key |-> key, val |-> val, file |-> file] \in Calls,
         Call(t, fn, key, val, file),
         UNCHANGED <<phase, alarms, deaths>>, todo' \in SUBSET Streams
  PROVE  TypeOK'
<1>1. /\ "read" \in Labels /\ "read" \notin Holding /\ "read" # "idle"
      /\ "idle" \notin Holding
  BY DEF Holding, Labels
<1>2. Null \notin Calls
  BY ConstantsAssumption
<1> QED
  BY <1>1, <1>2 DEF TypeOK, Call

\* The continuation of a read keeps the types.
LEMMA ProceedType ==
  ASSUME TypeOK, NEW t \in Threads, NEW doc \in Documents,
         pc[t] \in {"read", "reread"}, Proceed(t, doc),
         UNCHANGED <<alarms, deaths>>
  PROVE  TypeOK'
<1>1. op[t] \in Calls /\ op[t] # Null
  BY DEF TypeOK
<1>2. CASE Return(t) /\ UNCHANGED <<disk, last, fresh, phase, todo>>
  <2>1. \A u \in Threads : fresh'[u] \/ pc'[u] \in Holding
    BY <1>2 DEF TypeOK, Return, Holding
  <2> QED
    BY <1>2, <2>1, ReturnType DEF TypeOK
<1>3. CASE Hold(t, With(doc, "action", "off"), "truncate", TRUE)
  <2>1. With(doc, "action", "off") \in Documents
    BY WithType, ConstantsAssumption DEF Keys, AS!Keys
  <2> QED
    BY <1>1, <1>3, <2>1, HoldType DEF Holding
<1>4. CASE op[t].val # Null /\ Hold(t, With(doc, op[t].key, op[t].val), "truncate", TRUE)
  <2>1. With(doc, op[t].key, op[t].val) \in Documents
    BY <1>1, <1>4, WithType, CallType
  <2> QED
    BY <1>1, <1>4, <2>1, HoldType DEF Holding
<1>5. CASE Stop
  BY <1>5, StopType DEF TypeOK
<1> QED
  BY <1>2, <1>3, <1>4, <1>5 DEF Proceed

\* One file access keeps the types.
LEMMA FileStepType ==
  ASSUME TypeOK, NEW t \in Threads, FileStep(t)
  PROVE  TypeOK'
<1> DEFINE f == op[t].file
<1>1. op[t] # Null => op[t] \in Calls /\ f \in Streams
  BY CallType DEF TypeOK
<1>2. pc[t] # "idle" <=> op[t] # Null
  BY DEF TypeOK
<1>3. CASE ReadFile(t)
  <2>1. op[t] # Null
    BY <1>2, <1>3 DEF ReadFile
  <2>2. CASE Unreadable(f)
    BY <1>1, <1>3, <2>1, <2>2, DefaultType, HoldType DEF ReadFile, Holding, FileStep
  <2>3. CASE ~Unreadable(f)
    <3>1. disk[f] \in Documents
      BY <1>1, <2>1, <2>3 DEF Unreadable, TypeOK
    <3> QED
      BY <1>3, <2>3, <3>1, ProceedType DEF ReadFile, FileStep
  <2> QED
    BY <2>2, <2>3
<1>4. CASE ReadEntry(t)
  <2>1. op[t] # Null
    BY <1>2, <1>4 DEF ReadEntry
  <2>2. CASE Unreadable(f)
    BY <1>4, <2>2, StopType DEF ReadEntry, FileStep, TypeOK
  <2>3. CASE ~Unreadable(f)
    <3>1. disk[f] \in Documents
      BY <1>1, <2>1, <2>3 DEF Unreadable, TypeOK
    <3> QED
      BY <1>4, <2>3, <3>1, ProceedType DEF ReadEntry, FileStep
  <2> QED
    BY <2>2, <2>3
<1>5. CASE ReadAgain(t)
  <2>1. op[t] # Null
    BY <1>2, <1>5 DEF ReadAgain
  <2>2. CASE Unreadable(f)
    BY <1>5, <2>2, StopType DEF ReadAgain, FileStep, TypeOK
  <2>3. CASE ~Unreadable(f)
    <3>1. disk[f] \in Documents
      BY <1>1, <2>1, <2>3 DEF Unreadable, TypeOK
    <3> QED
      BY <1>5, <2>3, <3>1, ProceedType DEF ReadAgain, FileStep
  <2> QED
    BY <2>2, <2>3
<1>6. CASE Truncate(t)
  BY <1>1, <1>2, <1>6 DEF Truncate, TypeOK, FileStep, Holding, Labels
<1>7. CASE WriteNew(t)
  <2>1. buf[t] \in Documents /\ op[t] # Null
    BY <1>2, <1>7 DEF WriteNew, TypeOK, Holding
  <2>2. \A u \in Threads : fresh'[u] \in BOOLEAN /\ (fresh'[u] \/ pc'[u] \in Holding)
    BY <1>7 DEF WriteNew, Store, TypeOK, Holding
  <2>3. fresh' \in [Threads -> BOOLEAN]
    BY <1>7, <2>2 DEF WriteNew, Store
  <2>4. disk' \in [Streams -> {Absent, Empty} \cup Documents]
    BY <1>1, <1>7, <2>1 DEF WriteNew, Store, TypeOK
  <2>5. last' \in [Streams -> {Absent} \cup Documents]
    BY <1>1, <1>7, <2>1 DEF WriteNew, Store, TypeOK
  <2> QED
    BY <1>7, <2>2, <2>3, <2>4, <2>5 DEF WriteNew, Store, TypeOK, FileStep, Holding, Labels
<1>8. CASE WriteFile(t)
  <2>1. buf[t] \in Documents /\ op[t] # Null
    BY <1>2, <1>8 DEF WriteFile, TypeOK, Holding
  <2>2. \A u \in Threads : fresh'[u] \in BOOLEAN /\ (fresh'[u] \/ pc'[u] \in Holding)
    BY <1>8 DEF WriteFile, Store, Return, TypeOK, Holding
  <2>3. fresh' \in [Threads -> BOOLEAN]
    BY <1>8, <2>2 DEF WriteFile, Store
  <2>4. disk' \in [Streams -> {Absent, Empty} \cup Documents]
    BY <1>1, <1>8, <2>1 DEF WriteFile, Store, TypeOK
  <2>5. last' \in [Streams -> {Absent} \cup Documents]
    BY <1>1, <1>8, <2>1 DEF WriteFile, Store, TypeOK
  <2> QED
    BY <1>8, <2>2, <2>3, <2>4, <2>5, ReturnType DEF WriteFile, Store, FileStep
<1> QED
  BY <1>3, <1>4, <1>5, <1>6, <1>7, <1>8 DEF FileStep

LEMMA NextEntryType == ASSUME TypeOK, NextEntry PROVE TypeOK'
<1>1. PICK s \in todo :
        /\ todo' = todo \ {s}
        /\ IF disk[s] = Absent
           THEN pc[Main] = "idle" /\ UNCHANGED storeVars
           ELSE Call(Main, "reset", "status", "off", s)
        /\ UNCHANGED <<phase, alarms, deaths>>
  BY DEF NextEntry
<1>2. Main \in Threads /\ s \in Streams /\ todo' \in SUBSET Streams
  BY <1>1 DEF Threads, TypeOK
<1>3. CASE UNCHANGED storeVars
  BY <1>1, <1>2, <1>3 DEF TypeOK, storeVars
<1>4. CASE Call(Main, "reset", "status", "off", s)
  <2>1. [fn |-> "reset", key |-> "status", val |-> "off", file |-> s] \in Calls
    BY <1>2 DEF Calls
  <2> QED
    BY <1>1, <1>2, <1>4, <2>1, CallTypeOK
<1> QED
  BY <1>1, <1>3, <1>4

LEMMA NextType == ASSUME TypeOK, [Next]_vars PROVE TypeOK'
<1>1. CASE Boot
  BY <1>1 DEF Boot, OpenDirectory, TypeOK, storeVars
<1>2. CASE Alarm
  <2>1. alarms' \in 0..MaxAlarms
    BY <1>2, ConstantsAssumption DEF Alarm, TypeOK
  <2> QED
    BY <1>2, <2>1 DEF Alarm, OpenDirectory, TypeOK, storeVars
<1>3. CASE Die
  <2>1. deaths' \in 0..MaxDeaths
    BY <1>3, ConstantsAssumption DEF Die, TypeOK
  <2> QED
    BY <1>3, <2>1, StopType DEF Die, TypeOK
<1>10. CASE Exit
  BY <1>10, StopType DEF Exit, TypeOK
<1>4. CASE NextEntry
  BY <1>4, NextEntryType
<1>5. CASE BootDone
  BY <1>5 DEF BootDone, TypeOK, storeVars
<1>6. CASE \E t \in Threads : FileStep(t)
  BY <1>6, FileStepType
<1>7. ASSUME NEW t \in Workers, CallGet(t) PROVE TypeOK'
  <2>1. PICK key \in {"status", "action"}, s \in Streams : Call(t, "get", key, Null, s)
    BY <1>7 DEF CallGet
  <2>2. [fn |-> "get", key |-> key, val |-> Null, file |-> s] \in Calls
    BY DEF Calls
  <2> QED
    BY <1>7, <2>1, <2>2, CallTypeOK DEF CallGet, Threads, TypeOK
<1>8. ASSUME NEW t \in Workers, CallSet(t) PROVE TypeOK'
  <2>1. PICK u \in Updates, s \in Streams : Call(t, "set", u[1], u[2], s)
    BY <1>8 DEF CallSet
  <2>2. u[1] \in Keys /\ u[2] \in Values \cup {Null}
    BY ConstantsAssumption
  <2>3. [fn |-> "set", key |-> u[1], val |-> u[2], file |-> s] \in Calls
    BY <2>2 DEF Calls
  <2> QED
    BY <1>8, <2>1, <2>3, CallTypeOK DEF CallSet, Threads, TypeOK
<1>9. CASE UNCHANGED vars
  BY <1>9 DEF TypeOK, vars
<1> QED
  BY <1>1, <1>2, <1>3, <1>4, <1>5, <1>6, <1>7, <1>8, <1>9, <1>10 DEF Next, MainStep, Threads

\* The types of the files, the calls and the process hold for ever.
THEOREM TypeCorrect == Spec => []TypeOK
<1>1. Init => TypeOK
  BY InitType
<1>2. TypeOK /\ [Next]_vars => TypeOK'
  BY NextType
<1> QED
  BY <1>1, <1>2, PTL DEF Spec

-----------------------------------------------------------------------------
(* The inductive invariant *)

\* A file that can be read holds the last document written, with all keys; a
\* file that does not exist was never written.
DiskHistory ==
  \A s \in Streams :
    /\ disk[s] \in Documents => last[s] = disk[s] /\ DOMAIN disk[s] = Keys
    /\ disk[s] = Absent => last[s] = Absent

\* trigger and the later steps of a call work on a file that exists.
FileThere ==
  \A t \in Threads :
    op[t] # Null /\ (op[t].fn = "reset" \/ pc[t] \notin {"read", "newTruncate"})
      => disk[op[t].file] # Absent

\* What a call is going to write, and how it relates to the last document as
\* long as nobody has overtaken the call.
Held ==
  \A t \in Threads :
    /\ pc[t] \in Holding => DOMAIN buf[t] = Keys
    /\ pc[t] \in {"newTruncate", "newWrite"} =>
         /\ buf[t] = Default(op[t].file)
         /\ fresh[t] => last[op[t].file] = Absent
    /\ pc[t] \in {"truncate", "write"} /\ fresh[t] =>
         /\ last[op[t].file] \in Documents
         /\ \E key \in Keys, val \in Values :
              buf[t] = With(last[op[t].file], key, val)

\* No call survives the process, and at start-up only trigger runs.
Quiet ==
  /\ phase = "down" => todo = {} /\ \A t \in Threads : op[t] = Null
  /\ phase = "boot" => \A t \in Workers : op[t] = Null

\* Whose fault an empty file is: an earlier crash, before trigger has met the
\* file, or a call that is about to write it.
TornExplained ==
  \A s \in Streams : disk[s] = Empty =>
    /\ phase = "boot" =>
         s \in todo \/ (op[Main] # Null /\ op[Main].file = s)
    /\ phase = "serving" =>
         \E t \in Threads : pc[t] \in Torn /\ op[t].file = s

IInv == TypeOK /\ DiskHistory /\ FileThere /\ Held /\ Quiet /\ TornExplained

LEMMA InitInv == Init => IInv
<1> SUFFICES ASSUME Init PROVE IInv
  OBVIOUS
<1>1. TypeOK
  BY InitType
<1>2. \A s \in Streams : disk[s] = Absent /\ disk[s] # Empty /\ disk[s] \notin Documents
  BY ConstantsAssumption DEF Init
<1> QED
  BY <1>1, <1>2
  DEF Init, IInv, DiskHistory, FileThere, Held, Quiet, TornExplained, Nobody, Idle, Holding

LEMMA StopInv ==
  ASSUME IInv, Stop, TypeOK'
  PROVE  IInv'
<1>1. phase' = "down" /\ todo' = {} /\ UNCHANGED <<disk, last>>
  BY DEF Stop
<1>2. \A t \in Threads : op'[t] = Null /\ pc'[t] = "idle"
  BY DEF Stop, Nobody, Idle
<1>3. DiskHistory'
  BY <1>1 DEF IInv, DiskHistory
<1>4. FileThere' /\ Held'
  BY <1>2 DEF FileThere, Held, Holding
<1>5. Quiet' /\ TornExplained'
  BY <1>1, <1>2 DEF Quiet, TornExplained
<1> QED
  BY <1>3, <1>4, <1>5 DEF IInv

\* Entering a function changes nothing but the register.
LEMMA CallInv ==
  ASSUME IInv, TypeOK', NEW t \in Threads, NEW fn, NEW key, NEW val, NEW s \in Streams,
         [fn |-> fn, key |-> key, val |-> val, file |-> s] \in Calls,
         Call(t, fn, key, val, s), phase' = phase,
         fn = "reset" => disk[s] # Absent,
         \/ phase = "serving"
         \/ phase = "boot" /\ t = Main /\ todo' = todo \ {s}
  PROVE  IInv'
<1>1. /\ op' = [op EXCEPT ![t] = [fn |-> fn, key |-> key, val |-> val, file |-> s]]
      /\ pc' = [pc EXCEPT ![t] = "read"]
      /\ UNCHANGED <<disk, last, buf, fresh>>
      /\ pc[t] = "idle" /\ op[t] = Null
  BY DEF Call, IInv, TypeOK
<1>2. \A u \in Threads : u # t => op'[u] = op[u] /\ pc'[u] = pc[u]
  BY <1>1 DEF IInv, TypeOK
<1>3. /\ op'[t] = [fn |-> fn, key |-> key, val |-> val, file |-> s]
      /\ op'[t].fn = fn /\ op'[t].file = s
      /\ op'[t] # Null /\ pc'[t] = "read"
  BY <1>1, ConstantsAssumption DEF IInv, TypeOK
<1>4. DiskHistory'
  BY <1>1 DEF IInv, DiskHistory
<1>5. FileThere'
  BY <1>1, <1>2, <1>3 DEF IInv, FileThere
<1>6. Held'
  BY <1>1, <1>2, <1>3 DEF IInv, Held, Holding
<1>7. Quiet'
  BY <1>2, ConstantsAssumption DEF IInv, Quiet, Threads
<1>8. TornExplained'
  <2> SUFFICES ASSUME NEW r \in Streams, disk'[r] = Empty PROVE TornExplained!(r)!2'
    BY DEF TornExplained
  <2> QED
    BY <1>1, <1>2, <1>3 DEF IInv, TornExplained, Torn, Threads
<1> QED
  BY <1>4, <1>5, <1>6, <1>7, <1>8 DEF IInv

\* A call that holds a new document: newJsonFile's, or the one just read with
\* one key changed.
LEMMA HoldInv ==
  ASSUME IInv, TypeOK', NEW t \in Threads, NEW doc \in Documents, NEW label,
         NEW isFresh \in BOOLEAN,
         pc[t] \in {"read", "reread"}, Hold(t, doc, label, isFresh),
         DOMAIN doc = Keys,
         \/ /\ label = "newTruncate"
            /\ op[t].fn # "reset"
            /\ doc = Default(op[t].file)
            /\ isFresh => last[op[t].file] = Absent
         \/ /\ label = "truncate"
            /\ disk[op[t].file] # Absent
            /\ last[op[t].file] \in Documents
            /\ \E key \in Keys, val \in Values : doc = With(last[op[t].file], key, val)
  PROVE  IInv'
<1>1. UNCHANGED <<disk, last, op, phase, todo>>
  BY DEF Hold
<1>2. \A u \in Threads : u # t =>
        buf'[u] = buf[u] /\ pc'[u] = pc[u] /\ fresh'[u] = fresh[u]
  BY DEF Hold, IInv, TypeOK
<1>3. buf'[t] = doc /\ pc'[t] = label /\ fresh'[t] = isFresh
  BY DEF Hold, IInv, TypeOK
<1>4. DiskHistory'
  BY <1>1 DEF IInv, DiskHistory
<1>5. FileThere'
  BY <1>1, <1>2, <1>3 DEF IInv, FileThere
<1>6. Held'
  BY <1>1, <1>2, <1>3 DEF IInv, Held
<1>7. Quiet'
  BY <1>1 DEF IInv, Quiet
<1>8. TornExplained'
  BY <1>1, <1>2 DEF IInv, TornExplained, Torn
<1> QED
  BY <1>4, <1>5, <1>6, <1>7, <1>8 DEF IInv

\* A read that ends the call leaves everything else as it was.
LEMMA ReadReturnInv ==
  ASSUME IInv, TypeOK', NEW t \in Threads, op[t] # Null,
         pc[t] \in {"read", "reread"}, disk[op[t].file] # Empty,
         Return(t), UNCHANGED <<disk, last, fresh, phase, todo>>
  PROVE  IInv'
<1>1. \A u \in Threads : u # t => op'[u] = op[u] /\ buf'[u] = buf[u] /\ pc'[u] = pc[u]
  BY DEF Return, IInv, TypeOK
<1>2. op'[t] = Null /\ pc'[t] = "idle"
  BY DEF Return, IInv, TypeOK
<1>3. DiskHistory'
  BY DEF IInv, DiskHistory
<1>4. FileThere'
  BY <1>1, <1>2 DEF IInv, FileThere
<1>5. Held'
  BY <1>1, <1>2 DEF IInv, Held, Holding
<1>6. Quiet'
  BY <1>1, <1>2 DEF IInv, Quiet, Threads
<1>7. TornExplained'
  BY <1>1, <1>2 DEF IInv, TornExplained, Torn, Threads
<1> QED
  BY <1>3, <1>4, <1>5, <1>6, <1>7 DEF IInv

\* The continuation of a successful read.
LEMMA ProceedInv ==
  ASSUME IInv, TypeOK', NEW t \in Threads, op[t] # Null,
         pc[t] \in {"read", "reread"}, ~Unreadable(op[t].file),
         Proceed(t, disk[op[t].file])
  PROVE  IInv'
<1> DEFINE f == op[t].file
           doc == disk[f]
<1>1. op[t] \in Calls /\ f \in Streams
  BY CallType DEF IInv, TypeOK
<1>2. /\ doc \in Documents /\ doc # Absent /\ doc # Empty
      /\ last[f] = doc /\ DOMAIN doc = Keys
  BY <1>1 DEF IInv, TypeOK, Unreadable, DiskHistory
<1>3. CASE Return(t) /\ UNCHANGED <<disk, last, fresh, phase, todo>>
  BY <1>2, <1>3, ReadReturnInv
<1>4. ASSUME NEW key \in Keys, NEW val \in Values,
             Hold(t, With(doc, key, val), "truncate", TRUE)
      PROVE  IInv'
  <2>1. With(doc, key, val) \in Documents /\ DOMAIN With(doc, key, val) = Keys
    BY <1>2, WithType
  <2> QED
    BY <1>2, <1>4, <2>1, HoldInv
<1>5. "action" \in Keys /\ "off" \in Values
  BY ConstantsAssumption DEF Keys, AS!Keys
<1>6. op[t].key \in Keys /\ op[t].val \in Values \cup {Null}
  BY <1>1, CallType
<1>7. CASE Stop
  BY <1>7, StopInv
<1> QED
  BY <1>3, <1>4, <1>5, <1>6, <1>7 DEF Proceed

\* A document reaches its file.  The witnesses of other empty files stay.
LEMMA StoreInv ==
  ASSUME IInv, TypeOK', NEW t \in Threads, pc[t] \in Torn, Store(t),
         \/ pc[t] = "newWrite" /\ pc' = [pc EXCEPT ![t] = "reread"] /\ op' = op
         \/ pc' = [pc EXCEPT ![t] = "idle"] /\ op' = [op EXCEPT ![t] = Null],
         buf' = [buf EXCEPT ![t] = Null]
  PROVE  IInv'
<1> DEFINE f == op[t].file
<1>1. op[t] # Null /\ f \in Streams
  BY CallType DEF IInv, TypeOK, Torn
<1>2. buf[t] \in Documents /\ DOMAIN buf[t] = Keys
  BY DEF IInv, TypeOK, Held, Torn, Holding
<1>3. /\ disk'[f] = buf[t] /\ last'[f] = buf[t]
      /\ buf[t] # Absent /\ buf[t] # Empty
  BY <1>1, <1>2, ConstantsAssumption DEF Store, IInv, TypeOK
<1>4. \A s \in Streams : s # f => disk'[s] = disk[s] /\ last'[s] = last[s]
  BY DEF Store, IInv, TypeOK
<1>5. \A u \in Threads : u # t => op'[u] = op[u] /\ pc'[u] = pc[u] /\ buf'[u] = buf[u]
  BY DEF IInv, TypeOK
<1>6. \/ op'[t] = Null /\ pc'[t] = "idle"
      \/ op'[t] = op[t] /\ pc'[t] = "reread"
  BY DEF IInv, TypeOK
<1>7. \A u \in Threads : u # t /\ fresh'[u] =>
        fresh[u] /\ (pc[u] \in Holding => op[u].file # f)
  BY DEF Store
<1>8. \A u \in Threads : op[u] # Null => op[u].file \in Streams
  BY CallType DEF IInv, TypeOK
<1>9. DiskHistory'
  BY <1>2, <1>3, <1>4 DEF IInv, DiskHistory
<1>10. FileThere'
  BY <1>1, <1>3, <1>4, <1>5, <1>6, <1>8 DEF IInv, FileThere
<1>11. Held'
  <2> SUFFICES ASSUME NEW u \in Threads PROVE Held!(u)'
    BY DEF Held
  <2>1. CASE u = t
    BY <1>6, <2>1 DEF Holding
  <2>2. CASE u # t
    <3>1. pc[u] \in Holding => op[u] # Null
      BY DEF IInv, TypeOK, Holding
    <3>2. Held!(u)
      BY DEF IInv, Held
    <3>3. fresh'[u] /\ pc[u] \in Holding =>
            fresh[u] /\ last'[op'[u].file] = last[op[u].file]
      BY <1>4, <1>5, <1>7, <1>8, <2>2, <3>1
    <3> QED
      BY <1>5, <2>2, <3>2, <3>3 DEF Holding
  <2> QED
    BY <2>1, <2>2
<1>12. Quiet'
  BY <1>5, <1>6 DEF Store, IInv, Quiet, Threads
<1>13. TornExplained'
  <2> SUFFICES ASSUME NEW r \in Streams, disk'[r] = Empty PROVE TornExplained!(r)!2'
    BY DEF TornExplained
  <2>1. r # f /\ disk[r] = Empty
    BY <1>3, <1>4
  <2>2. phase' = phase /\ todo' = todo
    BY DEF Store
  <2>3. TornExplained!(r)!2
    BY <2>1 DEF IInv, TornExplained
  <2>4. Main \in Threads
    BY DEF Threads
  <2> QED
    BY <1>5, <1>6, <2>1, <2>2, <2>3, <2>4
<1> QED
  BY <1>9, <1>10, <1>11, <1>12, <1>13 DEF IInv

\* A file is opened with O_TRUNC: from here on it is empty, and its writer known.
LEMMA TruncateInv ==
  ASSUME IInv, TypeOK', NEW t \in Threads, Truncate(t)
  PROVE  IInv'
<1> DEFINE f == op[t].file
<1>1. op[t] # Null /\ f \in Streams /\ op' = op
  BY CallType DEF IInv, TypeOK, Truncate
<1>2. disk'[f] = Empty /\ \A s \in Streams : s # f => disk'[s] = disk[s]
  BY <1>1 DEF IInv, TypeOK, Truncate
<1>3. Empty # Absent /\ Empty \notin Documents
  BY ConstantsAssumption
<1>4. UNCHANGED <<last, buf, fresh, phase, todo>>
  BY DEF Truncate
<1>5. \A u \in Threads : u # t => pc'[u] = pc[u]
  BY DEF IInv, TypeOK, Truncate
<1>6. \/ pc[t] = "truncate" /\ pc'[t] = "write"
      \/ pc[t] = "newTruncate" /\ pc'[t] = "newWrite"
  BY DEF IInv, TypeOK, Truncate
<1>7. \A u \in Threads : op[u] # Null => op[u].file \in Streams
  BY CallType DEF IInv, TypeOK
<1>8. DiskHistory'
  BY <1>2, <1>3, <1>4 DEF IInv, DiskHistory
<1>9. FileThere'
  BY <1>1, <1>2, <1>3, <1>5, <1>6, <1>7 DEF IInv, FileThere
<1>10. Held'
  <2> SUFFICES ASSUME NEW u \in Threads PROVE Held!(u)'
    BY DEF Held
  <2>1. Held!(u)
    BY DEF IInv, Held
  <2>2. CASE u = t
    BY <1>1, <1>4, <1>6, <2>1, <2>2 DEF Holding
  <2>3. CASE u # t
    BY <1>1, <1>4, <1>5, <2>1, <2>3
  <2> QED
    BY <2>2, <2>3
<1>11. Quiet'
  BY <1>1, <1>4 DEF IInv, Quiet
<1>12. TornExplained'
  <2> SUFFICES ASSUME NEW r \in Streams, disk'[r] = Empty PROVE TornExplained!(r)!2'
    BY DEF TornExplained
  <2>1. CASE r = f
    <3>1. phase # "down"
      BY <1>1 DEF IInv, Quiet
    <3>2. phase = "boot" => t = Main
      BY <1>1 DEF IInv, Quiet, Threads
    <3> QED
      BY <1>1, <1>4, <1>6, <2>1, <3>1, <3>2 DEF Torn
  <2>2. CASE r # f
    <3>1. TornExplained!(r)!2
      BY <1>2, <2>2 DEF IInv, TornExplained
    <3> QED
      BY <1>1, <1>4, <1>5, <1>6, <3>1 DEF Torn
  <2> QED
    BY <2>1, <2>2
<1> QED
  BY <1>8, <1>9, <1>10, <1>11, <1>12 DEF IInv

LEMMA FileStepInv ==
  ASSUME IInv, NEW t \in Threads, FileStep(t)
  PROVE  IInv'
<1> DEFINE f == op[t].file
<1>1. TypeOK'
  BY FileStepType DEF IInv
<1>2. pc[t] # "idle" /\ op[t] # Null /\ op[t] \in Calls /\ f \in Streams
  BY CallType DEF FileStep, ReadFile, ReadEntry, ReadAgain, Truncate, WriteNew, WriteFile,
     IInv, TypeOK
<1>3. CASE ReadFile(t)
  <2>1. CASE Unreadable(f)
    <3>1. disk[f] = Absent => last[f] = Absent
      BY <1>2 DEF IInv, DiskHistory
    <3>2. op[t].fn # "reset"
      BY <1>3 DEF ReadFile
    <3>3. Default(f) \in Documents /\ DOMAIN Default(f) = Keys
      BY <1>2, DefaultType
    <3>4. Hold(t, Default(f), "newTruncate", disk[f] = Absent)
      BY <1>3, <2>1 DEF ReadFile
    <3>5. pc[t] = "read" /\ (disk[f] = Absent) \in BOOLEAN
      BY <1>3 DEF ReadFile
    <3> QED
      BY <1>1, <3>1, <3>2, <3>3, <3>4, <3>5, HoldInv
  <2>2. CASE ~Unreadable(f)
    BY <1>1, <1>2, <1>3, <2>2, ProceedInv DEF ReadFile
  <2> QED
    BY <2>1, <2>2
<1>4. CASE ReadEntry(t)
  BY <1>1, <1>2, <1>4, StopInv, ProceedInv DEF ReadEntry
<1>5. CASE ReadAgain(t)
  BY <1>1, <1>2, <1>5, StopInv, ProceedInv DEF ReadAgain
<1>6. CASE Truncate(t)
  BY <1>1, <1>6, TruncateInv
<1>7. CASE WriteNew(t)
  BY <1>1, <1>7, StoreInv DEF WriteNew, Torn
<1>8. CASE WriteFile(t)
  BY <1>1, <1>8, StoreInv DEF WriteFile, Return, Torn
<1> QED
  BY <1>3, <1>4, <1>5, <1>6, <1>7, <1>8 DEF FileStep

LEMMA NextEntryInv == ASSUME IInv, NextEntry PROVE IInv'
<1>1. PICK s \in todo :
        /\ todo' = todo \ {s}
        /\ IF disk[s] = Absent
           THEN pc[Main] = "idle" /\ UNCHANGED storeVars
           ELSE Call(Main, "reset", "status", "off", s)
        /\ UNCHANGED <<phase, alarms, deaths>>
  BY DEF NextEntry
<1>2. Main \in Threads /\ s \in Streams /\ TypeOK'
  BY <1>1, NextEntryType DEF Threads, IInv, TypeOK
<1>3. phase \in {"boot", "serving"}
  BY <1>1 DEF IInv, TypeOK, Quiet
<1>4. CASE disk[s] = Absent
  <2>1. UNCHANGED storeVars /\ phase' = phase /\ Absent # Empty
    BY <1>1, <1>4, ConstantsAssumption
  <2>2. DiskHistory' /\ FileThere' /\ Held' /\ Quiet'
    BY <1>3, <2>1 DEF IInv, DiskHistory, FileThere, Held, Quiet, storeVars
  <2>3. TornExplained'
    BY <1>1, <1>4, <2>1 DEF IInv, TornExplained, storeVars
  <2> QED
    BY <1>2, <2>2, <2>3 DEF IInv
<1>5. CASE disk[s] # Absent
  <2>1. [fn |-> "reset", key |-> "status", val |-> "off", file |-> s] \in Calls
    BY <1>2 DEF Calls
  <2> QED
    BY <1>1, <1>2, <1>3, <1>5, <2>1, CallInv
<1> QED
  BY <1>4, <1>5

\* IInv is inductive.
LEMMA NextInv == ASSUME IInv, [Next]_vars PROVE IInv'
<1>1. TypeOK'
  BY NextType DEF IInv
<1>2. CASE Boot
  <2>1. UNCHANGED storeVars /\ phase = "down" /\ phase' = "boot" /\ Exists \subseteq todo'
    BY <1>2 DEF Boot, OpenDirectory
  <2>2. \A t \in Threads : op[t] = Null
    BY <2>1 DEF IInv, Quiet
  <2>3. DiskHistory' /\ FileThere' /\ Held' /\ Quiet'
    BY <2>1, <2>2 DEF IInv, DiskHistory, FileThere, Held, Quiet, storeVars, Threads
  <2>4. TornExplained'
    BY <2>1, ConstantsAssumption DEF TornExplained, storeVars, Exists
  <2> QED
    BY <1>1, <2>3, <2>4 DEF IInv
<1>3. CASE Alarm
  <2>1. UNCHANGED storeVars /\ phase = "serving" /\ phase' = phase
    BY <1>3 DEF Alarm
  <2>2. DiskHistory' /\ FileThere' /\ Held' /\ Quiet' /\ TornExplained'
    BY <2>1 DEF IInv, DiskHistory, FileThere, Held, Quiet, TornExplained, storeVars
  <2> QED
    BY <1>1, <2>2 DEF IInv
<1>4. CASE Die
  BY <1>1, <1>4, StopInv DEF Die
<1>11. CASE Exit
  BY <1>1, <1>11, StopInv DEF Exit
<1>5. CASE NextEntry
  BY <1>5, NextEntryInv
<1>6. CASE BootDone
  <2>1. UNCHANGED storeVars /\ phase = "boot" /\ phase' = "serving" /\ todo = {} /\ todo' = todo
    BY <1>6 DEF BootDone
  <2>2. op[Main] = Null
    BY <1>6 DEF BootDone, IInv, TypeOK, Threads
  <2>3. \A s \in Streams : disk[s] # Empty
    BY <2>1, <2>2 DEF IInv, TornExplained
  <2>4. DiskHistory' /\ FileThere' /\ Held' /\ Quiet' /\ TornExplained'
    BY <2>1, <2>3 DEF IInv, DiskHistory, FileThere, Held, Quiet, TornExplained, storeVars
  <2> QED
    BY <1>1, <2>4 DEF IInv
<1>7. CASE \E t \in Threads : FileStep(t)
  BY <1>7, FileStepInv
<1>8. ASSUME NEW t \in Workers, CallGet(t) PROVE IInv'
  <2>1. PICK key \in {"status", "action"}, s \in Streams : Call(t, "get", key, Null, s)
    BY <1>8 DEF CallGet
  <2>2. [fn |-> "get", key |-> key, val |-> Null, file |-> s] \in Calls
    BY DEF Calls
  <2>3. phase = "serving" /\ phase' = phase /\ t \in Threads
    BY <1>8 DEF CallGet, Threads
  <2> QED
    BY <1>1, <2>1, <2>2, <2>3, CallInv
<1>9. ASSUME NEW t \in Workers, CallSet(t) PROVE IInv'
  <2>1. PICK u \in Updates, s \in Streams : Call(t, "set", u[1], u[2], s)
    BY <1>9 DEF CallSet
  <2>2. u[1] \in Keys /\ u[2] \in Values \cup {Null}
    BY ConstantsAssumption
  <2>3. [fn |-> "set", key |-> u[1], val |-> u[2], file |-> s] \in Calls
    BY <2>2 DEF Calls
  <2>4. phase = "serving" /\ phase' = phase /\ t \in Threads
    BY <1>9 DEF CallSet, Threads
  <2> QED
    BY <1>1, <2>1, <2>3, <2>4, CallInv
<1>10. CASE UNCHANGED vars
  BY <1>1, <1>10
  DEF IInv, DiskHistory, FileThere, Held, Quiet, TornExplained, vars
<1> QED
  BY <1>2, <1>3, <1>4, <1>5, <1>6, <1>7, <1>8, <1>9, <1>10, <1>11 DEF Next, MainStep, Threads

\* The inductive invariant holds for ever.
THEOREM Invariance == Spec => []IInv
<1>1. Init => IInv
  BY InitInv
<1>2. IInv /\ [Next]_vars => IInv'
  BY NextInv
<1> QED
  BY <1>1, <1>2, PTL DEF Spec

-----------------------------------------------------------------------------
(* What follows from it *)

\* No thread of a serving process meets a file that an earlier crash truncated:
\* trigger has either rewritten it or stopped the process before the servers start.
THEOREM TornFilesHaveWriters == Spec => []NoTornAtRest
<1>1. IInv => NoTornAtRest
  BY DEF IInv, TornExplained, NoTornAtRest
<1> QED
  BY <1>1, Invariance, PTL

\* getJsonValueFromFile always finds its key.
THEOREM DocumentsComplete == Spec => []CompleteDocuments
<1>1. IInv => CompleteDocuments
  BY DEF IInv, DiskHistory, CompleteDocuments
<1> QED
  BY <1>1, Invariance, PTL

\* A write that nobody has overtaken creates the record or changes one key of it.
LEMMA FreshWriteIsAtomic ==
  ASSUME IInv, NEW t \in Threads, fresh[t], WriteNew(t) \/ WriteFile(t)
  PROVE  AS!Next
<1> DEFINE f == op[t].file
<1>1. op[t] # Null /\ f \in Streams
  BY CallType DEF WriteNew, WriteFile, IInv, TypeOK
<1>2. last' = [last EXCEPT ![f] = buf[t]]
  BY DEF WriteNew, WriteFile, Store
<1>3. CASE pc[t] = "newWrite"
  <2>1. buf[t] = Default(f) /\ last[f] = Absent
    BY <1>3 DEF IInv, Held
  <2>2. AS!Create(f)
    BY <1>2, <2>1 DEF AS!Create, Default
  <2> QED
    BY <1>1, <2>2 DEF AS!Next
<1>4. CASE pc[t] = "write"
  <2>1. last[f] \in Documents
        /\ \E key \in Keys, val \in Values : buf[t] = With(last[f], key, val)
    BY <1>4 DEF IInv, Held
  <2>2. PICK key \in Keys, val \in Values : buf[t] = With(last[f], key, val)
    BY <2>1
  <2>3. AS!Set(f, key, val)
    BY <1>2, <2>1, <2>2, ConstantsAssumption DEF AS!Set, With
  <2> QED
    BY <1>1, <2>3 DEF AS!Next, Keys
<1> QED
  BY <1>3, <1>4 DEF WriteNew, WriteFile

\* The writes that change a record at once are those that nobody has overtaken.
THEOREM FreshWritesAreAtomic == Spec => AtomicWhenFresh
<1>1. IInv /\ [Next]_vars =>
        [\A t \in Threads : fresh[t] /\ (WriteNew(t) \/ WriteFile(t)) => AS!Next]_vars
  BY FreshWriteIsAtomic
<1> QED
  BY <1>1, Invariance, PTL DEF Spec, AtomicWhenFresh

\* While it serves, a file function stops the process only on a NULL value or on a
\* read of a file that another thread has truncated and not yet written.
THEOREM CrashesNeedOverlap == Spec => CrashNeedsOverlap
<1> DEFINE Excuse(t) ==
             \/ op[t].fn = "set" /\ op[t].val = Null
             \/ \E u \in Threads \ {t} : pc[u] \in Torn /\ op[u].file = op[t].file
<1>1. ASSUME IInv, phase = "serving", phase' = "down", NEW t \in Threads, FileStep(t)
      PROVE  Excuse(t)
  <2> DEFINE f == op[t].file
  <2>1. pc[t] # "idle" /\ op[t] # Null /\ op[t] \in Calls /\ f \in Streams
    BY <1>1, CallType DEF FileStep, ReadFile, ReadEntry, ReadAgain, Truncate, WriteNew,
       WriteFile, IInv, TypeOK
  <2>2. phase' # phase
    BY <1>1
  <2>3. /\ pc[t] \in {"read", "reread"}
        /\ \/ Proceed(t, disk[f])
           \/ Unreadable(f) /\ (ReadEntry(t) \/ ReadAgain(t))
    BY <1>1, <2>2 DEF FileStep, ReadFile, ReadEntry, ReadAgain, Truncate, WriteNew,
       WriteFile, Store, Hold
  <2>4. CASE Proceed(t, disk[f])
    <3>1. op[t].fn # "get" /\ op[t].val = Null
      BY <2>2, <2>4 DEF Proceed, Hold
    <3> QED
      BY <2>1, <3>1, CallType, ConstantsAssumption
  <2>5. CASE Unreadable(f) /\ (ReadEntry(t) \/ ReadAgain(t))
    <3>1. disk[f] # Absent
      BY <1>1, <2>1, <2>5 DEF ReadEntry, ReadAgain, IInv, FileThere
    <3>2. PICK u \in Threads : pc[u] \in Torn /\ op[u].file = f
      BY <1>1, <2>1, <2>5, <3>1 DEF Unreadable, IInv, TornExplained
    <3>3. u # t
      BY <2>3, <3>2 DEF Torn
    <3> QED
      BY <3>2, <3>3
  <2> QED
    BY <2>3, <2>4, <2>5
<1>2. IInv /\ [Next]_vars =>
        [\A t \in Threads :
           FileStep(t) /\ phase = "serving" /\ phase' = "down" => Excuse(t)]_vars
  BY <1>1
<1> QED
  BY <1>2, Invariance, PTL DEF Spec, CrashNeedsOverlap
=============================================================================
