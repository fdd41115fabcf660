----------------------------- MODULE StatusFiles -----------------------------
(***************************************************************************)
(* The status directory of StreamerServer: one JSON file per stream, read  *)
(* and rewritten without a lock by the connection handlers and the player  *)
(* server (setJsonValue, getJsonValueFromFile of srvrJson.c) and by the    *)
(* main thread (trigger of main.c, once at start-up and then on every      *)
(* SIGALRM).                                                               *)
(*                                                                         *)
(* One step is one access to a file.  json_object_from_file reads a file   *)
(* at once; json_object_to_file opens it with O_TRUNC and then writes it,  *)
(* so that others may find it empty in between, and a process that dies in *)
(* between leaves it empty.                                                *)
(*                                                                         *)
(* A thread's call is op[t], a register with the function and its          *)
(* arguments; pc[t] is the file access it performs next.                   *)
(***************************************************************************)
EXTENDS Naturals

CONSTANTS Streams, Values, Absent,
          Empty,      \* a file truncated by json_object_to_file, not yet written
          Null,       \* the C pointer NULL
          Workers,    \* threads that call setJsonValue and getJsonValueFromFile
          Main,       \* the main thread, which runs trigger
          Updates,    \* the <<key, value>> pairs the workers set
          MaxAlarms,  \* bound: SIGALRMs delivered
          MaxDeaths   \* bound: the process is killed from outside

VARIABLES
  disk,    \* disk[s]: the file of s: Absent, Empty or a document
  last,    \* history: the last document written to the file of s
  op,      \* op[t]: the call that thread t executes
  pc,      \* pc[t]: the next file access of that call
  buf,     \* buf[t]: the json_object of that call
  fresh,   \* history: nobody wrote the file between t's read and now
  phase,   \* the process: "down", "boot" (main.c:58) or "serving"
  todo,    \* the directory entries trigger has still to visit
  alarms,  \* SIGALRMs so far
  deaths   \* kills so far

storeVars == <<disk, last, op, pc, buf, fresh>>
vars == <<disk, last, op, pc, buf, fresh, phase, todo, alarms, deaths>>

AS == INSTANCE AtomicStatus WITH rec <- last

Keys == AS!Keys
Documents == AS!Documents

\* Mutant: newJsonFile forgets the "action" entry.
DefaultWithoutAction(s) == [k \in Keys \ {"action"} |-> AS!Default(s)[k]]

Default(s) == AS!Default(s)
With(doc, key, val) == AS!With(doc, key, val)

Threads == Workers \cup {Main}

\* A call of getJsonValueFromFile, of setJsonValue, or one round of trigger's loop.
Calls == [fn : {"get"}, key : {"status", "action"}, val : {Null}, file : Streams]
         \cup [fn : {"set"}, key : Keys, val : Values \cup {Null}, file : Streams]
         \cup [fn : {"reset"}, key : {"status"}, val : {"off"}, file : Streams]

ASSUME ConstantsAssumption ==
  /\ Main \notin Workers
  /\ Streams \cup {"off", "live"} \subseteq Values
  /\ Null \notin Values \cup Documents \cup Calls
  /\ Absent \notin Documents \cup {Empty}
  /\ Empty \notin Documents
  /\ Updates \subseteq Keys \X (Values \cup {Null})
  /\ MaxAlarms \in Nat
  /\ MaxDeaths \in Nat

Labels == {"idle", "read", "newTruncate", "newWrite", "reread", "truncate", "write"}

\* Labels at which the call holds a document it is going to write.
Holding == {"newTruncate", "newWrite", "truncate", "write"}

\* Labels at which the call has truncated its file and not yet written it.
Torn == {"newWrite", "write"}

TypeOK ==
  /\ disk \in [Streams -> {Absent, Empty} \cup Documents]
  /\ last \in [Streams -> {Absent} \cup Documents]
  /\ op \in [Threads -> {Null} \cup Calls]
  /\ pc \in [Threads -> Labels]
  /\ buf \in [Threads -> {Null} \cup Documents]
  /\ fresh \in [Threads -> BOOLEAN]
  /\ phase \in {"down", "boot", "serving"}
  /\ todo \in SUBSET Streams
  /\ alarms \in 0..MaxAlarms
  /\ deaths \in 0..MaxDeaths
  /\ \A t \in Threads : /\ op[t] = Null <=> pc[t] = "idle"
                        /\ buf[t] = Null <=> pc[t] \notin Holding
                        /\ fresh[t] \/ pc[t] \in Holding

Nobody == [t \in Threads |-> Null]
Idle   == [t \in Threads |-> "idle"]
AllOK  == [t \in Threads |-> TRUE]

Init ==
  /\ disk = [s \in Streams |-> Absent]
  /\ last = [s \in Streams |-> Absent]
  /\ op = Nobody
  /\ pc = Idle
  /\ buf = Nobody
  /\ fresh = AllOK
  /\ phase = "down"
  /\ todo = {}
  /\ alarms = 0
  /\ deaths = 0

----------------------------------------------------------------------------
(* Steps of a call *)

\* The process stops: a NULL dereference, exit or a signal.  Memory is lost,
\* the files stay as they are.
Stop ==
  /\ op' = Nobody
  /\ pc' = Idle
  /\ buf' = Nobody
  /\ fresh' = AllOK
  /\ phase' = "down"
  /\ todo' = {}
  /\ UNCHANGED <<disk, last>>

\* Thread t enters one of the functions.
Call(t, fn, key, val, file) ==
  /\ pc[t] = "idle"
  /\ op' = [op EXCEPT ![t] = [fn |-> fn, key |-> key, val |-> val, file |-> file]]
  /\ pc' = [pc EXCEPT ![t] = "read"]
  /\ UNCHANGED <<disk, last, buf, fresh>>

\* The call of t returns.
Return(t) ==
  /\ op' = [op EXCEPT ![t] = Null]
  /\ pc' = [pc EXCEPT ![t] = "idle"]
  /\ buf' = [buf EXCEPT ![t] = Null]

\* t will write doc, made from what the file held just now.
Hold(t, doc, label, isFresh) ==
  /\ buf' = [buf EXCEPT ![t] = doc]
  /\ pc' = [pc EXCEPT ![t] = label]
  /\ fresh' = [fresh EXCEPT ![t] = isFresh]
  /\ UNCHANGED <<disk, last, op, phase, todo>>

\* Mutant: setJsonValue stores a NULL value as a JSON null.
ProceedNullUnchecked(t, doc) ==
  IF op[t].fn = "get"
  THEN Return(t) /\ UNCHANGED <<disk, last, fresh, phase, todo>>
  ELSE Hold(t, With(doc, op[t].key, op[t].val), "truncate", TRUE)

\* Mutant: setJsonValue starts from the defaults, not from the file.
ProceedFromScratch(t, doc) ==
  IF op[t].fn = "get"
  THEN Return(t) /\ UNCHANGED <<disk, last, fresh, phase, todo>>
  ELSE IF op[t].val = Null
  THEN Stop
  ELSE Hold(t, With(Default(op[t].file), op[t].key, op[t].val), "truncate", TRUE)

\* What the three functions do with the document they read: return a value,
\* store a changed document, or pass NULL to json_object_new_string.
Proceed(t, doc) ==
  IF op[t].fn = "get" /\ op[t].key \in DOMAIN doc
  THEN Return(t) /\ UNCHANGED <<disk, last, fresh, phase, todo>>
  ELSE IF op[t].fn = "get"
  THEN Hold(t, With(doc, "action", "off"), "truncate", TRUE)
  ELSE IF op[t].val = Null
  THEN Stop
  ELSE Hold(t, With(doc, op[t].key, op[t].val), "truncate", TRUE)

\* What getJsonValueFromFile returns when it returns after reading the file.
Returned(t) ==
  IF op[t].fn = "get" /\ pc[t] \in {"read", "reread"}
  THEN disk[op[t].file][op[t].key]
  ELSE Null

Unreadable(s) == disk[s] \in {Absent, Empty}

\* json_object_from_file of JsonFromFile: NULL starts newJsonFile.
ReadFile(t) ==
  /\ pc[t] = "read"
  /\ op[t].fn \in {"get", "set"}
  /\ IF Unreadable(op[t].file)
     THEN Hold(t, Default(op[t].file), "newTruncate", disk[op[t].file] = Absent)
     ELSE Proceed(t, disk[op[t].file])

\* Mutant: trigger skips a file it cannot read.
ReadEntryTolerant(t) ==
  /\ pc[t] = "read"
  /\ op[t].fn = "reset"
  /\ IF Unreadable(op[t].file)
     THEN Return(t) /\ UNCHANGED <<disk, last, fresh, phase, todo>>
     ELSE Proceed(t, disk[op[t].file])

\* json_object_from_file of trigger: NULL is passed on to json_object_object_add.
ReadEntry(t) ==
  /\ pc[t] = "read"
  /\ op[t].fn = "reset"
  /\ IF Unreadable(op[t].file) THEN Stop ELSE Proceed(t, disk[op[t].file])

\* json_object_from_file at the end of newJsonFile: its NULL is not checked.
ReadAgain(t) ==
  /\ pc[t] = "reread"
  /\ IF Unreadable(op[t].file) THEN Stop ELSE Proceed(t, disk[op[t].file])

\* open(O_WRONLY | O_TRUNC | O_CREAT) of json_object_to_file.
Truncate(t) ==
  /\ pc[t] \in {"newTruncate", "truncate"}
  /\ disk' = [disk EXCEPT ![op[t].file] = Empty]
  /\ pc' = [pc EXCEPT ![t] = IF pc[t] = "truncate" THEN "write" ELSE "newWrite"]
  /\ UNCHANGED <<last, op, buf, fresh, phase, todo>>

\* t's document reaches the file: whatever the others hold for it is stale.
Store(t) ==
  /\ disk' = [disk EXCEPT ![op[t].file] = buf[t]]
  /\ last' = [last EXCEPT ![op[t].file] = buf[t]]
  /\ fresh' = [u \in Threads |->
                 \/ u = t
                 \/ fresh[u] /\ ~(pc[u] \in Holding /\ op[u].file = op[t].file)]
  /\ UNCHANGED <<phase, todo>>

\* Mutant: newJsonFile reads the file again before it is written.
WriteNewTooLate(t) ==
  /\ pc[t] = "newWrite"
  /\ pc' = [pc EXCEPT ![t] = "reread"]
  /\ buf' = [buf EXCEPT ![t] = Null]
  /\ UNCHANGED <<disk, last, fresh, op, phase, todo>>

WriteNew(t) ==
  /\ pc[t] = "newWrite"
  /\ Store(t)
  /\ pc' = [pc EXCEPT ![t] = "reread"]
  /\ buf' = [buf EXCEPT ![t] = Null]
  /\ UNCHANGED op

WriteFile(t) ==
  /\ pc[t] = "write"
  /\ Store(t)
  /\ Return(t)

FileStep(t) ==
  /\ \/ ReadFile(t)
     \/ ReadEntry(t)
     \/ ReadAgain(t)
     \/ Truncate(t)
     \/ WriteNew(t)
     \/ WriteFile(t)
  /\ UNCHANGED <<alarms, deaths>>

----------------------------------------------------------------------------
(* The process and its main thread *)

Exists == {s \in Streams : disk[s] # Absent}

\* readdir lists the files that exist at opendir, and may or may not list one
\* that is created during the scan.
OpenDirectory == \E entries \in SUBSET Streams :
                   Exists \subseteq entries /\ todo' = entries

\* The restart loop of autorestartC.sh starts the program; main calls trigger
\* before it creates the threads.
Boot ==
  /\ phase = "down"
  /\ phase' = "boot"
  /\ OpenDirectory
  /\ UNCHANGED <<storeVars, alarms, deaths>>

\* SIGALRM, which alarm(30) sends to the main thread in its sleep.  When opendir fails,
\* for want of a descriptor, trig stays 1 and the alarm is never set again.
Alarm ==
  /\ phase = "serving"
  /\ todo = {}
  /\ pc[Main] = "idle"
  /\ alarms < MaxAlarms
  /\ \/ OpenDirectory /\ alarms' = alarms + 1
     \/ alarms' = MaxAlarms /\ UNCHANGED todo
  /\ UNCHANGED <<storeVars, phase, deaths>>

\* Mutant: trigger starts the scan again after every file.
NextEntryRewinds ==
  \E s \in todo :
    /\ disk[s] # Absent
    /\ Call(Main, "reset", "status", "off", s)
    /\ UNCHANGED <<phase, todo, alarms, deaths>>

\* readdir returns the next entry, or the scan is over for a file that was
\* never created.
NextEntry ==
  \E s \in todo :
    /\ todo' = todo \ {s}
    /\ IF disk[s] = Absent
       THEN pc[Main] = "idle" /\ UNCHANGED storeVars
       ELSE Call(Main, "reset", "status", "off", s)
    /\ UNCHANGED <<phase, alarms, deaths>>

\* trigger returned: main creates the two server threads.
BootDone ==
  /\ phase = "boot"
  /\ todo = {}
  /\ pc[Main] = "idle"
  /\ phase' = "serving"
  /\ UNCHANGED <<storeVars, todo, alarms, deaths>>

\* The process is killed, or the machine stops, at any point.
Die ==
  /\ phase # "down"
  /\ deaths < MaxDeaths
  /\ deaths' = deaths + 1
  /\ Stop
  /\ UNCHANGED alarms

\* A handler or the player server stops the process elsewhere: exit(1) of
\* receiveData, or NULL as a file name.
Exit ==
  /\ phase = "serving"
  /\ Stop
  /\ UNCHANGED <<alarms, deaths>>

MainStep == NextEntry \/ BootDone \/ FileStep(Main)

----------------------------------------------------------------------------
(* The workers, as far as the files can tell: any call at any time *)

CallGet(t) ==
  /\ phase = "serving"
  /\ \E key \in {"status", "action"}, s \in Streams : Call(t, "get", key, Null, s)
  /\ UNCHANGED <<phase, todo, alarms, deaths>>

CallSet(t) ==
  /\ phase = "serving"
  /\ \E u \in Updates, s \in Streams : Call(t, "set", u[1], u[2], s)
  /\ UNCHANGED <<phase, todo, alarms, deaths>>

Next ==
  \/ Boot
  \/ Alarm
  \/ Die
  \/ Exit
  \/ MainStep
  \/ \E t \in Workers : CallGet(t) \/ CallSet(t) \/ FileStep(t)

Spec == Init /\ [][Next]_vars

\* The restart loop runs for ever and the scheduler runs every thread.  Nothing
\* obliges a worker to call, an alarm to come or the process to die.
Fairness ==
  /\ WF_vars(Boot)
  /\ WF_vars(MainStep)
  /\ \A t \in Workers : WF_vars(FileStep(t))

FairSpec == Spec /\ Fairness

----------------------------------------------------------------------------
(* Properties *)

\* While the server serves, an empty file is a write in progress: no thread can
\* meet a file that an earlier crash left truncated (it would replace the stream's
\* record, command included, by the defaults of newJsonFile).  This rests on
\* trigger running before the servers start, and crashing on such a file.
NoTornAtRest ==
  phase = "serving" =>
    \A s \in Streams : disk[s] = Empty =>
      \E t \in Threads : pc[t] \in Torn /\ op[t].file = s

\* Every document has all three keys, so that the branch of getJsonValueFromFile
\* that adds an "action" and returns NULL (srvrJson.c:52-56) is never taken and
\* strcmp never gets its NULL in msgParse.
CompleteDocuments ==
  \A s \in Streams : disk[s] \in Documents => DOMAIN disk[s] = Keys

\* A write made from a document that nobody has replaced since it was read is an
\* atomic update: it creates the record or changes one key of the last one.
\* Only a write whose read another write has overtaken can undo an update.
AtomicWhenFresh ==
  [][\A t \in Threads : fresh[t] /\ (WriteNew(t) \/ WriteFile(t)) => AS!Next]_vars

\* A file function stops the serving process only for a NULL value (a report
\* without a status) or when another thread's write interrupts it: a lone thread
\* never reads its own truncated file.
CrashNeedsOverlap ==
  [][\A t \in Threads :
       FileStep(t) /\ phase = "serving" /\ phase' = "down" =>
         \/ op[t].fn = "set" /\ op[t].val = Null
         \/ \E u \in Threads \ {t} : pc[u] \in Torn /\ op[u].file = op[t].file]_vars

\* With no two updates in flight (one worker, no alarm) the directory implements
\* the atomic records, kills and restarts included.
ImplementsAtomicStatus == AS!Spec

\* After a stop the server serves again unless a file was left truncated.
RecoversUnlessTorn ==
  phase = "down" ~> (phase = "serving" \/ \E s \in Streams : disk[s] = Empty)

\* What the restart loop is for: "StreamerServer crashed, restarting now"
\* (autorestartC.sh:30).
ServerComesBack == phase = "down" ~> phase = "serving"
=============================================================================
