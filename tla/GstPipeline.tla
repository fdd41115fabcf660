----------------------------- MODULE GstPipeline -----------------------------
(***************************************************************************)
(* The life of the GStreamer pipeline on a camera (VA_gstreamer.c): the    *)
(* control thread builds, starts and stops it as orders arrive             *)
(* (ClientComm.c), each start creates a thread that plays the pipeline and *)
(* runs a GMainLoop, and bus_call stops the stream from inside that loop.  *)
(*                                                                         *)
(* script[t] is the sequence of library calls that thread t has still to   *)
(* make; a step makes one call, on whatever the global pointers point to   *)
(* by then.  pipeline and loop always point to the last object made, and   *)
(* are never reset.  A call on an object that has been released is         *)
(* undefined: the process crashes or the call does nothing.                *)
(***************************************************************************)
EXTENDS Naturals, Sequences

CONSTANTS Control,     \* the thread of main, which obeys orders
          GstThreads,  \* threads that g_thread_new may create
          MaxBuilds,   \* bound: pipelines made
          MaxFailures, \* bound: builds and live branches that fail
          MaxErrors,   \* bound: errors and ends of stream on the bus
          Prompt       \* TRUE: a new thread reaches its loop before the next order,
                       \* as the sleep(1) of clientComm (ClientComm.c:17) lets it

ASSUME PipelineAssumption ==
  /\ Control \notin GstThreads
  /\ {MaxBuilds, MaxFailures, MaxErrors} \subseteq Nat
  /\ Prompt \in BOOLEAN

VARIABLES
  status,    \* the global status
  pipes,     \* pipes[g]: state of the g-th pipeline, "lost" when initLive has
             \* released it; pipeline points to the last
  loops,     \* loops[g]: the g-th GMainLoop; loop points to the last
  watched,   \* the pipelines whose bus has a watch
  bin,       \* what bin, the live branch, points to
  script,    \* script[t]: the calls t has still to make
  result,    \* result[t]: what set_state(NULL) last returned to t
  runs,      \* runs[t]: the loop t runs, or 0
  alive,     \* the process has not crashed
  misused,   \* history: the pointers through which a released object was used
  crossed,   \* history: bus_call has stopped the stream while an order was obeyed
  failures, errors  \* how many so far

pipelineVars == <<status, pipes, loops, watched, bin, script, result, runs,
                  alive, misused, crossed, failures, errors>>

Threads == GstThreads \cup {Control}
Gens == 1..MaxBuilds

Calls == {"quit", "setNull", "unrefPipeline", "removeWatch", "unrefLoop", "untilStopped",
          "binNull", "removeBin", "unrefBin", "newLoop", "newPipeline", "addBranches",
          "pause", "initLive", "resume", "spawn", "setPlaying", "run",
          "ready", "local", "live"}

PipelineTypeOK ==
  /\ status \in {"ready", "local", "live"}
  /\ pipes \in Seq({"null", "paused", "playing", "freed", "lost"})
  /\ loops \in Seq([owned : BOOLEAN, on : BOOLEAN])
  /\ Len(pipes) <= Len(loops) /\ Len(loops) <= MaxBuilds
  /\ watched \subseteq Gens
  /\ bin \in {"none", "loose", "linked", "freed"}
  /\ script \in [Threads -> Seq(Calls)]
  /\ result \in [Threads -> {"success", "failure"}]
  /\ runs \in [GstThreads -> 0..Len(loops)]
  /\ {alive, crossed} \subseteq BOOLEAN
  /\ misused \subseteq {"pipeline", "loop", "bin"}
  /\ failures \in 0..MaxFailures /\ errors \in 0..MaxErrors

PipelineInit ==
  /\ status = "ready"
  /\ pipes = <<>>
  /\ loops = <<>>
  /\ watched = {}
  /\ bin = "none"
  /\ script = [t \in Threads |-> <<>>]
  /\ result = [t \in Threads |-> "failure"]
  /\ runs = [t \in GstThreads |-> 0]
  /\ alive = TRUE
  /\ misused = {}
  /\ crossed = FALSE
  /\ failures = 0
  /\ errors = 0

----------------------------------------------------------------------------
(* What the functions do, as sequences of calls *)

\* Mutant: stopStreaming does not quit the loop.
StopWithoutQuit == <<"setNull", "unrefPipeline", "removeWatch", "unrefLoop">>

stopStreaming == <<"quit", "setNull", "unrefPipeline", "removeWatch", "unrefLoop">>
stopLive      == <<"binNull", "removeBin", "unrefBin">>
\* Mutant: the pipeline is made before the loop that its watch is given.
PipelineFirst == <<"newPipeline", "newLoop", "addBranches">>

initialize    == <<"newLoop", "newPipeline", "addBranches">>
setAll        == stopStreaming \o stopLive \o initialize
startLive     == <<"pause", "initLive", "resume">>

\* Mutant: the thread plays and does not run the loop.
PlayWithoutLoop == <<"setPlaying">>

play          == <<"setPlaying", "run">>

\* msgParse, by action and status.  A failed setAll drops the rest.
Obeys(action) ==
  CASE action = "live" /\ status = "local"  -> startLive \o <<"live">>
    [] action = "live" /\ status = "ready"  -> setAll \o <<"initLive", "spawn", "live">>
    [] action = "local" /\ status = "live"  -> stopLive \o <<"local">>
    [] action = "local" /\ status = "ready" -> setAll \o <<"spawn", "local">>
    [] action = "off"                       -> stopStreaming \o <<"untilStopped", "ready">>
    [] OTHER                                -> <<action>>

----------------------------------------------------------------------------
(* One call *)

Makes(t, call) == alive /\ script[t] # <<>> /\ Head(script[t]) = call

Rest(t) == script' = [script EXCEPT ![t] = Tail(@)]

\* What the global pointers point to; 0 is NULL.
Pipe == Len(pipes)
Loop == Len(loops)

PipeReleased == Pipe > 0 /\ pipes[Pipe] \in {"freed", "lost"}

\* A loop lives as long as its creator has not released it or a thread runs it.
LoopReleased == /\ Loop > 0
                /\ ~loops[Loop].owned
                /\ \A t \in GstThreads : runs[t] # Loop

\* Everything a call does not touch: all but script, alive and misused.
objects == <<pipes, loops, watched, bin>>
others  == <<status, result, runs, crossed, failures, errors>>

\* A call of t on a released object, which it finds in the given pointer.
Undefined(t, pointer) ==
  /\ Rest(t)
  /\ alive' \in BOOLEAN
  /\ misused' = misused \cup {pointer}
  /\ UNCHANGED objects

\* A defined call of t.
Defined(t) == Rest(t) /\ UNCHANGED <<alive, misused>>

Quit(t) ==
  /\ Makes(t, "quit")
  /\ IF LoopReleased
     THEN Undefined(t, "loop")
     ELSE /\ Defined(t)
          /\ loops' = IF Loop = 0 THEN loops ELSE [loops EXCEPT ![Loop].on = FALSE]
          /\ UNCHANGED <<pipes, watched, bin>>
  /\ UNCHANGED others

\* Mutant: the pipeline is paused where it should be stopped.
SetNullPauses(t) ==
  /\ Makes(t, "setNull")
  /\ IF PipeReleased \/ Pipe = 0
     THEN IF Pipe = 0 THEN Defined(t) /\ UNCHANGED objects ELSE Undefined(t, "pipeline")
     ELSE /\ Defined(t)
          /\ pipes' = [pipes EXCEPT ![Pipe] = IF @ = "playing" THEN "paused" ELSE @]
          /\ UNCHANGED <<loops, watched, bin>>
  /\ result' = [result EXCEPT ![t] = IF PipeReleased \/ Pipe = 0 THEN "failure" ELSE "success"]
  /\ UNCHANGED <<status, runs, crossed, failures, errors>>

\* gst_element_set_state(pipeline, GST_STATE_NULL)
SetNull(t) ==
  /\ Makes(t, "setNull")
  /\ IF PipeReleased
     THEN Undefined(t, "pipeline")
     ELSE /\ Defined(t)
          /\ pipes' = IF Pipe = 0 THEN pipes ELSE [pipes EXCEPT ![Pipe] = "null"]
          /\ UNCHANGED <<loops, watched, bin>>
  /\ result' = [result EXCEPT ![t] = IF PipeReleased \/ Pipe = 0 THEN "failure" ELSE "success"]
  /\ UNCHANGED <<status, runs, crossed, failures, errors>>

\* gst_object_unref(pipeline): what is in the pipeline goes with it.  GStreamer
\* does not dispose of an element that is not in the NULL state.
UnrefPipeline(t) ==
  /\ Makes(t, "unrefPipeline")
  /\ IF PipeReleased
     THEN Undefined(t, "pipeline")
     ELSE /\ Defined(t)
          /\ IF Pipe > 0 /\ pipes[Pipe] = "null"
             THEN /\ pipes' = [pipes EXCEPT ![Pipe] = "freed"]
                  /\ bin' = IF bin = "linked" THEN "freed" ELSE bin
             ELSE UNCHANGED <<pipes, bin>>
          /\ UNCHANGED <<loops, watched>>
  /\ UNCHANGED others

\* g_source_remove(bus_watch_id) only warns of an unknown id.
RemoveWatch(t) ==
  /\ Makes(t, "removeWatch")
  /\ Defined(t)
  /\ watched' = watched \ {Pipe}
  /\ UNCHANGED <<pipes, loops, bin, others>>

UnrefLoop(t) ==
  /\ Makes(t, "unrefLoop")
  /\ IF Loop > 0 /\ ~loops[Loop].owned
     THEN Undefined(t, "loop")
     ELSE /\ Defined(t)
          /\ loops' = IF Loop = 0 THEN loops ELSE [loops EXCEPT ![Loop].owned = FALSE]
          /\ UNCHANGED <<pipes, watched, bin>>
  /\ UNCHANGED others

\* while (stopStreaming() != 1)
UntilStopped(t) ==
  /\ Makes(t, "untilStopped")
  /\ script' = [script EXCEPT ![t] = IF result[t] = "success" THEN Tail(@) ELSE stopStreaming \o @]
  /\ UNCHANGED <<alive, misused, objects, others>>

\* The calls of stopLive on bin: its first ones, its removal from the pipeline,
\* which releases it, and the two that follow on the released bin.
UseBin(t) ==
  /\ Makes(t, "binNull") \/ Makes(t, "removeBin") \/ Makes(t, "unrefBin")
  /\ IF bin = "freed"
     THEN Undefined(t, "bin")
     ELSE /\ Defined(t)
          /\ bin' = CASE Head(script[t]) = "removeBin" /\ bin = "linked" -> "freed"
                      [] Head(script[t]) = "unrefBin" /\ bin = "loose"   -> "freed"
                      [] OTHER                                           -> bin
          /\ UNCHANGED <<pipes, loops, watched>>
  /\ UNCHANGED others

NewLoop(t) ==
  /\ Makes(t, "newLoop")
  /\ Defined(t)
  /\ loops' = Append(loops, [owned |-> TRUE, on |-> FALSE])
  /\ UNCHANGED <<pipes, watched, bin, others>>

\* initialize returns -1: setAll and msgParse return.
Fails(t) ==
  /\ failures < MaxFailures
  /\ failures' = failures + 1
  /\ script' = [script EXCEPT ![t] = <<>>]
  /\ UNCHANGED <<alive, misused, status, result, runs, crossed, errors>>

\* The pipeline, and its watch unless one of its elements could not be made.
NewPipeline(t) ==
  /\ Makes(t, "newPipeline")
  /\ pipes' = Append(pipes, "null")
  /\ UNCHANGED <<loops, bin>>
  /\ \/ /\ Defined(t)
        /\ watched' = watched \cup {Len(pipes')}
        /\ UNCHANGED others
     \/ Fails(t) /\ UNCHANGED watched

\* Mutant: the result of setAll is not looked at.
AddBranchesUnchecked(t) ==
  /\ Makes(t, "addBranches")
  /\ Defined(t)
  /\ \/ UNCHANGED <<objects, others>>
     \/ /\ failures < MaxFailures
        /\ failures' = failures + 1
        /\ pipes' = [pipes EXCEPT ![Pipe] = "freed"]
        /\ UNCHANGED <<loops, watched, bin, status, result, runs, crossed, errors>>

\* initCamera and initLocal.  initLocal releases the pipeline when a pad cannot be
\* linked; other failures leave it as it is.
AddBranches(t) ==
  /\ Makes(t, "addBranches")
  /\ \/ Defined(t) /\ UNCHANGED <<objects, others>>
     \/ Fails(t) /\ UNCHANGED objects
     \/ /\ Fails(t)
        /\ pipes' = [pipes EXCEPT ![Pipe] = "freed"]
        /\ UNCHANGED <<loops, watched, bin>>

\* initLive releases the pipeline when its pad template is missing, with bin still
\* loose, or when the tee cannot be linked, with bin in the pipeline by then (again, a
\* pipeline that is not in the NULL state is not disposed of).
LoseBranch ==
  IF pipes[Pipe] = "null"
  THEN pipes' = [pipes EXCEPT ![Pipe] = "lost"] /\ bin' \in {"loose", "freed"}
  ELSE UNCHANGED pipes /\ bin' \in {"loose", "linked"}

\* initLive makes a bin and adds it to the pipeline.  It fails when an element cannot
\* be made, with bin loose, or loses the branch; nobody looks at its result.
InitLive(t) ==
  /\ Makes(t, "initLive")
  /\ IF PipeReleased
     THEN Undefined(t, "pipeline") /\ UNCHANGED failures
     ELSE /\ Defined(t)
          /\ \/ bin' = "linked" /\ UNCHANGED <<pipes, failures>>
             \/ /\ failures < MaxFailures
                /\ failures' = failures + 1
                /\ \/ bin' = "loose" /\ UNCHANGED pipes
                   \/ LoseBranch
          /\ UNCHANGED <<loops, watched>>
  /\ UNCHANGED <<status, result, runs, crossed, errors>>

\* set_state of startLive and play.
SetState(t, call, state) ==
  /\ Makes(t, call)
  /\ IF PipeReleased
     THEN Undefined(t, "pipeline")
     ELSE /\ Defined(t)
          /\ pipes' = [pipes EXCEPT ![Pipe] = state]
          /\ UNCHANGED <<loops, watched, bin>>
  /\ UNCHANGED others

Report(t) ==
  /\ \E mode \in {"ready", "local", "live"} : Makes(t, mode) /\ status' = mode
  /\ Defined(t)
  /\ UNCHANGED <<objects, result, runs, crossed, failures, errors>>

Unborn(t) == script[t] = <<>> /\ runs[t] = 0

\* startStreaming
Spawn(t) ==
  /\ Makes(t, "spawn")
  /\ \E g \in GstThreads :
       /\ Unborn(g)
       /\ script' = [script EXCEPT ![t] = Tail(@), ![g] = play]
  /\ UNCHANGED <<alive, misused, objects, others>>

\* g_main_loop_run holds a reference to the loop, and forgets an earlier quit.
Run(t) ==
  /\ Makes(t, "run")
  /\ IF LoopReleased
     THEN Undefined(t, "loop") /\ UNCHANGED runs
     ELSE /\ Defined(t)
          /\ runs' = [runs EXCEPT ![t] = Loop]
          /\ loops' = [loops EXCEPT ![Loop].on = TRUE]
          /\ UNCHANGED <<pipes, watched, bin>>
  /\ UNCHANGED <<status, result, crossed, failures, errors>>

InLoop(t) == alive /\ script[t] = <<>> /\ runs[t] # 0

\* g_main_loop_run returns, and the thread ends.
RunReturns(t) ==
  /\ InLoop(t)
  /\ ~loops[runs[t]].on
  /\ runs' = [runs EXCEPT ![t] = 0]
  /\ UNCHANGED <<script, alive, misused, objects, status, result, crossed, failures, errors>>

\* bus_call gets an end of stream or an error.
BusCall(t) ==
  /\ InLoop(t)
  /\ loops[runs[t]].on
  /\ Pipe \in watched
  /\ pipes[Pipe] \in {"playing", "paused"}
  /\ errors < MaxErrors
  /\ errors' = errors + 1
  /\ script' = [script EXCEPT ![t] = stopStreaming]
  /\ crossed' = (crossed \/ script[Control] # <<>>)
  /\ UNCHANGED <<alive, misused, objects, status, result, runs, failures>>

\* Every thread created so far is in its loop or has ended.
Settled == \A t \in GstThreads : script[t] = <<>>

\* An order reaches msgParse.
TakeOrder(action) ==
  /\ alive
  /\ script[Control] = <<>>
  /\ Prompt => \A t \in GstThreads : ~\E i \in DOMAIN script[t] : script[t][i] = "run"
  /\ status = "ready" /\ action # "off" =>
       Loop < MaxBuilds /\ \E t \in GstThreads : Unborn(t)
  /\ script' = [script EXCEPT ![Control] = Obeys(action)]
  /\ crossed' = (crossed \/ \E t \in GstThreads : runs[t] # 0 /\ script[t] # <<>>)
  /\ UNCHANGED <<alive, misused, objects, status, result, runs, failures, errors>>

MakesCall(t) ==
  \/ Quit(t) \/ SetNull(t) \/ UnrefPipeline(t) \/ RemoveWatch(t) \/ UnrefLoop(t)
  \/ UntilStopped(t) \/ UseBin(t) \/ NewLoop(t) \/ NewPipeline(t) \/ AddBranches(t)
  \/ InitLive(t) \/ Report(t) \/ Spawn(t) \/ Run(t)
  \/ SetState(t, "pause", "paused")
  \/ SetState(t, "resume", "playing") \/ SetState(t, "setPlaying", "playing")

PipelineNext ==
  \/ \E action \in {"live", "local", "off"} : TakeOrder(action)
  \/ \E t \in Threads : MakesCall(t)
  \/ \E t \in GstThreads : RunReturns(t) \/ BusCall(t)

PipelineSpec == PipelineInit /\ [][PipelineNext]_pipelineVars

\* Each thread goes on.  Orders and errors need not come.
PipelineFairness ==
  /\ \A t \in Threads : WF_pipelineVars(MakesCall(t))
  /\ \A t \in GstThreads : WF_pipelineVars(RunReturns(t))

FairPipeline == PipelineSpec /\ PipelineFairness

----------------------------------------------------------------------------
(* Properties *)

\* No order is being obeyed and every thread has settled.
AtRest == alive /\ script[Control] = <<>> /\ Settled

Playing == Pipe > 0 /\ pipes[Pipe] = "playing"
Lost    == Pipe > 0 /\ pipes[Pipe] = "lost"

\* What StreamerClient assumes of this file: between orders the status tells
\* whether the pipeline plays, through any rebuilds, failures of setAll and uses of
\* released objects that do not crash, until the stream itself fails.  It is untrue
\* for a pipeline that initLive has lost, of which msgParse says "Device is Live now."
\* all the same (ClientComm.c:43-46), and in no other case.
StatusTellsPipeline ==
  AtRest /\ errors = 0 =>
    /\ Playing => status \in {"local", "live"}
    /\ status \in {"local", "live"} => Playing \/ Lost

\* A stream that plays is listened to: a thread runs the loop that its bus is
\* watched in, so that an error can reach bus_call, and stopStreaming the thread;
\* unless an error crossed an order, where startLive plays what bus_call has stopped.
PlayingIsWatched ==
  AtRest /\ Playing /\ ~crossed => /\ Pipe \in watched
                       /\ \E t \in GstThreads : runs[t] = Loop /\ loops[Loop].on

\* At most one pipeline holds the camera: one that was left is stopped, whatever
\* failed in between (again unless an error crossed an order).
OneHoldsTheCamera ==
  ~crossed => \A g, h \in DOMAIN pipes :
    pipes[g] \in {"paused", "playing"} /\ pipes[h] \in {"paused", "playing"} => g = h

\* A thread does not outlive its stream: when stopStreaming has released a loop, the
\* thread that runs it ends, whoever called stopStreaming (unless an error crossed
\* an order, whose rebuilt loop bus_call may then release).
StopEndsThread ==
  \A t \in GstThreads :
    runs[t] # 0 /\ ~loops[runs[t]].owned ~> runs[t] = 0 \/ ~alive \/ crossed

\* "Out of the main loop, clean up nicely" (VA_gstreamer.c:414): what stopStreaming
\* has released is not used again.
CleansUpNicely == misused \cap {"pipeline", "loop"} = {}
=============================================================================
