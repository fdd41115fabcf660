--------------------------- MODULE GstPipelineProofs ---------------------------
(***************************************************************************)
(* The pipeline of a camera, for any number of builds, failures, errors    *)
(* and threads.                                                            *)
(*                                                                         *)
(* An order is a sequence of library calls, of which a thread makes one at *)
(* a time.  The proofs follow how far the control thread has come with it: *)
(* what is left is the end of one of five sequences, and a lemma for each  *)
(* part of them says which call is next and which part comes after it.     *)
(*                                                                         *)
(* Types hold for any interleaving (TInv).  Whether the stream runs can be *)
(* told only when threads reach their loops in time, which Prompt says:    *)
(* then each part has its own facts about the last pipeline and loop       *)
(* (Stage), no earlier one is in use (Alone), and both hold until an error *)
(* on the bus crosses an order.                                            *)
(***************************************************************************)
EXTENDS GstPipeline, SequenceTheorems, TLAPS

-----------------------------------------------------------------------------
(* What is left of an order *)

\* What is left of a sequence of calls from the i-th on.
From(calls, i) == SubSeq(calls, i, Len(calls))

LEMMA NextCall ==
  ASSUME NEW calls \in Seq(Calls), NEW i \in 1..Len(calls)
  PROVE  /\ From(calls, i) # <<>> /\ From(calls, i) \in Seq(Calls)
         /\ Head(From(calls, i)) = calls[i]
         /\ Tail(From(calls, i)) = From(calls, i + 1)
<1>1. Len(calls) \in Nat /\ \A k \in i..Len(calls) : calls[k] \in Calls
  BY ElementOfSeq
<1>2. From(calls, i) \in Seq(Calls) /\ Len(From(calls, i)) = Len(calls) - i + 1
  BY <1>1, SubSeqProperties DEF From
<1>3. From(calls, i) # <<>>
  BY <1>1, <1>2
<1> QED
  BY <1>1, <1>2, <1>3, HeadTailOfSubSeq DEF From

LEMMA NoMoreCalls ==
  ASSUME NEW calls \in Seq(Calls)
  PROVE  From(calls, Len(calls) + 1) = <<>>
BY SubSeqEmpty DEF From

LEMMA AllCalls ==
  ASSUME NEW calls \in Seq(Calls)
  PROVE  From(calls, 1) = calls
BY SubSeqFull DEF From

\* The orders of msgParse, by the mode that is reported in the end.
BuildLive  == setAll \o <<"initLive", "spawn", "live">>
BuildLocal == setAll \o <<"spawn", "local">>
StartsLive == startLive \o <<"live">>
StopsLive  == stopLive \o <<"local">>
StopsAll   == stopStreaming \o <<"untilStopped", "ready">>

\* all is first and then second.
Joined(all, first, second) ==
  /\ all \in Seq(Calls)
  /\ Len(all) = Len(first) + Len(second)
  /\ \A i \in 1..Len(first) : all[i] = first[i]
  /\ \A j \in Len(first) + 1 .. Len(first) + Len(second) :
       \E i \in 1..Len(second) : j = Len(first) + i /\ all[j] = second[i]

LEMMA JoinedCalls ==
  ASSUME NEW first \in Seq(Calls), NEW second \in Seq(Calls)
  PROVE  Joined(first \o second, first, second)
<1>1. /\ first \o second \in Seq(Calls)
      /\ Len(first \o second) = Len(first) + Len(second)
      /\ \A i \in 1..Len(first) : (first \o second)[i] = first[i]
      /\ \A i \in Len(first) + 1 .. Len(first) + Len(second) :
           (first \o second)[i] = second[i - Len(first)]
  BY ConcatProperties, LenProperties
<1> QED
  BY <1>1, LenProperties DEF Joined

LEMMA StopCalls ==
  /\ stopStreaming \in Seq(Calls) /\ Len(stopStreaming) = 5
  /\ stopStreaming[1] = "quit" /\ stopStreaming[2] = "setNull"
  /\ stopStreaming[3] = "unrefPipeline" /\ stopStreaming[4] = "removeWatch"
  /\ stopStreaming[5] = "unrefLoop"
BY DEF stopStreaming, Calls

LEMMA StopsAllCalls ==
  /\ StopsAll \in Seq(Calls) /\ Len(StopsAll) = 7
  /\ StopsAll[1] = "quit" /\ StopsAll[2] = "setNull"
  /\ StopsAll[3] = "unrefPipeline" /\ StopsAll[4] = "removeWatch" /\ StopsAll[5] = "unrefLoop"
  /\ StopsAll[6] = "untilStopped" /\ StopsAll[7] = "ready"
<1> DEFINE rest == <<"untilStopped", "ready">>
<1>1. rest \in Seq(Calls) /\ Len(rest) = 2 /\ rest[1] = "untilStopped" /\ rest[2] = "ready"
  BY DEF Calls
<1> HIDE DEF rest
<1>2. Joined(StopsAll, stopStreaming, rest)
  BY <1>1, StopCalls, JoinedCalls DEF StopsAll, rest
<1>3. StopsAll \in Seq(Calls) /\ Len(StopsAll) = 7
  BY <1>1, <1>2, StopCalls DEF Joined
<1>4. \A i \in 1..5 : StopsAll[i] = stopStreaming[i]
  BY <1>2, StopCalls DEF Joined
<1>5. StopsAll[6] = rest[1] /\ StopsAll[7] = rest[2]
  BY <1>1, <1>2, StopCalls DEF Joined
<1> QED
  BY <1>1, <1>3, <1>4, <1>5, StopCalls

Stops == {"quit", "setNull", "unrefPipeline", "removeWatch", "unrefLoop",
          "binNull", "removeBin", "unrefBin"}

LEMMA SetAllCalls ==
  /\ setAll \in Seq(Calls) /\ Len(setAll) = 11
  /\ \A i \in 1..8 : setAll[i] \in Stops
  /\ setAll[9] = "newLoop" /\ setAll[10] = "newPipeline" /\ setAll[11] = "addBranches"
<1> DEFINE stops == stopStreaming \o stopLive
<1>1. /\ stopLive \in Seq(Calls) /\ Len(stopLive) = 3
      /\ stopLive[1] = "binNull" /\ stopLive[2] = "removeBin" /\ stopLive[3] = "unrefBin"
  BY DEF stopLive, Calls
<1>2. /\ initialize \in Seq(Calls) /\ Len(initialize) = 3 /\ initialize[1] = "newLoop"
      /\ initialize[2] = "newPipeline" /\ initialize[3] = "addBranches"
  BY DEF initialize, Calls
<1>3. Joined(stops, stopStreaming, stopLive)
  BY <1>1, StopCalls, JoinedCalls
<1> HIDE DEF stops
<1>4. stops \in Seq(Calls) /\ Len(stops) = 8
  BY <1>1, <1>3, StopCalls DEF Joined
<1>5. \A i \in 1..8 : stops[i] \in Stops
  <2>1. \A i \in 1..5 : stops[i] = stopStreaming[i]
    BY <1>3, StopCalls DEF Joined
  <2>2. \A j \in 1..5 : j = 1 \/ j = 2 \/ j = 3 \/ j = 4 \/ j = 5
    OBVIOUS
  <2>3. \A i \in 1..5 : stops[i] \in Stops
    BY <2>1, <2>2, StopCalls DEF Stops
  <2>4. stops[6] = stopLive[1] /\ stops[7] = stopLive[2] /\ stops[8] = stopLive[3]
    BY <1>1, <1>3, StopCalls DEF Joined
  <2>5. \A i \in 1..8 : i \in 1..5 \/ i = 6 \/ i = 7 \/ i = 8
    OBVIOUS
  <2> QED
    BY <1>1, <2>3, <2>4, <2>5 DEF Stops
<1>6. Joined(setAll, stops, initialize)
  BY <1>2, <1>4, JoinedCalls DEF setAll, stops
<1>7. setAll \in Seq(Calls) /\ Len(setAll) = 11
  BY <1>2, <1>4, <1>6 DEF Joined
<1>8. \A i \in 1..8 : setAll[i] = stops[i]
  BY <1>4, <1>6 DEF Joined
<1>9. setAll[9] = initialize[1] /\ setAll[10] = initialize[2] /\ setAll[11] = initialize[3]
  BY <1>2, <1>4, <1>6 DEF Joined
<1> QED
  BY <1>2, <1>5, <1>7, <1>8, <1>9

LEMMA BuildLiveCalls ==
  /\ BuildLive \in Seq(Calls) /\ Len(BuildLive) = 14
  /\ \A i \in 1..11 : BuildLive[i] = setAll[i]
  /\ BuildLive[12] = "initLive" /\ BuildLive[13] = "spawn" /\ BuildLive[14] = "live"
<1> DEFINE rest == <<"initLive", "spawn", "live">>
<1>1. /\ rest \in Seq(Calls) /\ Len(rest) = 3
      /\ rest[1] = "initLive" /\ rest[2] = "spawn" /\ rest[3] = "live"
  BY DEF Calls
<1> HIDE DEF rest
<1>2. Joined(BuildLive, setAll, rest)
  BY <1>1, SetAllCalls, JoinedCalls DEF BuildLive, rest
<1>3. BuildLive \in Seq(Calls) /\ Len(BuildLive) = 14
  BY <1>1, <1>2, SetAllCalls DEF Joined
<1>4. \A i \in 1..11 : BuildLive[i] = setAll[i]
  BY <1>2, SetAllCalls DEF Joined
<1>5. BuildLive[12] = rest[1] /\ BuildLive[13] = rest[2] /\ BuildLive[14] = rest[3]
  BY <1>1, <1>2, SetAllCalls DEF Joined
<1> QED
  BY <1>1, <1>3, <1>4, <1>5

LEMMA BuildLocalCalls ==
  /\ BuildLocal \in Seq(Calls) /\ Len(BuildLocal) = 13
  /\ \A i \in 1..11 : BuildLocal[i] = setAll[i]
  /\ BuildLocal[12] = "spawn" /\ BuildLocal[13] = "local"
<1> DEFINE rest == <<"spawn", "local">>
<1>1. rest \in Seq(Calls) /\ Len(rest) = 2 /\ rest[1] = "spawn" /\ rest[2] = "local"
  BY DEF Calls
<1> HIDE DEF rest
<1>2. Joined(BuildLocal, setAll, rest)
  BY <1>1, SetAllCalls, JoinedCalls DEF BuildLocal, rest
<1>3. BuildLocal \in Seq(Calls) /\ Len(BuildLocal) = 13
  BY <1>1, <1>2, SetAllCalls DEF Joined
<1>4. \A i \in 1..11 : BuildLocal[i] = setAll[i]
  BY <1>2, SetAllCalls DEF Joined
<1>5. BuildLocal[12] = rest[1] /\ BuildLocal[13] = rest[2]
  BY <1>1, <1>2, SetAllCalls DEF Joined
<1> QED
  BY <1>1, <1>3, <1>4, <1>5

LEMMA LiveCalls ==
  /\ StartsLive \in Seq(Calls) /\ Len(StartsLive) = 4
  /\ StartsLive[1] = "pause" /\ StartsLive[2] = "initLive"
  /\ StartsLive[3] = "resume" /\ StartsLive[4] = "live"
  /\ StopsLive \in Seq(Calls) /\ Len(StopsLive) = 4
  /\ StopsLive[1] = "binNull" /\ StopsLive[2] = "removeBin"
  /\ StopsLive[3] = "unrefBin" /\ StopsLive[4] = "local"
BY SMTT(60) DEF StartsLive, StopsLive, startLive, stopLive, Calls

-----------------------------------------------------------------------------
(* The stages of an order: a sequence of calls is left, and one call leads on *)

Builds == {BuildLive, BuildLocal}
Modes == {"live", "local"}

\* setAll is stopping what there was, up to its making a loop.
MakesLoop(c) == \E b \in Builds : \E i \in 1..9 : c = From(b, i)
MakesPipe(c) == \E b \in Builds : c = From(b, 10)
\* The pipeline is there, and is given its branches and its thread.
Spawns(c) == \/ \E i \in 11..13 : c = From(BuildLive, i)
             \/ \E i \in 11..12 : c = From(BuildLocal, i)
\* What was asked for is done, and is reported.
Reports(c) == \E mode \in Modes : c = <<mode>>
Pauses(c) == c = From(StartsLive, 1)
Resumes(c) == \E i \in 2..3 : c = From(StartsLive, i)
DropsLive(c) == \E i \in 1..3 : c = From(StopsLive, i)
\* An off: the loop, the pipeline, and the rest of stopStreaming, until it succeeds.
Quits(c) == c = From(StopsAll, 1)
SetsNull(c) == c = From(StopsAll, 2)
TurnsReady(c) == \E i \in 3..7 : c = From(StopsAll, i)

\* A GST thread plays and runs its loop, or is stopping the stream for bus_call.
Starting(c) == c = play \/ c = <<"run">>
StopsAt(c, i) == c = From(stopStreaming, i)
Stopping(c) == \E i \in 1..5 : StopsAt(c, i)

LEMMA OrderLengths ==
  /\ BuildLive \in Seq(Calls) /\ Len(BuildLive) = 14
  /\ BuildLocal \in Seq(Calls) /\ Len(BuildLocal) = 13
  /\ StartsLive \in Seq(Calls) /\ Len(StartsLive) = 4
  /\ StopsLive \in Seq(Calls) /\ Len(StopsLive) = 4
  /\ StopsAll \in Seq(Calls) /\ Len(StopsAll) = 7
BY BuildLiveCalls, BuildLocalCalls, LiveCalls, StopsAllCalls

LEMMA LastCall ==
  ASSUME NEW calls \in Seq(Calls), Len(calls) > 0
  PROVE  From(calls, Len(calls)) = <<calls[Len(calls)]>>
<1>1. Len(calls) \in 1..Len(calls) /\ Len(calls) \in Nat
  BY LenProperties
<1> DEFINE c == From(calls, Len(calls))
<1>2. c \in Seq(Calls) /\ c # <<>> /\ Head(c) = calls[Len(calls)] /\ Tail(c) = <<>>
  BY <1>1, NextCall, NoMoreCalls
<1> HIDE DEF c
<1>3. Len(c) = 1 /\ c[1] = calls[Len(calls)]
  <2>1. Len(Tail(c)) = Len(c) - 1 /\ Len(c) \in Nat
    BY <1>2, HeadTailProperties, LenProperties
  <2>2. Len(Tail(c)) = 0
    BY <1>2, EmptySeq
  <2>3. Head(c) = c[1]
    OBVIOUS
  <2> QED
    BY <1>2, <2>1, <2>2, <2>3
<1>4. c = <<calls[Len(calls)]>>
  BY <1>2, <1>3, SeqEqual
<1> QED
  BY <1>4 DEF c

LEMMA LastCalls ==
  /\ From(BuildLive, Len(BuildLive)) = <<BuildLive[Len(BuildLive)]>>
  /\ From(BuildLocal, Len(BuildLocal)) = <<BuildLocal[Len(BuildLocal)]>>
  /\ From(StartsLive, Len(StartsLive)) = <<StartsLive[Len(StartsLive)]>>
  /\ From(StopsLive, Len(StopsLive)) = <<StopsLive[Len(StopsLive)]>>
  /\ From(StopsAll, Len(StopsAll)) = <<StopsAll[Len(StopsAll)]>>
<1>1. From(BuildLive, Len(BuildLive)) = <<BuildLive[Len(BuildLive)]>>
  <2>1. BuildLive \in Seq(Calls) /\ Len(BuildLive) > 0
    BY OrderLengths
  <2> QED
    BY <2>1, LastCall
<1>2. From(BuildLocal, Len(BuildLocal)) = <<BuildLocal[Len(BuildLocal)]>>
  <2>1. BuildLocal \in Seq(Calls) /\ Len(BuildLocal) > 0
    BY OrderLengths
  <2> QED
    BY <2>1, LastCall
<1>3. From(StartsLive, Len(StartsLive)) = <<StartsLive[Len(StartsLive)]>>
  <2>1. StartsLive \in Seq(Calls) /\ Len(StartsLive) > 0
    BY OrderLengths
  <2> QED
    BY <2>1, LastCall
<1>4. From(StopsLive, Len(StopsLive)) = <<StopsLive[Len(StopsLive)]>>
  <2>1. StopsLive \in Seq(Calls) /\ Len(StopsLive) > 0
    BY OrderLengths
  <2> QED
    BY <2>1, LastCall
<1>5. From(StopsAll, Len(StopsAll)) = <<StopsAll[Len(StopsAll)]>>
  <2>1. StopsAll \in Seq(Calls) /\ Len(StopsAll) > 0
    BY OrderLengths
  <2> QED
    BY <2>1, LastCall
<1> QED
  BY <1>1, <1>2, <1>3, <1>4, <1>5

LEMMA MakesLoopStep ==
  ASSUME NEW c, MakesLoop(c)
  PROVE  /\ c # <<>> /\ c \in Seq(Calls)
         /\ \/ Head(c) \in Stops /\ MakesLoop(Tail(c))
            \/ Head(c) = "newLoop" /\ MakesPipe(Tail(c))
<1>1. PICK b \in Builds, i \in 1..9 : c = From(b, i)
  BY DEF MakesLoop
<1>2. b \in Seq(Calls) /\ i \in 1..Len(b)
  <2>1. CASE b = BuildLive
    BY <2>1, OrderLengths
  <2>2. CASE b = BuildLocal
    BY <2>2, OrderLengths
  <2> QED
    BY <2>1, <2>2 DEF Builds
<1>3. /\ c # <<>> /\ c \in Seq(Calls) /\ Head(c) = b[i]
      /\ Tail(c) = From(b, i + 1)
  BY <1>1, <1>2, NextCall
<1>4. b[i] = setAll[i]
  <2>1. i \in 1..11
    OBVIOUS
  <2> QED
    BY <2>1, BuildLiveCalls, BuildLocalCalls DEF Builds
<1>5. CASE i \in 1..8
  <2>1. i + 1 \in 1..9
    BY <1>5
  <2>2. setAll[i] \in Stops
    BY <1>5, SetAllCalls
  <2> QED
    BY <1>3, <1>4, <2>1, <2>2 DEF MakesLoop
<1>6. CASE i = 9
  <2>1. i + 1 = 10
    BY <1>6
  <2> QED
    BY <1>3, <1>4, <1>6, <2>1, SetAllCalls DEF MakesPipe
<1> QED
  BY <1>5, <1>6

LEMMA MakesPipeStep ==
  ASSUME NEW c, MakesPipe(c)
  PROVE  /\ c # <<>> /\ c \in Seq(Calls)
         /\ Head(c) = "newPipeline" /\ Spawns(Tail(c))
<1>1. PICK b \in Builds : c = From(b, 10)
  BY DEF MakesPipe
<1>2. b \in Seq(Calls) /\ 10 \in 1..Len(b) /\ b[10] = setAll[10]
  BY BuildLiveCalls, BuildLocalCalls DEF Builds
<1>3. /\ c # <<>> /\ c \in Seq(Calls) /\ Head(c) = setAll[10]
      /\ Tail(c) = From(b, 10 + 1)
  BY <1>1, <1>2, NextCall
<1>4. 11 \in 11..12 /\ 11 \in 11..13 /\ 10 + 1 = 11
  OBVIOUS
<1>5. Tail(c) = From(b, 11)
  BY <1>3, <1>4
<1> QED
  BY <1>3, <1>4, <1>5, SetAllCalls DEF Spawns, Builds

LEMMA SpawnsStep ==
  ASSUME NEW c, Spawns(c)
  PROVE  /\ c # <<>> /\ c \in Seq(Calls)
         /\ \/ Head(c) \in {"addBranches", "initLive"} /\ Spawns(Tail(c))
            \/ Head(c) = "spawn" /\ Reports(Tail(c))
<1> DEFINE Goal == /\ c # <<>> /\ c \in Seq(Calls)
                   /\ \/ Head(c) \in {"addBranches", "initLive"} /\ Spawns(Tail(c))
                      \/ Head(c) = "spawn" /\ Reports(Tail(c))
<1>1. setAll[11] = "addBranches" /\ BuildLive[11] = setAll[11] /\ BuildLocal[11] = setAll[11]
  BY SetAllCalls, BuildLiveCalls, BuildLocalCalls
<1>2. ASSUME NEW i \in 11..13, c = From(BuildLive, i) PROVE Goal
  <2>1. BuildLive \in Seq(Calls) /\ i \in 1..Len(BuildLive)
    BY OrderLengths
  <2>2. /\ c # <<>> /\ c \in Seq(Calls) /\ Head(c) = BuildLive[i]
        /\ Tail(c) = From(BuildLive, i + 1)
    BY <1>2, <2>1, NextCall
  <2>3. CASE i \in 11..12
    <3>1. i + 1 \in 11..13 /\ (i = 11 \/ i = 12)
      BY <2>3
    <3> QED
      BY <1>1, <2>2, <3>1, BuildLiveCalls DEF Spawns
  <2>4. CASE i = 13
    <3>1. From(BuildLive, Len(BuildLive)) = <<BuildLive[Len(BuildLive)]>>
      BY LastCalls
    <3>2. i + 1 = 14 /\ Len(BuildLive) = 14 /\ BuildLive[14] = "live" /\ BuildLive[13] = "spawn"
      BY <2>4, BuildLiveCalls
    <3>3. Tail(c) = <<"live">>
      BY <2>2, <3>1, <3>2
    <3> QED
      BY <2>2, <2>4, <3>2, <3>3 DEF Reports, Modes
  <2> QED
    BY <2>3, <2>4
<1>3. ASSUME NEW i \in 11..12, c = From(BuildLocal, i) PROVE Goal
  <2>1. BuildLocal \in Seq(Calls) /\ i \in 1..Len(BuildLocal)
    BY OrderLengths
  <2>2. /\ c # <<>> /\ c \in Seq(Calls) /\ Head(c) = BuildLocal[i]
        /\ Tail(c) = From(BuildLocal, i + 1)
    BY <1>3, <2>1, NextCall
  <2>3. CASE i = 11
    <3>1. i + 1 = 12 /\ 12 \in 11..12
      BY <2>3
    <3> QED
      BY <1>1, <2>2, <2>3, <3>1 DEF Spawns
  <2>4. CASE i = 12
    <3>1. From(BuildLocal, Len(BuildLocal)) = <<BuildLocal[Len(BuildLocal)]>>
      BY LastCalls
    <3>2. /\ i + 1 = 13 /\ Len(BuildLocal) = 13
          /\ BuildLocal[13] = "local" /\ BuildLocal[12] = "spawn"
      BY <2>4, BuildLocalCalls
    <3>3. Tail(c) = <<"local">>
      BY <2>2, <3>1, <3>2
    <3> QED
      BY <2>2, <2>4, <3>2, <3>3 DEF Reports, Modes
  <2> QED
    BY <2>3, <2>4
<1> QED
  BY <1>2, <1>3 DEF Spawns

LEMMA ReportsStep ==
  ASSUME NEW c, Reports(c)
  PROVE  c # <<>> /\ c \in Seq(Calls) /\ Head(c) \in Modes /\ Tail(c) = <<>>
<1>1. PICK mode \in Modes : c = <<mode>>
  BY DEF Reports
<1>2. mode \in Calls
  BY DEF Modes, Calls
<1> QED
  BY <1>1, <1>2

LEMMA PausesStep ==
  ASSUME NEW c, Pauses(c)
  PROVE  c # <<>> /\ c \in Seq(Calls) /\ Head(c) = "pause" /\ Resumes(Tail(c))
<1>1. 1 \in 1..Len(StartsLive) /\ StartsLive \in Seq(Calls)
  BY OrderLengths
<1>2. c # <<>> /\ c \in Seq(Calls) /\ Head(c) = "pause" /\ Tail(c) = From(StartsLive, 1 + 1)
  BY <1>1, LiveCalls, NextCall DEF Pauses
<1>3. 1 + 1 \in 2..3
  OBVIOUS
<1> QED
  BY <1>2, <1>3 DEF Resumes

LEMMA ResumesStep ==
  ASSUME NEW c, Resumes(c)
  PROVE  /\ c # <<>> /\ c \in Seq(Calls)
         /\ \/ Head(c) = "initLive" /\ Resumes(Tail(c))
            \/ Head(c) = "resume" /\ Reports(Tail(c))
<1>1. PICK i \in 2..3 : c = From(StartsLive, i)
  BY DEF Resumes
<1>2. StartsLive \in Seq(Calls) /\ i \in 1..Len(StartsLive)
  BY OrderLengths
<1>3. /\ c # <<>> /\ c \in Seq(Calls) /\ Head(c) = StartsLive[i]
      /\ Tail(c) = From(StartsLive, i + 1)
  BY <1>1, <1>2, NextCall
<1>4. CASE i = 2
  <2>1. i + 1 \in 2..3
    BY <1>4
  <2> QED
    BY <1>3, <1>4, <2>1, LiveCalls DEF Resumes
<1>5. CASE i = 3
  <2>1. From(StartsLive, Len(StartsLive)) = <<StartsLive[Len(StartsLive)]>>
    BY LastCalls
  <2>2. /\ i + 1 = 4 /\ Len(StartsLive) = 4
        /\ StartsLive[4] = "live" /\ StartsLive[3] = "resume"
    BY <1>5, LiveCalls
  <2>3. Tail(c) = <<"live">>
    BY <1>3, <2>1, <2>2
  <2> QED
    BY <1>3, <1>5, <2>2, <2>3 DEF Reports, Modes
<1> QED
  BY <1>4, <1>5

LEMMA DropsLiveStep ==
  ASSUME NEW c, DropsLive(c)
  PROVE  /\ c # <<>> /\ c \in Seq(Calls) /\ Head(c) \in {"binNull", "removeBin", "unrefBin"}
         /\ DropsLive(Tail(c)) \/ Reports(Tail(c))
<1>1. PICK i \in 1..3 : c = From(StopsLive, i)
  BY DEF DropsLive
<1>2. StopsLive \in Seq(Calls) /\ i \in 1..Len(StopsLive)
  BY OrderLengths
<1>3. /\ c # <<>> /\ c \in Seq(Calls) /\ Head(c) = StopsLive[i]
      /\ Tail(c) = From(StopsLive, i + 1)
  BY <1>1, <1>2, NextCall
<1>4. CASE i \in 1..2
  <2>1. i + 1 \in 1..3 /\ (i = 1 \/ i = 2)
    BY <1>4
  <2> QED
    BY <1>3, <2>1, LiveCalls DEF DropsLive
<1>5. CASE i = 3
  <2>1. From(StopsLive, Len(StopsLive)) = <<StopsLive[Len(StopsLive)]>>
    BY LastCalls
  <2>2. /\ i + 1 = 4 /\ Len(StopsLive) = 4
        /\ StopsLive[4] = "local" /\ StopsLive[3] = "unrefBin"
    BY <1>5, LiveCalls
  <2>3. Tail(c) = <<"local">>
    BY <1>3, <2>1, <2>2
  <2> QED
    BY <1>3, <1>5, <2>2, <2>3 DEF Reports, Modes
<1> QED
  BY <1>4, <1>5

LEMMA QuitsStep ==
  ASSUME NEW c, Quits(c) \/ SetsNull(c)
  PROVE  /\ c # <<>> /\ c \in Seq(Calls)
         /\ Quits(c) => Head(c) = "quit" /\ SetsNull(Tail(c))
         /\ SetsNull(c) => Head(c) = "setNull" /\ TurnsReady(Tail(c))
<1>1. 1 \in 1..Len(StopsAll) /\ 2 \in 1..Len(StopsAll) /\ StopsAll \in Seq(Calls)
  BY OrderLengths
<1>2. Quits(c) => c # <<>> /\ c \in Seq(Calls) /\ Head(c) = "quit" /\ Tail(c) = From(StopsAll, 1 + 1)
  BY <1>1, StopsAllCalls, NextCall DEF Quits
<1>3. SetsNull(c) => c # <<>> /\ c \in Seq(Calls) /\ Head(c) = "setNull" /\ Tail(c) = From(StopsAll, 2 + 1)
  BY <1>1, StopsAllCalls, NextCall DEF SetsNull
<1>4. 3 \in 3..7 /\ 1 + 1 = 2 /\ 2 + 1 = 3
  OBVIOUS
<1> QED
  BY <1>2, <1>3, <1>4 DEF SetsNull, TurnsReady

LEMMA TurnsReadyStep ==
  ASSUME NEW c, TurnsReady(c)
  PROVE  /\ c # <<>> /\ c \in Seq(Calls)
         /\ \/ Head(c) \in {"unrefPipeline", "removeWatch", "unrefLoop"} /\ TurnsReady(Tail(c))
            \/ Head(c) = "untilStopped" /\ TurnsReady(Tail(c)) /\ Quits(stopStreaming \o c)
            \/ Head(c) = "ready" /\ Tail(c) = <<>>
<1>1. PICK i \in 3..7 : c = From(StopsAll, i)
  BY DEF TurnsReady
<1>2. i \in 1..Len(StopsAll) /\ StopsAll \in Seq(Calls)
  BY OrderLengths
<1>3. /\ c # <<>> /\ c \in Seq(Calls) /\ Head(c) = StopsAll[i]
      /\ Tail(c) = From(StopsAll, i + 1)
  BY <1>1, <1>2, NextCall
<1>4. CASE i \in 3..5
  <2>1. i + 1 \in 3..7 /\ (i = 3 \/ i = 4 \/ i = 5)
    BY <1>4
  <2> QED
    BY <1>3, <2>1, StopsAllCalls DEF TurnsReady
<1>5. CASE i = 6
  <2>1. i + 1 = 7 /\ 7 \in 3..7 /\ Len(StopsAll) = 7 /\ StopsAll[7] = "ready" /\ StopsAll[6] = "untilStopped"
    BY <1>5, StopsAllCalls
  <2>2. From(StopsAll, Len(StopsAll)) = <<StopsAll[Len(StopsAll)]>>
    BY LastCalls
  <2>3. Tail(c) = <<"ready">> /\ Head(c) = "untilStopped" /\ TurnsReady(Tail(c))
    BY <1>3, <1>5, <2>1, <2>2 DEF TurnsReady
  <2>4. c = <<"untilStopped", "ready">>
    <3>1. Len(Tail(c)) = Len(c) - 1 /\ Len(c) \in Nat
      BY <1>3, HeadTailProperties, LenProperties
    <3>2. \A j \in 1..Len(Tail(c)) : Tail(c)[j] = c[j + 1]
      BY <1>3, HeadTailProperties
    <3>3. Len(Tail(c)) = 1 /\ Tail(c)[1] = "ready"
      <4> DEFINE e == <<"ready">>
      <4>1. Len(e) = 1 /\ e[1] = "ready"
        OBVIOUS
      <4> HIDE DEF e
      <4>2. Tail(c) = e
        BY <2>3 DEF e
      <4> QED
        BY <4>1, <4>2
    <3>4. 1 \in 1..Len(Tail(c)) /\ 1 + 1 = 2
      BY <3>3
    <3>5. Len(c) = 2 /\ c[2] = "ready"
      BY <3>1, <3>2, <3>3, <3>4
    <3>6. c[1] = "untilStopped"
      <4>1. Head(c) = c[1]
        OBVIOUS
      <4> QED
        BY <2>3, <4>1
    <3> DEFINE e == <<"untilStopped", "ready">>
    <3>7. e \in Seq(Calls) /\ Len(e) = 2 /\ e[1] = "untilStopped" /\ e[2] = "ready"
      BY DEF Calls
    <3> HIDE DEF e
    <3>8. \A j \in 1..2 : j = 1 \/ j = 2
      OBVIOUS
    <3>9. \A j \in 1..Len(c) : c[j] = e[j]
      BY <3>5, <3>6, <3>7, <3>8
    <3>10. c = e
      BY <1>3, <3>5, <3>7, <3>9, SeqEqual
    <3> QED
      BY <3>10 DEF e
  <2>5. stopStreaming \o c = StopsAll
    BY <2>4 DEF StopsAll
  <2>6. StopsAll = From(StopsAll, 1)
    BY OrderLengths, AllCalls
  <2> QED
    BY <1>3, <2>3, <2>5, <2>6 DEF Quits
<1>6. CASE i = 7
  <2>1. From(StopsAll, Len(StopsAll) + 1) = <<>>
    BY OrderLengths, NoMoreCalls
  <2>2. Len(StopsAll) = i /\ StopsAll[i] = "ready"
    BY <1>6, StopsAllCalls
  <2> QED
    BY <1>3, <2>1, <2>2
<1> QED
  BY <1>4, <1>5, <1>6

LEMMA StartingStep ==
  ASSUME NEW c, Starting(c)
  PROVE  /\ c # <<>> /\ c \in Seq(Calls)
         /\ c = play => Head(c) = "setPlaying" /\ Tail(c) = <<"run">>
         /\ c = <<"run">> => Head(c) = "run" /\ Tail(c) = <<>>
<1>1. /\ play # <<>> /\ play \in Seq(Calls)
      /\ Head(play) = "setPlaying" /\ Tail(play) = <<"run">>
  BY DEF play, Calls
<1>2. /\ <<"run">> # <<>> /\ <<"run">> \in Seq(Calls)
      /\ Head(<<"run">>) = "run" /\ Tail(<<"run">>) = <<>>
  BY DEF Calls
<1> QED
  BY <1>1, <1>2 DEF Starting

LEMMA StoppingStep ==
  ASSUME NEW c, NEW i \in 1..5, StopsAt(c, i)
  PROVE  /\ c # <<>> /\ c \in Seq(Calls) /\ Head(c) = stopStreaming[i]
         /\ i < 5 => StopsAt(Tail(c), i + 1)
         /\ i = 5 => Tail(c) = <<>>
<1>1. stopStreaming \in Seq(Calls) /\ i \in 1..Len(stopStreaming)
  BY StopCalls
<1>2. /\ c # <<>> /\ c \in Seq(Calls) /\ Head(c) = stopStreaming[i]
      /\ Tail(c) = From(stopStreaming, i + 1)
  BY <1>1, NextCall DEF StopsAt
<1>3. From(stopStreaming, Len(stopStreaming) + 1) = <<>> /\ Len(stopStreaming) = 5
  BY StopCalls, NoMoreCalls
<1> QED
  BY <1>2, <1>3 DEF StopsAt

-----------------------------------------------------------------------------
(* One call *)

\* A step that makes a call makes the next one of the thread.
LEMMA CallsDo ==
  ASSUME NEW t \in Threads, MakesCall(t)
  PROVE  /\ alive /\ script[t] # <<>>
         /\ Head(script[t]) = "quit" => Quit(t)
         /\ Head(script[t]) = "setNull" => SetNull(t)
         /\ Head(script[t]) = "unrefPipeline" => UnrefPipeline(t)
         /\ Head(script[t]) = "removeWatch" => RemoveWatch(t)
         /\ Head(script[t]) = "unrefLoop" => UnrefLoop(t)
         /\ Head(script[t]) = "untilStopped" => UntilStopped(t)
         /\ Head(script[t]) \in {"binNull", "removeBin", "unrefBin"} => UseBin(t)
         /\ Head(script[t]) = "newLoop" => NewLoop(t)
         /\ Head(script[t]) = "newPipeline" => NewPipeline(t)
         /\ Head(script[t]) = "addBranches" => AddBranches(t)
         /\ Head(script[t]) = "initLive" => InitLive(t)
         /\ Head(script[t]) \in Modes \cup {"ready"} => Report(t)
         /\ Head(script[t]) = "spawn" => Spawn(t)
         /\ Head(script[t]) = "run" => Run(t)
         /\ Head(script[t]) = "pause" => SetState(t, "pause", "paused")
         /\ Head(script[t]) = "resume" => SetState(t, "resume", "playing")
         /\ Head(script[t]) = "setPlaying" => SetState(t, "setPlaying", "playing")
<1> DEFINE call == Head(script[t])
           Now == alive /\ script[t] # <<>>
<1>1. Quit(t) => Now /\ call = "quit"
  BY DEF Quit, Makes
<1>2. SetNull(t) => Now /\ call = "setNull"
  BY DEF SetNull, Makes
<1>3. UnrefPipeline(t) => Now /\ call = "unrefPipeline"
  BY DEF UnrefPipeline, Makes
<1>4. RemoveWatch(t) => Now /\ call = "removeWatch"
  BY DEF RemoveWatch, Makes
<1>5. UnrefLoop(t) => Now /\ call = "unrefLoop"
  BY DEF UnrefLoop, Makes
<1>6. UntilStopped(t) => Now /\ call = "untilStopped"
  BY DEF UntilStopped, Makes
<1>7. UseBin(t) => Now /\ call \in {"binNull", "removeBin", "unrefBin"}
  BY DEF UseBin, Makes
<1>8. NewLoop(t) => Now /\ call = "newLoop"
  BY DEF NewLoop, Makes
<1>9. NewPipeline(t) => Now /\ call = "newPipeline"
  BY DEF NewPipeline, Makes
<1>10. AddBranches(t) => Now /\ call = "addBranches"
  BY DEF AddBranches, Makes
<1>11. InitLive(t) => Now /\ call = "initLive"
  BY DEF InitLive, Makes
<1>12. Report(t) => Now /\ call \in {"ready", "local", "live"}
  BY DEF Report, Makes
<1>13. Spawn(t) => Now /\ call = "spawn"
  BY DEF Spawn, Makes
<1>14. Run(t) => Now /\ call = "run"
  BY DEF Run, Makes
<1>15. \A c, state : SetState(t, c, state) => Now /\ call = c
  BY DEF SetState, Makes
<1> HIDE DEF call, Now
<1>16. MakesCall(t) => Now
  BY <1>1, <1>2, <1>3, <1>4, <1>5, <1>6, <1>7, <1>8, <1>9, <1>10, <1>11, <1>12, <1>13,
     <1>14, <1>15 DEF MakesCall
<1>17. /\ call = "quit" => Quit(t)
       /\ call = "setNull" => SetNull(t)
       /\ call = "unrefPipeline" => UnrefPipeline(t)
       /\ call = "removeWatch" => RemoveWatch(t)
       /\ call = "unrefLoop" => UnrefLoop(t)
       /\ call = "untilStopped" => UntilStopped(t)
       /\ call \in {"binNull", "removeBin", "unrefBin"} => UseBin(t)
       /\ call = "newLoop" => NewLoop(t)
       /\ call = "newPipeline" => NewPipeline(t)
  BY <1>1, <1>2, <1>3, <1>4, <1>5, <1>6, <1>7, <1>8, <1>9, <1>10, <1>11, <1>12, <1>13,
     <1>14, <1>15 DEF MakesCall
<1>18. /\ call = "addBranches" => AddBranches(t)
       /\ call = "initLive" => InitLive(t)
       /\ call \in Modes \cup {"ready"} => Report(t)
       /\ call = "spawn" => Spawn(t)
       /\ call = "run" => Run(t)
       /\ call = "pause" => SetState(t, "pause", "paused")
       /\ call = "resume" => SetState(t, "resume", "playing")
       /\ call = "setPlaying" => SetState(t, "setPlaying", "playing")
  BY <1>1, <1>2, <1>3, <1>4, <1>5, <1>6, <1>7, <1>8, <1>9, <1>10, <1>11, <1>12, <1>13,
     <1>14, <1>15 DEF MakesCall, Modes
<1> QED
  BY <1>16, <1>17, <1>18 DEF call, Now

\* What a call leaves of the orders.
LEMMA CallScripts ==
  ASSUME NEW t \in Threads, MakesCall(t)
  PROVE  \/ script' = [script EXCEPT ![t] = Tail(@)] /\ Head(script[t]) # "spawn"
         \/ /\ Head(script[t]) \in {"newPipeline", "addBranches"}
            /\ script' = [script EXCEPT ![t] = <<>>]
         \/ /\ Head(script[t]) = "untilStopped"
            /\ script' = [script EXCEPT ![t] = stopStreaming \o @]
         \/ /\ Head(script[t]) = "spawn"
            /\ \E g \in GstThreads :
                 /\ Unborn(g)
                 /\ script' = [script EXCEPT ![t] = Tail(@), ![g] = play]
<1> DEFINE Next1 == script' = [script EXCEPT ![t] = Tail(@)]
<1>1. /\ Rest(t) => Next1
      /\ Defined(t) => Next1
      /\ \A p : Undefined(t, p) => Next1
  BY DEF Rest, Defined, Undefined
<1>2. Fails(t) => script' = [script EXCEPT ![t] = <<>>]
  BY DEF Fails
<1> HIDE DEF Next1
<1>3. CASE Quit(t) \/ SetNull(t) \/ UnrefPipeline(t) \/ RemoveWatch(t) \/ UnrefLoop(t)
  BY <1>1, <1>3 DEF Quit, SetNull, UnrefPipeline, RemoveWatch, UnrefLoop, Makes, Next1
<1>4. CASE UseBin(t) \/ NewLoop(t) \/ InitLive(t) \/ Run(t)
  BY <1>1, <1>4 DEF UseBin, NewLoop, InitLive, Run, Makes, Next1
<1>5. CASE Report(t)
  BY <1>1, <1>5 DEF Report, Makes, Next1
<1>6. ASSUME NEW c \in {"pause", "resume", "setPlaying"}, NEW state, SetState(t, c, state)
      PROVE  Next1 /\ Head(script[t]) # "spawn"
  BY <1>1, <1>6 DEF SetState, Makes
<1>7. CASE NewPipeline(t) \/ AddBranches(t)
  BY <1>1, <1>2, <1>7 DEF NewPipeline, AddBranches, Makes, Next1
<1>8. CASE UntilStopped(t)
  BY <1>8 DEF UntilStopped, Makes
<1>9. CASE Spawn(t)
  BY <1>9 DEF Spawn, Makes
<1> QED
  BY <1>3, <1>4, <1>5, <1>6, <1>7, <1>8, <1>9 DEF MakesCall, Next1

\* A field of the last of a sequence is set; nothing happens to an empty one.
LEMMA SetLast ==
  ASSUME NEW S, NEW s \in Seq(S), NEW e, Len(s) > 0 => e \in S
  PROVE  /\ [s EXCEPT ![Len(s)] = e] \in Seq(S)
         /\ Len([s EXCEPT ![Len(s)] = e]) = Len(s)
         /\ \A i \in 1..Len(s) : [s EXCEPT ![Len(s)] = e][i] = IF i = Len(s) THEN e ELSE s[i]
<1> DEFINE r == [s EXCEPT ![Len(s)] = e]
           n == Len(s)
<1>1. n \in Nat /\ s \in [1..n -> S] /\ DOMAIN s = 1..n
  BY LenProperties
<1>2. r = [i \in 1..n |-> IF i = n THEN e ELSE s[i]]
  BY <1>1
<1> HIDE DEF r, n
<1>3. \A i \in 1..n : r[i] = IF i = n THEN e ELSE s[i]
  BY <1>2
<1>4. \A i \in 1..n : r[i] \in S
  <2> TAKE i \in 1..n
  <2>1. CASE i = n
    <3>1. n > 0
      BY <1>1
    <3> QED
      BY <1>3, <2>1, <3>1 DEF n
  <2>2. CASE i # n
    BY <1>1, <1>3, <2>2
  <2> QED
    BY <2>1, <2>2
<1>5. r \in [1..n -> S]
  BY <1>2, <1>3, <1>4
<1>6. r \in Seq(S) /\ Len(r) = n
  BY <1>1, <1>5
<1> QED
  BY <1>3, <1>6 DEF r, n

-----------------------------------------------------------------------------
(* Types *)

PipeStates == {"null", "paused", "playing", "freed", "lost"}
LoopStates == [owned : BOOLEAN, on : BOOLEAN]

\* The types of everything but the scripts.
ObjectsOK ==
  /\ status \in {"ready", "local", "live"}
  /\ pipes \in Seq(PipeStates)
  /\ loops \in Seq(LoopStates)
  /\ Len(pipes) <= Len(loops) /\ Len(loops) <= MaxBuilds
  /\ watched \subseteq Gens
  /\ bin \in {"none", "loose", "linked", "freed"}
  /\ result \in [Threads -> {"success", "failure"}]
  /\ runs \in [GstThreads -> 0..Len(loops)]
  /\ {alive, crossed} \subseteq BOOLEAN
  /\ misused \subseteq {"pipeline", "loop", "bin"}
  /\ failures \in 0..MaxFailures /\ errors \in 0..MaxErrors

LEMMA UndefinedTypes ==
  ASSUME ObjectsOK, NEW t, NEW pointer \in {"pipeline", "loop", "bin"}, Undefined(t, pointer)
  PROVE  UNCHANGED <<pipes, loops, watched, bin>> /\ alive' \in BOOLEAN
         /\ misused' \subseteq {"pipeline", "loop", "bin"}
BY DEF ObjectsOK, Undefined, objects

\* The last pipeline gets a state, or the last loop a new record.
LEMMA PipeIsSet ==
  ASSUME ObjectsOK, NEW state \in PipeStates, pipes' = [pipes EXCEPT ![Pipe] = state]
  PROVE  /\ pipes' \in Seq(PipeStates) /\ Len(pipes') = Len(pipes)
         /\ \A g \in 1..Len(pipes) : pipes'[g] = IF g = Len(pipes) THEN state ELSE pipes[g]
BY SetLast DEF ObjectsOK, Pipe

LEMMA LoopIsSet ==
  ASSUME ObjectsOK, NEW f, Loop > 0 => f \in LoopStates,
         loops' = [loops EXCEPT ![Loop] = f]
  PROVE  /\ loops' \in Seq(LoopStates) /\ Len(loops') = Len(loops)
         /\ \A k \in 1..Len(loops) : loops'[k] = IF k = Len(loops) THEN f ELSE loops[k]
BY SetLast DEF ObjectsOK, Loop

LEMMA LastLoop ==
  ASSUME ObjectsOK, Loop > 0
  PROVE  /\ Loop \in 1..Len(loops) /\ loops[Loop] \in LoopStates
         /\ [loops[Loop] EXCEPT !.on = FALSE] \in LoopStates
         /\ [loops[Loop] EXCEPT !.on = TRUE] \in LoopStates
         /\ [loops[Loop] EXCEPT !.owned = FALSE] \in LoopStates
<1>1. Loop \in 1..Len(loops)
  BY LenProperties DEF ObjectsOK, Loop
<1>2. loops[Loop] \in LoopStates
  BY <1>1, ElementOfSeq DEF ObjectsOK
<1> QED
  BY <1>1, <1>2 DEF LoopStates

LEMMA FailTypes ==
  ASSUME ObjectsOK, NEW t, Fails(t)
  PROVE  /\ failures' \in 0..MaxFailures
         /\ UNCHANGED <<alive, misused, status, result, runs, crossed, errors>>
<1>1. MaxFailures \in Nat
  BY PipelineAssumption
<1> QED
  BY <1>1 DEF Fails, ObjectsOK

LEMMA CallTypes ==
  ASSUME ObjectsOK, NEW t \in Threads, MakesCall(t),
         Head(script[t]) = "newLoop" => Len(loops) < MaxBuilds,
         Head(script[t]) = "newPipeline" => Len(pipes) < Len(loops),
         Head(script[t]) = "run" => t \in GstThreads
  PROVE  /\ ObjectsOK'
         /\ Len(loops') = IF Head(script[t]) = "newLoop" THEN Len(loops) + 1 ELSE Len(loops)
         /\ Len(pipes') = IF Head(script[t]) = "newPipeline" THEN Len(pipes) + 1 ELSE Len(pipes)
<1> USE PipelineAssumption
<1> DEFINE Same == Len(loops') = Len(loops) /\ Len(pipes') = Len(pipes)
           Kept == ObjectsOK' /\ Same
<1> Len(pipes) \in Nat /\ Len(loops) \in Nat
  BY LenProperties DEF ObjectsOK
<1>1. ASSUME Quit(t) PROVE Kept /\ Head(script[t]) = "quit"
  <2>0. Head(script[t]) = "quit" /\ UNCHANGED others
    BY <1>1 DEF Quit, Makes
  <2>1. CASE LoopReleased
    <3>1. UNCHANGED <<pipes, loops, watched, bin>> /\ alive' \in BOOLEAN
          /\ misused' \subseteq {"pipeline", "loop", "bin"}
      BY <1>1, <2>1, UndefinedTypes DEF Quit
    <3> QED
      BY <2>0, <3>1 DEF ObjectsOK, others
  <2>2. CASE ~LoopReleased
    <3>1. loops' = IF Loop = 0 THEN loops ELSE [loops EXCEPT ![Loop].on = FALSE]
      BY <1>1, <2>2 DEF Quit
    <3>2. UNCHANGED <<alive, misused, pipes, watched, bin>>
      BY <1>1, <2>2 DEF Quit, Defined
    <3>3. loops' \in Seq(LoopStates) /\ Len(loops') = Len(loops)
      BY <3>1, LastLoop, LoopIsSet DEF ObjectsOK, Loop
    <3> QED
      BY <2>0, <3>2, <3>3 DEF ObjectsOK, others
  <2> QED
    BY <2>0, <2>1, <2>2
<1>2. ASSUME SetNull(t) PROVE Kept /\ Head(script[t]) = "setNull"
  <2>0. /\ Head(script[t]) = "setNull" /\ UNCHANGED <<status, runs, crossed, failures, errors>>
        /\ result' \in [Threads -> {"success", "failure"}]
    BY <1>2 DEF SetNull, Makes, ObjectsOK
  <2>1. CASE PipeReleased
    <3>1. UNCHANGED <<pipes, loops, watched, bin>> /\ alive' \in BOOLEAN
          /\ misused' \subseteq {"pipeline", "loop", "bin"}
      BY <1>2, <2>1, UndefinedTypes DEF SetNull
    <3> QED
      BY <2>0, <3>1 DEF ObjectsOK
  <2>2. CASE ~PipeReleased
    <3>1. pipes' = IF Pipe = 0 THEN pipes ELSE [pipes EXCEPT ![Pipe] = "null"]
      BY <1>2, <2>2 DEF SetNull
    <3>2. UNCHANGED <<alive, misused, loops, watched, bin>>
      BY <1>2, <2>2 DEF SetNull, Defined
    <3>3. pipes' \in Seq(PipeStates) /\ Len(pipes') = Len(pipes)
      BY <3>1, PipeIsSet DEF ObjectsOK, PipeStates
    <3> QED
      BY <2>0, <3>2, <3>3 DEF ObjectsOK
  <2> QED
    BY <2>0, <2>1, <2>2
<1>3. ASSUME UnrefPipeline(t) PROVE Kept /\ Head(script[t]) = "unrefPipeline"
  <2>0. Head(script[t]) = "unrefPipeline" /\ UNCHANGED others
    BY <1>3 DEF UnrefPipeline, Makes
  <2>1. CASE PipeReleased
    <3>1. UNCHANGED <<pipes, loops, watched, bin>> /\ alive' \in BOOLEAN
          /\ misused' \subseteq {"pipeline", "loop", "bin"}
      BY <1>3, <2>1, UndefinedTypes DEF UnrefPipeline
    <3> QED
      BY <2>0, <3>1 DEF ObjectsOK, others
  <2>2. CASE ~PipeReleased
    <3>1. /\ pipes' = pipes \/ pipes' = [pipes EXCEPT ![Pipe] = "freed"]
          /\ bin' \in {bin, "freed"}
      BY <1>3, <2>2 DEF UnrefPipeline
    <3>2. UNCHANGED <<alive, misused, loops, watched>>
      BY <1>3, <2>2 DEF UnrefPipeline, Defined
    <3>3. pipes' \in Seq(PipeStates) /\ Len(pipes') = Len(pipes)
      BY <3>1, PipeIsSet DEF ObjectsOK, PipeStates
    <3> QED
      BY <2>0, <3>1, <3>2, <3>3 DEF ObjectsOK, others
  <2> QED
    BY <2>0, <2>1, <2>2
<1>4. ASSUME RemoveWatch(t) PROVE Kept /\ Head(script[t]) = "removeWatch"
  BY <1>4 DEF RemoveWatch, Makes, Defined, others, ObjectsOK
<1>5. ASSUME UnrefLoop(t) PROVE Kept /\ Head(script[t]) = "unrefLoop"
  <2>0. Head(script[t]) = "unrefLoop" /\ UNCHANGED others
    BY <1>5 DEF UnrefLoop, Makes
  <2>1. CASE Loop > 0 /\ ~loops[Loop].owned
    <3>1. UNCHANGED <<pipes, loops, watched, bin>> /\ alive' \in BOOLEAN
          /\ misused' \subseteq {"pipeline", "loop", "bin"}
      BY <1>5, <2>1, UndefinedTypes DEF UnrefLoop
    <3> QED
      BY <2>0, <3>1 DEF ObjectsOK, others
  <2>2. CASE ~(Loop > 0 /\ ~loops[Loop].owned)
    <3>1. loops' = IF Loop = 0 THEN loops ELSE [loops EXCEPT ![Loop].owned = FALSE]
      BY <1>5, <2>2 DEF UnrefLoop
    <3>2. UNCHANGED <<alive, misused, pipes, watched, bin>>
      BY <1>5, <2>2 DEF UnrefLoop, Defined
    <3>3. loops' \in Seq(LoopStates) /\ Len(loops') = Len(loops)
      BY <3>1, LastLoop, LoopIsSet DEF ObjectsOK, Loop
    <3> QED
      BY <2>0, <3>2, <3>3 DEF ObjectsOK, others
  <2> QED
    BY <2>0, <2>1, <2>2
<1>6. ASSUME UntilStopped(t) PROVE Kept /\ Head(script[t]) = "untilStopped"
  BY <1>6 DEF UntilStopped, Makes, objects, others, ObjectsOK
<1>7. ASSUME UseBin(t) PROVE Kept /\ Head(script[t]) \in {"binNull", "removeBin", "unrefBin"}
  <2>0. Head(script[t]) \in {"binNull", "removeBin", "unrefBin"} /\ UNCHANGED others
    BY <1>7 DEF UseBin, Makes
  <2>1. CASE bin = "freed"
    <3>1. UNCHANGED <<pipes, loops, watched, bin>> /\ alive' \in BOOLEAN
          /\ misused' \subseteq {"pipeline", "loop", "bin"}
      BY <1>7, <2>1, UndefinedTypes DEF UseBin
    <3> QED
      BY <2>0, <3>1 DEF ObjectsOK, others
  <2>2. CASE bin # "freed"
    <3>1. bin' \in {bin, "freed"}
      BY <1>7, <2>2 DEF UseBin
    <3>2. UNCHANGED <<alive, misused, pipes, loops, watched>>
      BY <1>7, <2>2 DEF UseBin, Defined
    <3> QED
      BY <2>0, <3>1, <3>2 DEF ObjectsOK, others
  <2> QED
    BY <2>0, <2>1, <2>2
<1>8. ASSUME NewLoop(t)
      PROVE  /\ Head(script[t]) = "newLoop" /\ ObjectsOK'
             /\ Len(loops') = Len(loops) + 1 /\ Len(pipes') = Len(pipes)
  <2>1. /\ Head(script[t]) = "newLoop" /\ UNCHANGED <<alive, misused, pipes, watched, bin, others>>
        /\ loops' = Append(loops, [owned |-> TRUE, on |-> FALSE])
    BY <1>8 DEF NewLoop, Makes, Defined
  <2>2. [owned |-> TRUE, on |-> FALSE] \in LoopStates
    BY DEF LoopStates
  <2>3. loops' \in Seq(LoopStates) /\ Len(loops') = Len(loops) + 1
    BY <2>1, <2>2, AppendProperties DEF ObjectsOK
  <2>4. Len(loops') <= MaxBuilds
    BY <2>1, <2>3
  <2>5. runs' \in [GstThreads -> 0..Len(loops')]
    BY <2>1, <2>3 DEF ObjectsOK, others
  <2> QED
    BY <2>1, <2>3, <2>4, <2>5 DEF ObjectsOK, others
<1>9. ASSUME NewPipeline(t)
      PROVE  /\ Head(script[t]) = "newPipeline" /\ ObjectsOK'
             /\ Len(loops') = Len(loops) /\ Len(pipes') = Len(pipes) + 1
  <2>1. /\ Head(script[t]) = "newPipeline" /\ UNCHANGED <<alive, misused, loops, bin>>
        /\ UNCHANGED <<status, result, runs, crossed, errors>>
        /\ pipes' = Append(pipes, "null")
        /\ watched' \in {watched, watched \cup {Len(pipes')}}
        /\ failures' \in 0..MaxFailures
    <3>1. /\ Head(script[t]) = "newPipeline" /\ failures \in 0..MaxFailures
          /\ pipes' = Append(pipes, "null")
          /\ UNCHANGED <<loops, bin>>
          /\ watched' \in {watched, watched \cup {Len(pipes')}}
          /\ \/ UNCHANGED <<alive, misused, others>>
             \/ Fails(t)
      BY <1>9 DEF NewPipeline, Makes, Defined, ObjectsOK
    <3> QED
      BY <3>1, FailTypes DEF others
  <2>2. "null" \in PipeStates
    BY DEF PipeStates
  <2>3. pipes' \in Seq(PipeStates) /\ Len(pipes') = Len(pipes) + 1
    BY <2>1, <2>2, AppendProperties DEF ObjectsOK
  <2>4. Len(pipes') <= Len(loops) /\ Len(pipes') \in Gens
    BY <2>1, <2>3 DEF ObjectsOK, Gens
  <2> QED
    BY <2>1, <2>3, <2>4 DEF ObjectsOK
<1>10. ASSUME AddBranches(t) PROVE Kept /\ Head(script[t]) = "addBranches"
  <2>1. /\ Head(script[t]) = "addBranches" /\ UNCHANGED <<alive, misused, loops, bin, watched>>
        /\ UNCHANGED <<status, result, runs, crossed, errors>>
        /\ pipes' = pipes \/ pipes' = [pipes EXCEPT ![Pipe] = "freed"]
        /\ failures' \in 0..MaxFailures
    <3>1. /\ Head(script[t]) = "addBranches" /\ failures \in 0..MaxFailures
          /\ pipes' = pipes \/ pipes' = [pipes EXCEPT ![Pipe] = "freed"]
          /\ UNCHANGED <<loops, bin, watched>>
          /\ \/ UNCHANGED <<alive, misused, others>>
             \/ Fails(t)
      BY <1>10 DEF AddBranches, Makes, Defined, objects, ObjectsOK
    <3> QED
      BY <3>1, FailTypes DEF others
  <2>2. pipes' \in Seq(PipeStates) /\ Len(pipes') = Len(pipes)
    BY <2>1, PipeIsSet DEF ObjectsOK, PipeStates
  <2> QED
    BY <2>1, <2>2 DEF ObjectsOK
<1>11. ASSUME InitLive(t) PROVE Kept /\ Head(script[t]) = "initLive"
  <2>0. Head(script[t]) = "initLive" /\ UNCHANGED <<status, result, runs, crossed, errors>>
    BY <1>11 DEF InitLive, Makes
  <2>1. CASE PipeReleased
    <3>1. UNCHANGED <<pipes, loops, watched, bin>> /\ alive' \in BOOLEAN
          /\ misused' \subseteq {"pipeline", "loop", "bin"} /\ UNCHANGED failures
      BY <1>11, <2>1, UndefinedTypes DEF InitLive
    <3> QED
      BY <2>0, <3>1 DEF ObjectsOK
  <2>2. CASE ~PipeReleased
    <3>1. /\ pipes' = pipes \/ pipes' = [pipes EXCEPT ![Pipe] = "lost"]
          /\ bin' \in {"linked", "loose", "freed"} /\ failures' \in 0..MaxFailures
      BY <1>11, <2>2 DEF InitLive, LoseBranch, ObjectsOK
    <3>2. UNCHANGED <<alive, misused, loops, watched>>
      BY <1>11, <2>2 DEF InitLive, Defined
    <3>3. pipes' \in Seq(PipeStates) /\ Len(pipes') = Len(pipes)
      BY <3>1, PipeIsSet DEF ObjectsOK, PipeStates
    <3> QED
      BY <2>0, <3>1, <3>2, <3>3 DEF ObjectsOK
  <2> QED
    BY <2>0, <2>1, <2>2
<1>12. ASSUME Report(t) PROVE Kept /\ Head(script[t]) \in {"ready", "local", "live"}
  BY <1>12 DEF Report, Makes, Defined, objects, ObjectsOK
<1>13. ASSUME Spawn(t) PROVE Kept /\ Head(script[t]) = "spawn"
  BY <1>13 DEF Spawn, Makes, objects, others, ObjectsOK
<1>14. ASSUME Run(t) PROVE Kept /\ Head(script[t]) = "run"
  <2>0. Head(script[t]) = "run" /\ UNCHANGED <<status, result, crossed, failures, errors>>
    BY <1>14 DEF Run, Makes
  <2>1. CASE LoopReleased
    <3>1. UNCHANGED <<pipes, loops, watched, bin>> /\ alive' \in BOOLEAN
          /\ misused' \subseteq {"pipeline", "loop", "bin"} /\ UNCHANGED runs
      BY <1>14, <2>1, UndefinedTypes DEF Run
    <3> QED
      BY <2>0, <3>1 DEF ObjectsOK
  <2>2. CASE ~LoopReleased
    <3>1. loops' = [loops EXCEPT ![Loop].on = TRUE] /\ runs' = [runs EXCEPT ![t] = Loop]
      BY <1>14, <2>2 DEF Run
    <3>2. UNCHANGED <<alive, misused, pipes, watched, bin>>
      BY <1>14, <2>2 DEF Run, Defined
    <3>3. loops' \in Seq(LoopStates) /\ Len(loops') = Len(loops)
      BY <3>1, LastLoop, LoopIsSet
    <3>4. runs' \in [GstThreads -> 0..Len(loops')]
      <4>1. t \in GstThreads /\ Loop \in 0..Len(loops')
        BY <2>0, <3>3 DEF Loop
      <4> QED
        BY <3>1, <3>3, <4>1 DEF ObjectsOK
    <3> QED
      BY <2>0, <3>2, <3>3, <3>4 DEF ObjectsOK
  <2> QED
    BY <2>0, <2>1, <2>2
<1>15. ASSUME NEW c \in {"pause", "resume", "setPlaying"}, NEW state \in PipeStates,
              SetState(t, c, state)
       PROVE  Kept /\ Head(script[t]) = c
  <2>0. Head(script[t]) = c /\ UNCHANGED others
    BY <1>15 DEF SetState, Makes
  <2>1. CASE PipeReleased
    <3>1. UNCHANGED <<pipes, loops, watched, bin>> /\ alive' \in BOOLEAN
          /\ misused' \subseteq {"pipeline", "loop", "bin"}
      BY <1>15, <2>1, UndefinedTypes DEF SetState
    <3> QED
      BY <2>0, <3>1 DEF ObjectsOK, others
  <2>2. CASE ~PipeReleased
    <3>1. pipes' = [pipes EXCEPT ![Pipe] = state]
      BY <1>15, <2>2 DEF SetState
    <3>2. UNCHANGED <<alive, misused, loops, watched, bin>>
      BY <1>15, <2>2 DEF SetState, Defined
    <3>3. pipes' \in Seq(PipeStates) /\ Len(pipes') = Len(pipes)
      BY <3>1, PipeIsSet
    <3> QED
      BY <2>0, <3>2, <3>3 DEF ObjectsOK, others
  <2> QED
    BY <2>0, <2>1, <2>2
<1> {"paused", "playing"} \subseteq PipeStates
  BY DEF PipeStates
<1> HIDE DEF Kept
<1>16. \/ Kept /\ Head(script[t]) \notin {"newLoop", "newPipeline"}
       \/ NewLoop(t) \/ NewPipeline(t)
  BY <1>1, <1>2, <1>3, <1>4, <1>5, <1>6, <1>7, <1>10, <1>11, <1>12, <1>13, <1>14, <1>15
     DEF MakesCall
<1> QED
  BY <1>8, <1>9, <1>16 DEF Kept

\* The stages in which there are as many loops as pipelines.
Plain(c) ==
  \/ c = <<>> \/ Spawns(c) \/ Reports(c) \/ Pauses(c) \/ Resumes(c) \/ DropsLive(c)
  \/ Quits(c) \/ SetsNull(c) \/ TurnsReady(c)

\* Control obeys an order and has objects for it; a GST thread starts or stops.
ScriptsOK ==
  /\ script \in [Threads -> Seq(Calls)]
  /\ \/ Plain(script[Control]) /\ Len(loops) = Len(pipes)
     \/ MakesLoop(script[Control]) /\ Len(loops) = Len(pipes) /\ Len(pipes) < MaxBuilds
     \/ MakesPipe(script[Control]) /\ Len(loops) = Len(pipes) + 1
  /\ \A t \in GstThreads :
       script[t] = <<>> \/ Starting(script[t]) \/ Stopping(script[t])

TInv == ObjectsOK /\ ScriptsOK

LEMMA PlainStep ==
  ASSUME NEW c, Plain(c), c # <<>>
  PROVE  /\ Head(c) \notin {"newLoop", "newPipeline", "run"}
         /\ Plain(Tail(c))
         /\ Head(c) = "untilStopped" => Plain(stopStreaming \o c)
BY SpawnsStep, ReportsStep, PausesStep, ResumesStep, DropsLiveStep, QuitsStep, TurnsReadyStep
   DEF Plain, Modes

LEMMA GstHead ==
  ASSUME NEW c, Starting(c) \/ Stopping(c)
  PROVE  /\ c # <<>> /\ Head(c) \in {"setPlaying", "run", "quit", "setNull", "unrefPipeline",
                                     "removeWatch", "unrefLoop"}
         /\ Tail(c) = <<>> \/ Starting(Tail(c)) \/ Stopping(Tail(c))
<1>1. CASE Starting(c)
  BY <1>1, StartingStep DEF Starting
<1>2. CASE Stopping(c)
  <2>1. PICK i \in 1..5 : StopsAt(c, i)
    BY <1>2 DEF Stopping
  <2>2. i = 1 \/ i = 2 \/ i = 3 \/ i = 4 \/ i = 5
    OBVIOUS
  <2>3. i = 5 \/ (i + 1 \in 1..5 /\ i < 5)
    OBVIOUS
  <2> QED
    BY <2>1, <2>2, <2>3, StoppingStep, StopCalls DEF Stopping
<1> QED
  BY <1>1, <1>2

\* msgParse makes something of each order.
LEMMA OrderStages ==
  ASSUME ObjectsOK, NEW action \in {"live", "local", "off"}
  PROVE  /\ Obeys(action) \in Seq(Calls)
         /\ \/ status = "ready" /\ action # "off" /\ MakesLoop(Obeys(action))
            \/ /\ status # "ready"
               /\ Pauses(Obeys(action)) \/ DropsLive(Obeys(action)) \/ Reports(Obeys(action))
            \/ Quits(Obeys(action))
<1>1. /\ BuildLive = From(BuildLive, 1) /\ BuildLocal = From(BuildLocal, 1)
      /\ StartsLive = From(StartsLive, 1) /\ StopsLive = From(StopsLive, 1)
      /\ StopsAll = From(StopsAll, 1)
  BY OrderLengths, AllCalls
<1>2. CASE action = "live" /\ status = "local"
  BY <1>1, <1>2, OrderLengths DEF Obeys, StartsLive, Pauses
<1>3. CASE action = "live" /\ status = "ready"
  <2>1. Obeys(action) = BuildLive
    BY <1>3 DEF Obeys, BuildLive
  <2>2. 1 \in 1..9 /\ BuildLive \in Builds
    BY DEF Builds
  <2> QED
    BY <1>1, <1>3, <2>1, <2>2, OrderLengths DEF MakesLoop
<1>4. CASE action = "local" /\ status = "live"
  <2>1. Obeys(action) = StopsLive
    BY <1>4 DEF Obeys, StopsLive
  <2>2. 1 \in 1..3
    OBVIOUS
  <2> QED
    BY <1>1, <1>4, <2>1, <2>2, OrderLengths DEF DropsLive
<1>5. CASE action = "local" /\ status = "ready"
  <2>1. Obeys(action) = BuildLocal
    BY <1>5 DEF Obeys, BuildLocal
  <2>2. 1 \in 1..9 /\ BuildLocal \in Builds
    BY DEF Builds
  <2> QED
    BY <1>1, <1>5, <2>1, <2>2, OrderLengths DEF MakesLoop
<1>6. CASE action = "off"
  <2>1. Obeys(action) = StopsAll
    BY <1>6 DEF Obeys, StopsAll
  <2> QED
    BY <1>1, <2>1, OrderLengths DEF Quits
<1>7. CASE action # "off" /\ status = action
  <2>1. Obeys(action) = <<action>> /\ action \in Modes /\ status # "ready" /\ action \in Calls
    BY <1>7 DEF Obeys, Modes, Calls
  <2>2. Reports(<<action>>) /\ <<action>> \in Seq(Calls)
    BY <2>1 DEF Reports
  <2> QED
    BY <2>1, <2>2
<1> QED
  BY <1>2, <1>3, <1>4, <1>5, <1>6, <1>7 DEF ObjectsOK

LEMMA InitTypes ==
  ASSUME PipelineInit
  PROVE  TInv
<1>1. ObjectsOK
  <2>1. /\ <<>> \in Seq(PipeStates) /\ <<>> \in Seq(LoopStates) /\ Len(<<>>) = 0
        /\ Len(pipes) = 0 /\ Len(loops) = 0 /\ MaxBuilds \in Nat
        /\ 0 \in 0..MaxFailures /\ 0 \in 0..MaxErrors /\ 0 \in 0..Len(loops)
    BY EmptySeq, PipelineAssumption DEF PipelineInit
  <2>2. /\ pipes \in Seq(PipeStates) /\ loops \in Seq(LoopStates)
        /\ Len(pipes) <= Len(loops) /\ Len(loops) <= MaxBuilds
    BY <2>1 DEF PipelineInit
  <2>3. /\ result \in [Threads -> {"success", "failure"}]
        /\ runs \in [GstThreads -> 0..Len(loops)]
    BY <2>1 DEF PipelineInit
  <2>4. /\ status \in {"ready", "local", "live"} /\ watched \subseteq Gens
        /\ bin \in {"none", "loose", "linked", "freed"}
        /\ {alive, crossed} \subseteq BOOLEAN
        /\ misused \subseteq {"pipeline", "loop", "bin"}
        /\ failures \in 0..MaxFailures /\ errors \in 0..MaxErrors
    BY <2>1 DEF PipelineInit
  <2> QED
    BY <2>2, <2>3, <2>4 DEF ObjectsOK
<1>2. ScriptsOK
  BY EmptySeq DEF PipelineInit, ScriptsOK, Plain, Threads
<1> QED
  BY <1>1, <1>2 DEF TInv

LEMMA CallsKeepTypes ==
  ASSUME TInv, NEW t \in Threads, MakesCall(t)
  PROVE  TInv'
<1> Control \in Threads /\ GstThreads \subseteq Threads /\ Control \notin GstThreads
  BY PipelineAssumption DEF Threads
<1> script \in [Threads -> Seq(Calls)] /\ ObjectsOK
  BY DEF TInv, ScriptsOK
<1> DEFINE c == script[t]
<1>1. c # <<>> /\ c \in Seq(Calls)
  BY CallsDo
<1>2. /\ Tail(c) \in Seq(Calls) /\ <<>> \in Seq(Calls) /\ play \in Seq(Calls)
      /\ stopStreaming \o c \in Seq(Calls)
  BY <1>1, HeadTailProperties, EmptySeq, ConcatProperties, StopCalls, StartingStep DEF Starting
<1> Len(pipes) \in Nat /\ Len(loops) \in Nat
  BY LenProperties DEF ObjectsOK
<1>3. CASE t = Control
  <2>1. \/ Plain(c) /\ Len(loops) = Len(pipes)
        \/ MakesLoop(c) /\ Len(loops) = Len(pipes) /\ Len(pipes) < MaxBuilds
        \/ MakesPipe(c) /\ Len(loops) = Len(pipes) + 1
    BY <1>3 DEF TInv, ScriptsOK
  <2>2. /\ Head(c) = "newLoop" => Len(loops) < MaxBuilds
        /\ Head(c) = "newPipeline" => Len(pipes) < Len(loops)
        /\ Head(c) # "run"
    <3>1. CASE Plain(c)
      BY <1>1, <3>1, PlainStep
    <3>2. CASE MakesLoop(c) /\ Len(loops) = Len(pipes) /\ Len(pipes) < MaxBuilds
      BY <3>2, MakesLoopStep DEF Stops
    <3>3. CASE MakesPipe(c) /\ Len(loops) = Len(pipes) + 1
      BY <3>3, MakesPipeStep
    <3> QED
      BY <2>1, <3>1, <3>2, <3>3
  <2>3. /\ ObjectsOK'
        /\ Len(loops') = IF Head(c) = "newLoop" THEN Len(loops) + 1 ELSE Len(loops)
        /\ Len(pipes') = IF Head(c) = "newPipeline" THEN Len(pipes) + 1 ELSE Len(pipes)
    BY <2>2, CallTypes
  <2>4. /\ script' \in [Threads -> Seq(Calls)]
        /\ \/ script'[Control] = Tail(c)
           \/ Head(c) \in {"newPipeline", "addBranches"} /\ script'[Control] = <<>>
           \/ Head(c) = "untilStopped" /\ script'[Control] = stopStreaming \o c
        /\ \A g \in GstThreads : script'[g] \in {script[g], play}
    BY <1>2, <1>3, CallScripts
  <2>5. \A g \in GstThreads :
          script'[g] = <<>> \/ Starting(script'[g]) \/ Stopping(script'[g])
    BY <2>4 DEF TInv, ScriptsOK, Starting
  <2>6. CASE Plain(c) /\ Len(loops) = Len(pipes)
    <3>1. Plain(script'[Control])
      BY <1>1, <2>4, <2>6, PlainStep DEF Plain
    <3>2. Len(loops') = Len(pipes')
      BY <1>1, <2>3, <2>6, PlainStep
    <3> QED
      BY <2>3, <2>4, <2>5, <3>1, <3>2 DEF TInv, ScriptsOK
  <2>7. CASE MakesLoop(c) /\ Len(loops) = Len(pipes) /\ Len(pipes) < MaxBuilds
    <3>1. /\ Head(c) \notin {"newPipeline", "addBranches", "untilStopped"}
          /\ \/ Head(c) # "newLoop" /\ MakesLoop(Tail(c))
             \/ Head(c) = "newLoop" /\ MakesPipe(Tail(c))
      BY <2>7, MakesLoopStep DEF Stops
    <3>2. script'[Control] = Tail(c)
      BY <2>4, <3>1
    <3> QED
      BY <2>3, <2>4, <2>5, <2>7, <3>1, <3>2 DEF TInv, ScriptsOK
  <2>8. CASE MakesPipe(c) /\ Len(loops) = Len(pipes) + 1
    <3>1. Head(c) = "newPipeline" /\ Spawns(Tail(c))
      BY <2>8, MakesPipeStep
    <3>2. Plain(script'[Control])
      BY <2>4, <3>1 DEF Plain
    <3> QED
      BY <2>3, <2>4, <2>5, <2>8, <3>1, <3>2 DEF TInv, ScriptsOK
  <2> QED
    BY <2>1, <2>6, <2>7, <2>8
<1>4. CASE t \in GstThreads
  <2>1. /\ Head(c) \in {"setPlaying", "run", "quit", "setNull", "unrefPipeline",
                        "removeWatch", "unrefLoop"}
        /\ Tail(c) = <<>> \/ Starting(Tail(c)) \/ Stopping(Tail(c))
    BY <1>1, <1>4, GstHead DEF TInv, ScriptsOK
  <2>2. script' = [script EXCEPT ![t] = Tail(@)]
    BY <2>1, CallScripts
  <2>3. ObjectsOK' /\ Len(loops') = Len(loops) /\ Len(pipes') = Len(pipes)
    BY <1>4, <2>1, CallTypes
  <2>4. script' \in [Threads -> Seq(Calls)] /\ script'[Control] = script[Control]
    BY <1>2, <1>4, <2>2
  <2>5. \A g \in GstThreads : script'[g] = IF g = t THEN Tail(c) ELSE script[g]
    BY <1>4, <2>2
  <2> QED
    BY <2>1, <2>3, <2>4, <2>5 DEF TInv, ScriptsOK
<1> QED
  BY <1>3, <1>4 DEF Threads

LEMMA OrdersKeepTypes ==
  ASSUME TInv, NEW action \in {"live", "local", "off"}, TakeOrder(action)
  PROVE  TInv'
<1> Control \in Threads /\ GstThreads \subseteq Threads /\ Control \notin GstThreads
  BY PipelineAssumption DEF Threads
<1>1. /\ UNCHANGED <<alive, misused, objects, status, result, runs, failures, errors>>
      /\ script' = [script EXCEPT ![Control] = Obeys(action)]
      /\ crossed' \in BOOLEAN
      /\ script[Control] = <<>>
      /\ status = "ready" /\ action # "off" => Loop < MaxBuilds
  BY DEF TakeOrder, TInv, ObjectsOK
<1>2. ObjectsOK /\ ObjectsOK'
  BY <1>1 DEF TInv, ObjectsOK, objects
<1>3. Len(loops) = Len(pipes) /\ Len(loops') = Len(loops) /\ Len(pipes') = Len(pipes)
  BY <1>1, MakesLoopStep, MakesPipeStep DEF TInv, ScriptsOK, objects
<1>4. Obeys(action) \in Seq(Calls)
  BY <1>2, OrderStages
<1>5. \/ MakesLoop(Obeys(action)) /\ Len(pipes) < MaxBuilds
      \/ Plain(Obeys(action))
  BY <1>1, <1>2, <1>3, OrderStages DEF Plain, Loop
<1>6. script' \in [Threads -> Seq(Calls)] /\ script'[Control] = Obeys(action)
  BY <1>1, <1>4 DEF TInv, ScriptsOK
<1>7. \A t \in GstThreads : script'[t] = script[t]
  BY <1>1 DEF TInv, ScriptsOK
<1> QED
  BY <1>2, <1>3, <1>5, <1>6, <1>7 DEF TInv, ScriptsOK

LEMMA LoopsKeepTypes ==
  ASSUME TInv, NEW t \in GstThreads, RunReturns(t) \/ BusCall(t)
  PROVE  TInv'
<1> Control \in Threads /\ GstThreads \subseteq Threads /\ Control \notin GstThreads
  BY PipelineAssumption DEF Threads
<1> Len(loops) \in Nat
  BY LenProperties DEF TInv, ObjectsOK
<1>1. CASE RunReturns(t)
  <2>1. /\ UNCHANGED <<script, alive, misused, pipes, loops, watched, bin>>
        /\ UNCHANGED <<status, result, crossed, failures, errors>>
        /\ runs' = [runs EXCEPT ![t] = 0]
    BY <1>1 DEF RunReturns, objects
  <2>2. ObjectsOK'
    BY <2>1 DEF TInv, ObjectsOK
  <2> QED
    BY <2>1, <2>2 DEF TInv, ScriptsOK
<1>2. CASE BusCall(t)
  <2>1. /\ UNCHANGED <<alive, misused, pipes, loops, watched, bin>>
        /\ UNCHANGED <<status, result, runs, failures>>
        /\ script' = [script EXCEPT ![t] = stopStreaming]
        /\ crossed' \in BOOLEAN
        /\ errors < MaxErrors /\ errors' = errors + 1
    BY <1>2 DEF BusCall, objects, TInv, ObjectsOK
  <2>2. MaxErrors \in Nat
    BY PipelineAssumption
  <2>3. ObjectsOK'
    BY <2>1, <2>2 DEF TInv, ObjectsOK
  <2>4. stopStreaming \in Seq(Calls) /\ StopsAt(stopStreaming, 1)
    BY StopCalls, AllCalls DEF StopsAt
  <2>5. script' \in [Threads -> Seq(Calls)] /\ script'[Control] = script[Control]
    BY <2>1, <2>4 DEF TInv, ScriptsOK
  <2>6. \A g \in GstThreads : script'[g] = IF g = t THEN stopStreaming ELSE script[g]
    BY <2>1 DEF TInv, ScriptsOK
  <2>7. Stopping(stopStreaming)
    <3>1. 1 \in 1..5
      OBVIOUS
    <3> QED
      BY <2>4, <3>1 DEF Stopping
  <2> QED
    BY <2>1, <2>3, <2>5, <2>6, <2>7 DEF TInv, ScriptsOK
<1> QED
  BY <1>1, <1>2

LEMMA TypesHold ==
  ASSUME TInv, [PipelineNext]_pipelineVars
  PROVE  TInv'
<1>1. CASE UNCHANGED pipelineVars
  BY <1>1 DEF pipelineVars, TInv, ObjectsOK, ScriptsOK
<1>2. CASE PipelineNext
  BY <1>2, CallsKeepTypes, OrdersKeepTypes, LoopsKeepTypes DEF PipelineNext
<1> QED
  BY <1>1, <1>2

\* However the calls of the threads interleave, and whatever fails or is released
\* twice, every variable keeps its type: no more loops or pipelines are made than
\* orders allow, and a thread runs a loop that was made (VA_gstreamer.c).
THEOREM PipelineTypes == PipelineSpec => []PipelineTypeOK
<1>1. TInv => PipelineTypeOK
  BY DEF TInv, ObjectsOK, ScriptsOK, PipelineTypeOK, PipeStates, LoopStates
<1> QED
  BY <1>1, InitTypes, TypesHold, PTL DEF PipelineSpec

-----------------------------------------------------------------------------
(* Where an order leaves the stream, if threads reach their loops in time *)

Holding == {"paused", "playing"}

On == Loop > 0 /\ loops[Loop].on
Active == Pipe > 0 /\ pipes[Pipe] \in Holding

\* The last loop is still to be run.
Unrun == /\ Loop > 0 /\ loops[Loop].owned /\ ~loops[Loop].on
         /\ \A t \in GstThreads : runs[t] # Loop

Only(t) == \A u \in GstThreads \ {t} : script[u] = <<>>

\* Nothing plays, and nobody works on what there was.
Still == ~Active /\ ~On /\ Settled

\* A pipeline, if initLive has not lost it, and a loop that nobody has used.
Built == Pipe > 0 /\ pipes[Pipe] \in {"null", "lost"} /\ Pipe \in watched /\ Unrun /\ Settled

\* The pipeline and its loop have been started.
Running(state) == Pipe > 0 /\ pipes[Pipe] = state /\ Pipe \in watched /\ On /\ Settled

\* bus_call has stopped the stream.
Failed == Pipe > 0 /\ pipes[Pipe] = "freed" /\ ~On /\ Settled

Shown(state) == Running(state) \/ Running("lost") \/ (errors > 0 /\ Failed)

\* The thread of the last startStreaming is on its way to its loop.
StartsBy(t) ==
  /\ Starting(script[t]) /\ Only(t)
  /\ Pipe > 0 /\ Pipe \in watched /\ Unrun
  /\ script[t] = play => pipes[Pipe] \in {"null", "lost"}
  /\ script[t] = <<"run">> => pipes[Pipe] \in {"playing", "lost"}

Starts == \E t \in GstThreads : StartsBy(t)

\* bus_call is stopping the stream.
StopsBy(t) ==
  /\ Only(t) /\ runs[t] = Loop /\ Pipe > 0 /\ Loop > 0
  /\ \/ StopsAt(script[t], 1) /\ ~PipeReleased
     \/ StopsAt(script[t], 2) /\ ~PipeReleased /\ ~On
     \/ StopsAt(script[t], 3) /\ pipes[Pipe] = "null" /\ ~On
     \/ (StopsAt(script[t], 4) \/ StopsAt(script[t], 5)) /\ pipes[Pipe] = "freed" /\ ~On

StopsStream == \E t \in GstThreads : StopsBy(t)

Stage ==
  LET c == script[Control] IN
    \/ MakesLoop(c) /\ status = "ready" /\ Still
    \/ MakesPipe(c) /\ status = "ready" /\ ~Active /\ Unrun /\ Settled
    \/ Spawns(c) /\ status = "ready" /\ Built
    \/ Reports(c) /\ (Shown("playing") \/ Starts)
    \/ (Pauses(c) \/ DropsLive(c)) /\ Shown("playing")
    \/ Resumes(c) /\ Shown("paused")
    \/ Quits(c) /\ Settled
    \/ SetsNull(c) /\ Settled /\ ~On
    \/ TurnsReady(c) /\ Still
    \/ c = <<>> /\ status = "ready" /\ Still
    \/ /\ c = <<>> /\ status # "ready"
       /\ Shown("playing") \/ Starts \/ (errors > 0 /\ StopsStream)

\* Only the last loop is on, and then it is run; only the last pipeline is not stopped.
Alone ==
  /\ \A k \in 1..Len(loops) : loops[k].on => k = Len(loops)
  /\ \A g \in 1..Len(pipes) : pipes[g] \in Holding => g = Len(pipes)
  /\ On => \E t \in GstThreads : runs[t] = Loop
  /\ \A t, u \in GstThreads : runs[t] = runs[u] /\ runs[t] # 0 => t = u

StageInv == /\ crossed => errors > 0
            /\ ~crossed => Stage /\ Alone

\* The stages in which the next order can be taken.
LEMMA FreeStages ==
  ASSUME Stage, script[Control] = <<>>
  PROVE  \/ status = "ready" /\ Still
         \/ /\ status # "ready"
            /\ Shown("playing") \/ Starts \/ (errors > 0 /\ StopsStream)
BY MakesLoopStep, MakesPipeStep, SpawnsStep, ReportsStep, PausesStep, DropsLiveStep,
   ResumesStep, QuitsStep, TurnsReadyStep DEF Stage

LEMMA StopsHaveCalls ==
  ASSUME NEW t \in GstThreads, StopsBy(t)
  PROVE  script[t] # <<>>
<1>1. 1 \in 1..5 /\ 2 \in 1..5 /\ 3 \in 1..5 /\ 4 \in 1..5 /\ 5 \in 1..5
  OBVIOUS
<1>2. \E i \in 1..5 : StopsAt(script[t], i)
  BY <1>1 DEF StopsBy
<1> QED
  BY <1>2, StoppingStep

\* A step after which no loop is on and no pipeline held that was not before.
Quieter ==
  /\ Len(loops') = Len(loops) /\ Len(pipes') = Len(pipes) /\ runs' = runs
  /\ \A k \in 1..Len(loops) : loops'[k].on => loops[k].on
  /\ \A g \in 1..Len(pipes) : pipes'[g] \in Holding => pipes[g] \in Holding

LEMMA QuieterAlone ==
  ASSUME ObjectsOK, Alone, Quieter
  PROVE  Alone' /\ (~On => ~On') /\ (~Active => ~Active')
<1> Len(loops) \in Nat /\ Len(pipes) \in Nat
  BY LenProperties DEF ObjectsOK
<1>1. Loop' = Loop /\ Pipe' = Pipe
  BY DEF Quieter, Loop, Pipe
<1>2. On' => On
  <2>1. Loop > 0 => Loop \in 1..Len(loops)
    BY DEF Loop
  <2> QED
    BY <1>1, <2>1 DEF On, Quieter
<1>3. Active' => Active
  <2>1. Pipe > 0 => Pipe \in 1..Len(pipes)
    BY DEF Pipe
  <2> QED
    BY <1>1, <2>1 DEF Active, Quieter
<1>4. /\ \A k \in 1..Len(loops') : loops'[k].on => k = Len(loops')
      /\ \A g \in 1..Len(pipes') : pipes'[g] \in Holding => g = Len(pipes')
  BY DEF Alone, Quieter
<1>5. On' => \E t \in GstThreads : runs'[t] = Loop'
  BY <1>1, <1>2 DEF Alone, Quieter
<1>6. \A t, u \in GstThreads : runs'[t] = runs'[u] /\ runs'[t] # 0 => t = u
  BY DEF Alone, Quieter
<1> QED
  BY <1>2, <1>3, <1>4, <1>5, <1>6 DEF Alone

LEMMA QuitEffect ==
  ASSUME ObjectsOK, Alone, NEW t, Quit(t)
  PROVE  Quieter /\ ~On' /\ UNCHANGED <<pipes, watched, others>>
<1> Len(loops) \in Nat
  BY LenProperties DEF ObjectsOK
<1>1. CASE LoopReleased
  <2>1. UNCHANGED <<pipes, loops, watched, bin, others>>
    BY <1>1 DEF Quit, Undefined, objects
  <2>2. ~On
    BY <1>1 DEF LoopReleased, Alone
  <2> QED
    BY <2>1, <2>2 DEF Quieter, On, Loop, others
<1>2. CASE ~LoopReleased /\ Loop = 0
  BY <1>2 DEF Quit, On, Loop, Quieter, others
<1>3. CASE ~LoopReleased /\ Loop > 0
  <2>1. /\ loops' = [loops EXCEPT ![Loop] = [loops[Loop] EXCEPT !.on = FALSE]]
        /\ UNCHANGED <<pipes, watched, bin, others>>
    BY <1>3 DEF Quit
  <2>2. loops[Loop] \in LoopStates /\ [loops[Loop] EXCEPT !.on = FALSE] \in LoopStates
    BY <1>3, LastLoop
  <2>3. /\ Len(loops') = Len(loops)
        /\ \A k \in 1..Len(loops) :
             loops'[k] = IF k = Len(loops) THEN [loops[Loop] EXCEPT !.on = FALSE] ELSE loops[k]
    BY <2>1, <2>2, LoopIsSet
  <2>4. [loops[Loop] EXCEPT !.on = FALSE].on = FALSE
    BY <2>2 DEF LoopStates
  <2>5. Loop \in 1..Len(loops) /\ Loop = Len(loops) /\ Loop' = Loop
    BY <1>3, <2>3 DEF Loop
  <2>6. ~loops'[Loop'].on
    BY <2>3, <2>4, <2>5
  <2>7. \A k \in 1..Len(loops) : loops'[k].on => loops[k].on
    BY <2>3, <2>4
  <2> QED
    BY <2>1, <2>3, <2>6, <2>7 DEF Quieter, On, others
<1> QED
  BY <1>1, <1>2, <1>3 DEF Loop

LEMMA SetNullEffect ==
  ASSUME ObjectsOK, NEW t, SetNull(t)
  PROVE  /\ Quieter /\ ~Active' /\ UNCHANGED <<loops, watched>>
         /\ UNCHANGED <<status, runs, crossed, failures, errors>>
         /\ Pipe > 0 /\ ~PipeReleased => pipes'[Pipe'] = "null"
<1> Len(pipes) \in Nat
  BY LenProperties DEF ObjectsOK
<1>0. UNCHANGED <<status, runs, crossed, failures, errors>>
  BY DEF SetNull
<1>1. CASE PipeReleased
  <2>1. UNCHANGED <<pipes, loops, watched, bin>>
    BY <1>1 DEF SetNull, Undefined, objects
  <2>2. ~Active
    BY <1>1 DEF PipeReleased, Active, Holding
  <2> QED
    BY <1>0, <1>1, <2>1, <2>2 DEF Quieter, Active, Pipe
<1>2. CASE ~PipeReleased /\ Pipe = 0
  BY <1>0, <1>2 DEF SetNull, Active, Pipe, Quieter
<1>3. CASE ~PipeReleased /\ Pipe > 0
  <2>1. pipes' = [pipes EXCEPT ![Pipe] = "null"] /\ UNCHANGED <<loops, watched, bin>>
    BY <1>3 DEF SetNull
  <2>2. /\ Len(pipes') = Len(pipes)
        /\ \A g \in 1..Len(pipes) : pipes'[g] = IF g = Len(pipes) THEN "null" ELSE pipes[g]
    BY <2>1, PipeIsSet DEF PipeStates
  <2>3. Pipe \in 1..Len(pipes) /\ Pipe = Len(pipes) /\ Pipe' = Pipe
    BY <1>3, <2>2 DEF Pipe
  <2>4. pipes'[Pipe'] = "null" /\ "null" \notin Holding
    BY <2>2, <2>3 DEF Holding
  <2>5. \A g \in 1..Len(pipes) : pipes'[g] \in Holding => pipes[g] \in Holding
    BY <2>2, <2>4
  <2> QED
    BY <1>0, <2>1, <2>2, <2>4, <2>5 DEF Quieter, Active
<1> QED
  BY <1>1, <1>2, <1>3 DEF Pipe

LEMMA UnrefPipelineEffect ==
  ASSUME ObjectsOK, NEW t, UnrefPipeline(t)
  PROVE  /\ Quieter /\ UNCHANGED <<loops, watched, others>>
         /\ Pipe > 0 /\ pipes[Pipe] = "null" => pipes'[Pipe'] = "freed"
<1> Len(pipes) \in Nat
  BY LenProperties DEF ObjectsOK
<1>1. CASE PipeReleased \/ ~(Pipe > 0 /\ pipes[Pipe] = "null")
  <2>1. UNCHANGED <<pipes, loops, watched, others>>
    BY <1>1 DEF UnrefPipeline, Undefined, objects
  <2> QED
    BY <1>1, <2>1 DEF Quieter, others, PipeReleased
<1>2. CASE ~PipeReleased /\ Pipe > 0 /\ pipes[Pipe] = "null"
  <2>1. pipes' = [pipes EXCEPT ![Pipe] = "freed"] /\ UNCHANGED <<loops, watched, others>>
    BY <1>2 DEF UnrefPipeline
  <2>2. /\ Len(pipes') = Len(pipes)
        /\ \A g \in 1..Len(pipes) : pipes'[g] = IF g = Len(pipes) THEN "freed" ELSE pipes[g]
    BY <2>1, PipeIsSet DEF PipeStates
  <2>3. Pipe \in 1..Len(pipes) /\ Pipe = Len(pipes) /\ Pipe' = Pipe
    BY <1>2, <2>2 DEF Pipe
  <2>4. pipes'[Pipe'] = "freed" /\ "freed" \notin Holding
    BY <2>2, <2>3 DEF Holding
  <2>5. \A g \in 1..Len(pipes) : pipes'[g] \in Holding => pipes[g] \in Holding
    BY <2>2, <2>4
  <2> QED
    BY <2>1, <2>2, <2>4, <2>5 DEF Quieter, others
<1> QED
  BY <1>1, <1>2

LEMMA UnrefLoopEffect ==
  ASSUME ObjectsOK, NEW t, UnrefLoop(t)
  PROVE  Quieter /\ UNCHANGED <<pipes, watched, others>>
<1> Len(loops) \in Nat
  BY LenProperties DEF ObjectsOK
<1>1. CASE (Loop > 0 /\ ~loops[Loop].owned) \/ Loop = 0
  <2>1. UNCHANGED <<pipes, loops, watched, others>>
    BY <1>1 DEF UnrefLoop, Undefined, objects
  <2> QED
    BY <2>1 DEF Quieter, others
<1>2. CASE Loop > 0 /\ loops[Loop].owned
  <2>1. /\ loops' = [loops EXCEPT ![Loop] = [loops[Loop] EXCEPT !.owned = FALSE]]
        /\ UNCHANGED <<pipes, watched, others>>
    BY <1>2 DEF UnrefLoop
  <2>2. loops[Loop] \in LoopStates /\ [loops[Loop] EXCEPT !.owned = FALSE] \in LoopStates
    BY <1>2, LastLoop
  <2>3. /\ Len(loops') = Len(loops)
        /\ \A k \in 1..Len(loops) :
             loops'[k] = IF k = Len(loops) THEN [loops[Loop] EXCEPT !.owned = FALSE] ELSE loops[k]
    BY <2>1, <2>2, LoopIsSet
  <2>4. [loops[Loop] EXCEPT !.owned = FALSE].on = loops[Loop].on
    BY <2>2 DEF LoopStates
  <2>5. \A k \in 1..Len(loops) : loops'[k].on => loops[k].on
    BY <2>3, <2>4 DEF Loop
  <2> QED
    BY <2>1, <2>3, <2>5 DEF Quieter, others
<1> QED
  BY <1>1, <1>2 DEF Loop

LEMMA StopEffects ==
  ASSUME ObjectsOK, Alone, NEW t \in Threads, MakesCall(t), Head(script[t]) \in Stops
  PROVE  /\ Alone' /\ script' = [script EXCEPT ![t] = Tail(@)]
         /\ UNCHANGED <<status, runs, crossed, failures, errors>>
         /\ Pipe' = Pipe /\ Loop' = Loop
         /\ ~On => ~On'
         /\ ~Active => ~Active'
         /\ Head(script[t]) = "quit" => ~On' /\ pipes' = pipes
         /\ Head(script[t]) = "setNull" =>
              ~Active' /\ (Pipe > 0 /\ ~PipeReleased => pipes'[Pipe] = "null")
         /\ Head(script[t]) = "unrefPipeline" =>
              (Pipe > 0 /\ pipes[Pipe] = "null" => pipes'[Pipe] = "freed")
         /\ Head(script[t]) \in {"removeWatch", "unrefLoop"} => pipes' = pipes
         /\ Head(script[t]) \in {"binNull", "removeBin", "unrefBin"} =>
              UNCHANGED <<pipes, loops, watched>>
<1>1. script' = [script EXCEPT ![t] = Tail(@)]
  BY CallScripts DEF Stops
<1>2. ASSUME Quieter
      PROVE  Alone' /\ Pipe' = Pipe /\ Loop' = Loop /\ (~On => ~On') /\ (~Active => ~Active')
  BY <1>2, QuieterAlone DEF Quieter, Pipe, Loop
<1>3. CASE Head(script[t]) = "quit"
  BY <1>1, <1>2, <1>3, CallsDo, QuitEffect DEF others
<1>4. CASE Head(script[t]) = "setNull"
  BY <1>1, <1>2, <1>4, CallsDo, SetNullEffect
<1>5. CASE Head(script[t]) = "unrefPipeline"
  BY <1>1, <1>2, <1>5, CallsDo, UnrefPipelineEffect DEF others
<1>6. CASE Head(script[t]) = "unrefLoop"
  BY <1>1, <1>2, <1>6, CallsDo, UnrefLoopEffect DEF others
<1>7. CASE Head(script[t]) = "removeWatch"
  <2>1. UNCHANGED <<pipes, loops, others>>
    BY <1>7, CallsDo DEF RemoveWatch
  <2> QED
    BY <1>1, <1>2, <1>7, <2>1 DEF others, Quieter
<1>8. CASE Head(script[t]) \in {"binNull", "removeBin", "unrefBin"}
  <2>1. UNCHANGED <<pipes, loops, watched, others>>
    BY <1>8, CallsDo DEF UseBin, Undefined, objects
  <2> QED
    BY <1>1, <1>2, <1>8, <2>1 DEF others, Quieter
<1> QED
  BY <1>3, <1>4, <1>5, <1>6, <1>7, <1>8 DEF Stops

\* Nothing that a stage is about has changed.
Same == /\ UNCHANGED <<pipes, loops, watched, runs, errors>>
        /\ \A g \in GstThreads : script'[g] = script[g]

LEMMA SameStages ==
  ASSUME Same
  PROVE  /\ Alone => Alone'
         /\ Still => Still'
         /\ Built => Built'
         /\ \A state : Shown(state) => Shown(state)'
         /\ Starts => Starts'
         /\ StopsStream => StopsStream'
         /\ Settled => Settled'
         /\ (On <=> On') /\ (Active <=> Active')
         /\ Unrun => Unrun'
         /\ Pipe' = Pipe /\ Loop' = Loop
<1>1. Pipe' = Pipe /\ Loop' = Loop
  BY DEF Same, Pipe, Loop
<1>2. (On <=> On') /\ (Active <=> Active') /\ (Unrun => Unrun')
  BY <1>1 DEF Same, On, Active, Unrun
<1>3. Settled => Settled'
  BY DEF Same, Settled
<1>4. Alone => Alone'
  BY <1>1, <1>2 DEF Same, Alone
<1>5. \A t \in GstThreads : Only(t) => Only(t)'
  BY DEF Same, Only
<1>6. \A t \in GstThreads : StartsBy(t) => StartsBy(t)'
  BY <1>1, <1>2, <1>5 DEF Same, StartsBy
<1>7. \A t \in GstThreads : StopsBy(t) => StopsBy(t)'
  BY <1>1, <1>2, <1>5 DEF Same, StopsBy, PipeReleased
<1>8. \A state : Shown(state) => Shown(state)'
  BY <1>1, <1>2, <1>3 DEF Same, Shown, Running, Failed
<1> QED
  BY <1>1, <1>2, <1>3, <1>4, <1>6, <1>7, <1>8 DEF Still, Built, Same, Starts, StopsStream

LEMMA CallsKeepHistory ==
  ASSUME NEW t \in Threads, MakesCall(t)
  PROVE  UNCHANGED <<crossed, errors>>
<1>1. CASE Quit(t) \/ SetNull(t) \/ UnrefPipeline(t) \/ RemoveWatch(t) \/ UnrefLoop(t)
  BY <1>1 DEF Quit, SetNull, UnrefPipeline, RemoveWatch, UnrefLoop, others
<1>2. CASE UntilStopped(t) \/ UseBin(t) \/ NewLoop(t) \/ InitLive(t) \/ Run(t)
  BY <1>2 DEF UntilStopped, UseBin, NewLoop, InitLive, Run, others
<1>3. CASE Report(t) \/ Spawn(t) \/ NewPipeline(t) \/ AddBranches(t)
  BY <1>3 DEF Report, Spawn, NewPipeline, AddBranches, Fails, others
<1>4. ASSUME NEW c, NEW state, SetState(t, c, state)
      PROVE  UNCHANGED <<crossed, errors>>
  BY <1>4 DEF SetState, others
<1> QED
  BY <1>1, <1>2, <1>3, <1>4 DEF MakesCall

\* A pipeline that is set to play or pause does so, unless it is released.
LEMMA SetStateEffect ==
  ASSUME ObjectsOK, Alone, NEW t, NEW c, NEW state \in Holding, SetState(t, c, state), Pipe > 0
  PROVE  /\ Alone' /\ UNCHANGED <<loops, watched, runs, status, errors>> /\ Pipe' = Pipe
         /\ pipes'[Pipe] = IF PipeReleased THEN pipes[Pipe] ELSE state
<1> Len(pipes) \in Nat
  BY LenProperties DEF ObjectsOK
<1>1. UNCHANGED <<loops, watched, runs, status, errors>>
  BY DEF SetState, Undefined, objects, others
<1>2. CASE PipeReleased
  <2>1. pipes' = pipes
    BY <1>2 DEF SetState, Undefined, objects
  <2> QED
    BY <1>1, <1>2, <2>1 DEF PipeReleased, Alone, On, Loop, Pipe
<1>3. CASE ~PipeReleased
  <2>1. pipes' = [pipes EXCEPT ![Pipe] = state] /\ state \in PipeStates
    BY <1>3 DEF SetState, Holding, PipeStates
  <2>2. /\ Len(pipes') = Len(pipes)
        /\ \A g \in 1..Len(pipes) : pipes'[g] = IF g = Len(pipes) THEN state ELSE pipes[g]
    BY <2>1, PipeIsSet
  <2>3. Pipe \in 1..Len(pipes) /\ Pipe = Len(pipes) /\ Pipe' = Pipe
    BY <2>2 DEF Pipe
  <2>4. \A g \in 1..Len(pipes') : pipes'[g] \in Holding => g = Len(pipes')
    BY <2>2 DEF Alone
  <2>5. Alone'
    BY <1>1, <2>4 DEF Alone, On, Loop
  <2> QED
    BY <1>1, <1>3, <2>2, <2>3, <2>5
<1> QED
  BY <1>2, <1>3

LEMMA RunEffect ==
  ASSUME ObjectsOK, Alone, Unrun, NEW t \in GstThreads, Run(t)
  PROVE  /\ Alone' /\ On' /\ UNCHANGED <<pipes, watched, status, errors>> /\ Pipe' = Pipe
<1> Len(loops) \in Nat
  BY LenProperties DEF ObjectsOK
<1>1. ~LoopReleased
  BY DEF Unrun, LoopReleased
<1>2. /\ loops' = [loops EXCEPT ![Loop] = [loops[Loop] EXCEPT !.on = TRUE]]
      /\ runs' = [runs EXCEPT ![t] = Loop]
      /\ UNCHANGED <<pipes, watched, status, errors>>
  BY <1>1 DEF Run
<1>3. loops[Loop] \in LoopStates /\ [loops[Loop] EXCEPT !.on = TRUE] \in LoopStates
  BY LastLoop DEF Unrun
<1>4. /\ Len(loops') = Len(loops)
      /\ \A k \in 1..Len(loops) :
           loops'[k] = IF k = Len(loops) THEN [loops[Loop] EXCEPT !.on = TRUE] ELSE loops[k]
  BY <1>2, <1>3, LoopIsSet
<1>5. [loops[Loop] EXCEPT !.on = TRUE].on = TRUE
  BY <1>3 DEF LoopStates
<1>6. Loop \in 1..Len(loops) /\ Loop = Len(loops) /\ Loop' = Loop /\ Loop > 0
  BY <1>4 DEF Loop, Unrun
<1>7. On'
  BY <1>4, <1>5, <1>6 DEF On
<1>8. \A u \in GstThreads : runs'[u] = IF u = t THEN Loop ELSE runs[u]
  BY <1>2 DEF ObjectsOK
<1>9. \A k \in 1..Len(loops') : loops'[k].on => k = Len(loops')
  BY <1>4 DEF Alone
<1>10. \A g \in 1..Len(pipes') : pipes'[g] \in Holding => g = Len(pipes')
  BY <1>2 DEF Alone
<1>11. \E u \in GstThreads : runs'[u] = Loop'
  BY <1>6, <1>8
<1>12. \A u, v \in GstThreads : runs'[u] = runs'[v] /\ runs'[u] # 0 => u = v
  BY <1>8 DEF Alone, Unrun
<1> QED
  BY <1>2, <1>7, <1>9, <1>10, <1>11, <1>12 DEF Alone, Pipe

LEMMA NewLoopEffect ==
  ASSUME ObjectsOK, Alone, ~On, NEW t, NewLoop(t)
  PROVE  Alone' /\ Unrun' /\ UNCHANGED <<pipes, watched, runs, status, errors>>
<1> Len(loops) \in Nat
  BY LenProperties DEF ObjectsOK
<1> DEFINE new == [owned |-> TRUE, on |-> FALSE]
<1>1. loops' = Append(loops, new) /\ UNCHANGED <<pipes, watched, runs, status, errors>>
  BY DEF NewLoop, others
<1>2. new \in LoopStates /\ new.owned = TRUE /\ new.on = FALSE
  BY DEF LoopStates
<1> HIDE DEF new
<1>3. /\ Len(loops') = Len(loops) + 1 /\ loops'[Len(loops) + 1] = new
      /\ \A k \in 1..Len(loops) : loops'[k] = loops[k]
  BY <1>1, <1>2, AppendProperties DEF ObjectsOK
<1>4. Loop' = Loop + 1 /\ Loop' = Len(loops) + 1 /\ Loop' > 0
  BY <1>3 DEF Loop
<1>5. loops'[Loop'].owned /\ ~loops'[Loop'].on
  BY <1>2, <1>3, <1>4
<1>6. \A u \in GstThreads : runs'[u] # Loop'
  <2> TAKE u \in GstThreads
  <2>1. runs[u] \in 0..Len(loops)
    BY DEF ObjectsOK
  <2> QED
    BY <1>1, <1>4, <2>1
<1>7. \A k \in 1..Len(loops) : ~loops[k].on
  BY DEF Alone, On, Loop
<1>8. \A k \in 1..Len(loops') : ~loops'[k].on
  <2> TAKE k \in 1..Len(loops')
  <2>1. k \in 1..Len(loops) \/ k = Len(loops) + 1
    BY <1>3
  <2> QED
    BY <1>2, <1>3, <1>7, <2>1
<1>9. Unrun'
  BY <1>4, <1>5, <1>6 DEF Unrun
<1>10. ~On'
  BY <1>5 DEF On
<1> QED
  BY <1>1, <1>8, <1>9, <1>10 DEF Alone

LEMMA NewPipelineEffect ==
  ASSUME ObjectsOK, Alone, ~Active, NEW t, NewPipeline(t)
  PROVE  /\ Alone' /\ Pipe' > 0 /\ pipes'[Pipe'] = "null"
         /\ UNCHANGED <<loops, runs, status, errors>>
         /\ \/ script' = [script EXCEPT ![t] = Tail(@)] /\ Pipe' \in watched'
            \/ script' = [script EXCEPT ![t] = <<>>]
<1> Len(pipes) \in Nat
  BY LenProperties DEF ObjectsOK
<1>1. /\ pipes' = Append(pipes, "null") /\ UNCHANGED <<loops, runs, status, errors>>
      /\ \/ script' = [script EXCEPT ![t] = Tail(@)] /\ Pipe' \in watched'
         \/ script' = [script EXCEPT ![t] = <<>>]
  BY DEF NewPipeline, Defined, Rest, Fails, others, Pipe
<1>2. "null" \in PipeStates /\ "null" \notin Holding
  BY DEF PipeStates, Holding
<1>3. /\ Len(pipes') = Len(pipes) + 1 /\ pipes'[Len(pipes) + 1] = "null"
      /\ \A g \in 1..Len(pipes) : pipes'[g] = pipes[g]
  BY <1>1, <1>2, AppendProperties DEF ObjectsOK
<1>4. Pipe' = Len(pipes) + 1 /\ Pipe' > 0
  BY <1>3 DEF Pipe
<1>5. \A g \in 1..Len(pipes) : pipes[g] \notin Holding
  BY DEF Alone, Active, Pipe
<1>6. \A g \in 1..Len(pipes') : pipes'[g] \notin Holding
  <2> TAKE g \in 1..Len(pipes')
  <2>1. g \in 1..Len(pipes) \/ g = Len(pipes) + 1
    BY <1>3
  <2> QED
    BY <1>2, <1>3, <1>5, <2>1
<1>7. Alone'
  BY <1>1, <1>6 DEF Alone, On, Loop
<1> QED
  BY <1>1, <1>3, <1>4, <1>7

\* Control makes a call: the scripts of the others stay, but for a new thread's.
LEMMA ControlScripts ==
  ASSUME TInv, NEW calls, script' = [script EXCEPT ![Control] = calls]
  PROVE  /\ script'[Control] = calls
         /\ \A g \in GstThreads : script'[g] = script[g]
         /\ Settled => Settled'
<1> Control \in Threads /\ GstThreads \subseteq Threads /\ Control \notin GstThreads
  BY PipelineAssumption DEF Threads
<1>1. script \in [Threads -> Seq(Calls)]
  BY DEF TInv, ScriptsOK
<1>2. script'[Control] = calls /\ \A g \in GstThreads : script'[g] = script[g]
  BY <1>1
<1> QED
  BY <1>2 DEF Settled

LEMMA StageMakesLoop ==
  ASSUME TInv, Alone, MakesCall(Control), MakesLoop(script[Control]), status = "ready", Still
  PROVE  Stage' /\ Alone'
<1> DEFINE c == script[Control]
<1> Control \in Threads /\ ObjectsOK
  BY PipelineAssumption DEF Threads, TInv
<1>1. CASE Head(c) \in Stops /\ MakesLoop(Tail(c))
  <2>1. Alone' /\ status' = "ready" /\ ~On' /\ ~Active' /\ script' = [script EXCEPT ![Control] = Tail(@)]
    BY <1>1, StopEffects DEF Still
  <2>2. script'[Control] = Tail(c) /\ Settled'
    BY <2>1, ControlScripts DEF Still
  <2> QED
    BY <1>1, <2>1, <2>2 DEF Stage, Still
<1>2. CASE Head(c) = "newLoop" /\ MakesPipe(Tail(c))
  <2>1. NewLoop(Control) /\ script' = [script EXCEPT ![Control] = Tail(@)]
    BY <1>2, CallsDo DEF NewLoop, Defined, Rest
  <2>2. script'[Control] = Tail(c) /\ Settled'
    BY <2>1, ControlScripts DEF Still
  <2>3. Alone' /\ Unrun' /\ UNCHANGED <<pipes, watched, runs, status, errors>>
    BY <2>1, NewLoopEffect DEF Still
  <2>4. ~Active'
    BY <2>3 DEF Still, Active, Pipe
  <2> QED
    BY <1>2, <2>2, <2>3, <2>4 DEF Stage
<1> QED
  BY <1>1, <1>2, MakesLoopStep

LEMMA StageMakesPipe ==
  ASSUME TInv, Alone, MakesCall(Control), MakesPipe(script[Control]), status = "ready",
         ~Active, Unrun, Settled
  PROVE  Stage' /\ Alone'
<1> DEFINE c == script[Control]
<1> Control \in Threads /\ ObjectsOK
  BY PipelineAssumption DEF Threads, TInv
<1>1. NewPipeline(Control) /\ Spawns(Tail(c))
  BY MakesPipeStep, CallsDo
<1>2. /\ Alone' /\ Pipe' > 0 /\ pipes'[Pipe'] = "null"
      /\ UNCHANGED <<loops, runs, status, errors>>
      /\ \/ script' = [script EXCEPT ![Control] = Tail(@)] /\ Pipe' \in watched'
         \/ script' = [script EXCEPT ![Control] = <<>>]
  BY <1>1, NewPipelineEffect
<1>3. Unrun' /\ ~On' /\ ~Active'
  BY <1>2 DEF Unrun, On, Loop, Active, Holding
<1>4. CASE script' = [script EXCEPT ![Control] = Tail(@)] /\ Pipe' \in watched'
  <2>1. script'[Control] = Tail(c) /\ Settled'
    BY <1>4, ControlScripts
  <2> QED
    BY <1>1, <1>2, <1>3, <1>4, <2>1 DEF Stage, Built
<1>5. CASE script' = [script EXCEPT ![Control] = <<>>]
  <2>1. script'[Control] = <<>> /\ Settled'
    BY <1>5, ControlScripts
  <2> QED
    BY <1>2, <1>3, <2>1 DEF Stage, Still
<1> QED
  BY <1>2, <1>4, <1>5

LEMMA StageSpawns ==
  ASSUME TInv, Alone, MakesCall(Control), Spawns(script[Control]), status = "ready", Built
  PROVE  Stage' /\ Alone'
<1> DEFINE c == script[Control]
<1> Control \in Threads /\ GstThreads \subseteq Threads /\ Control \notin GstThreads /\ ObjectsOK
  BY PipelineAssumption DEF Threads, TInv
<1> Len(pipes) \in Nat
  BY LenProperties DEF ObjectsOK
<1>1. CASE Head(c) = "addBranches" /\ Spawns(Tail(c))
  <2>1. AddBranches(Control)
    BY <1>1, CallsDo
  <2>2. CASE script' = [script EXCEPT ![Control] = Tail(@)] /\ UNCHANGED <<objects, others>>
    <3>1. script'[Control] = Tail(c) /\ Same
      BY <2>2, ControlScripts DEF Same, objects, others
    <3> QED
      BY <1>1, <2>2, <3>1, SameStages DEF Stage, others
  <2>3. CASE /\ script' = [script EXCEPT ![Control] = <<>>]
             /\ UNCHANGED <<loops, watched, status, runs, errors>>
             /\ pipes' = pipes \/ pipes' = [pipes EXCEPT ![Pipe] = "freed"]
    <3>1. script'[Control] = <<>> /\ Settled'
      BY <2>3, ControlScripts DEF Built
    <3>2. /\ Len(pipes') = Len(pipes)
          /\ \A g \in 1..Len(pipes) : pipes'[g] \in {pipes[g], "freed"}
      BY <2>3, PipeIsSet DEF PipeStates
    <3>3. Pipe \in 1..Len(pipes) /\ Pipe' = Pipe
      BY <3>2 DEF Built, Pipe
    <3>4. ~Active' /\ ~On'
      BY <2>3, <3>2, <3>3 DEF Active, On, Loop, Built, Unrun, Holding
    <3>5. \A g \in 1..Len(pipes') : pipes'[g] \in Holding => g = Len(pipes')
      BY <3>2 DEF Alone, Holding
    <3>6. Alone'
      BY <2>3, <3>4, <3>5 DEF Alone
    <3> QED
      BY <2>3, <3>1, <3>4, <3>6 DEF Stage, Still
  <2> QED
    BY <2>1, <2>2, <2>3 DEF AddBranches, Defined, Rest, Fails, objects
<1>2. CASE Head(c) = "initLive" /\ Spawns(Tail(c))
  <2>1. /\ script' = [script EXCEPT ![Control] = Tail(@)]
        /\ UNCHANGED <<loops, watched, status, runs, errors>>
        /\ pipes' = pipes \/ pipes' = [pipes EXCEPT ![Pipe] = "lost"]
    BY <1>2, CallsDo DEF InitLive, LoseBranch, Defined, Undefined, Rest, objects
  <2>2. script'[Control] = Tail(c) /\ Settled'
    BY <2>1, ControlScripts DEF Built
  <2>3. CASE pipes' = pipes
    <3>1. Same
      BY <2>1, <2>3, ControlScripts DEF Same
    <3> QED
      BY <1>2, <2>1, <2>2, <3>1, SameStages DEF Stage
  <2>4. CASE pipes' = [pipes EXCEPT ![Pipe] = "lost"]
    <3>1. /\ Len(pipes') = Len(pipes)
          /\ \A g \in 1..Len(pipes) : pipes'[g] = IF g = Len(pipes) THEN "lost" ELSE pipes[g]
      BY <2>4, PipeIsSet DEF PipeStates
    <3>2. Pipe \in 1..Len(pipes) /\ Pipe' = Pipe /\ pipes'[Pipe] = "lost"
      BY <3>1 DEF Built, Pipe
    <3>3. Built'
      BY <2>1, <2>2, <3>2 DEF Built, Unrun, Loop
    <3>4. \A g \in 1..Len(pipes') : pipes'[g] \in Holding => g = Len(pipes')
      BY <3>1 DEF Alone
    <3>5. Alone'
      BY <2>1, <3>4 DEF Alone, On, Loop
    <3> QED
      BY <1>2, <2>1, <2>2, <3>3, <3>5 DEF Stage
  <2> QED
    BY <2>1, <2>3, <2>4
<1>3. CASE Head(c) = "spawn" /\ Reports(Tail(c))
  <2>1. PICK g \in GstThreads : script' = [script EXCEPT ![Control] = Tail(@), ![g] = play]
    BY <1>3, CallsDo DEF Spawn
  <2>2. UNCHANGED <<pipes, loops, watched, runs, errors>>
    BY <1>3, CallsDo DEF Spawn, objects, others
  <2>3. script'[Control] = Tail(c) /\ \A u \in GstThreads : script'[u] = IF u = g THEN play ELSE script[u]
    BY <2>1 DEF TInv, ScriptsOK
  <2>4. Starting(script'[g]) /\ Only(g)' /\ play # <<"run">>
    BY <2>3 DEF Starting, Only, Built, Settled, play
  <2>5. Pipe' = Pipe /\ Loop' = Loop /\ Unrun'
    BY <2>2 DEF Pipe, Loop, Unrun, Built
  <2>6. Starts'
    BY <2>2, <2>3, <2>4, <2>5 DEF Starts, StartsBy, Built
  <2>7. Alone'
    BY <2>2 DEF Alone, On, Loop
  <2> QED
    BY <1>3, <2>3, <2>6, <2>7 DEF Stage
<1> QED
  BY <1>1, <1>2, <1>3, SpawnsStep

LEMMA StageReports ==
  ASSUME TInv, Alone, MakesCall(Control), Reports(script[Control]), Shown("playing") \/ Starts
  PROVE  Stage' /\ Alone'
<1> DEFINE c == script[Control]
<1> Control \in Threads
  BY PipelineAssumption DEF Threads
<1>1. Head(c) \in Modes /\ Tail(c) = <<>>
  BY ReportsStep
<1>2. Report(Control)
  BY <1>1, CallsDo
<1>3. /\ script' = [script EXCEPT ![Control] = Tail(@)]
      /\ UNCHANGED <<pipes, loops, watched, runs, errors>>
      /\ status' = Head(c)
  BY <1>2 DEF Report, Makes, Defined, Rest, objects
<1>4. script'[Control] = <<>> /\ Same
  BY <1>1, <1>3, ControlScripts DEF Same
<1>5. status' # "ready"
  BY <1>1, <1>3 DEF Modes
<1>6. Alone' /\ (Shown("playing")' \/ Starts')
  BY <1>4, SameStages
<1> QED
  BY <1>4, <1>5, <1>6 DEF Stage

\* startLive: the pipeline pauses and plays again; a failed one stays as it is.
LEMMA StateIsShown ==
  ASSUME TInv, Alone, NEW old \in Holding, NEW state \in Holding, Shown(old), NEW call,
         SetState(Control, call, state)
  PROVE  /\ Shown(state)' /\ Alone' /\ script' = [script EXCEPT ![Control] = Tail(@)]
         /\ status' = status
<1> ObjectsOK /\ Pipe > 0 /\ Settled
  BY DEF TInv, Shown, Running, Failed
<1>1. script' = [script EXCEPT ![Control] = Tail(@)]
  BY DEF SetState, Defined, Undefined, Rest
<1>2. Settled'
  BY <1>1, ControlScripts
<1>3. /\ Alone' /\ UNCHANGED <<loops, watched, runs, status, errors>> /\ Pipe' = Pipe
      /\ pipes'[Pipe] = IF PipeReleased THEN pipes[Pipe] ELSE state
  BY SetStateEffect
<1>4. On' <=> On
  BY <1>3 DEF On, Loop
<1> QED
  BY <1>1, <1>2, <1>3, <1>4 DEF Shown, Running, Failed, Holding, PipeReleased

LEMMA StageStartsLive ==
  ASSUME TInv, Alone, MakesCall(Control),
         \/ Pauses(script[Control]) /\ Shown("playing")
         \/ Resumes(script[Control]) /\ Shown("paused")
  PROVE  Stage' /\ Alone'
<1> DEFINE c == script[Control]
<1> Control \in Threads /\ {"paused", "playing"} \subseteq Holding
  BY PipelineAssumption DEF Threads, Holding
<1>1. CASE Pauses(c) /\ Shown("playing")
  <2>1. SetState(Control, "pause", "paused") /\ Resumes(Tail(c))
    BY <1>1, PausesStep, CallsDo
  <2>2. Shown("paused")' /\ Alone' /\ script' = [script EXCEPT ![Control] = Tail(@)]
    BY <1>1, <2>1, StateIsShown
  <2>3. script'[Control] = Tail(c)
    BY <2>2, ControlScripts
  <2> QED
    BY <2>1, <2>2, <2>3 DEF Stage
<1>2. CASE Resumes(c) /\ Shown("paused") /\ Head(c) = "resume"
  <2>1. SetState(Control, "resume", "playing") /\ Reports(Tail(c))
    BY <1>2, ResumesStep, CallsDo
  <2>2. Shown("playing")' /\ Alone' /\ script' = [script EXCEPT ![Control] = Tail(@)]
    BY <1>2, <2>1, StateIsShown
  <2>3. script'[Control] = Tail(c)
    BY <2>2, ControlScripts
  <2> QED
    BY <2>1, <2>2, <2>3 DEF Stage
<1>3. CASE Resumes(c) /\ Shown("paused") /\ Head(c) = "initLive" /\ Resumes(Tail(c))
  <2>0. pipes[Pipe] # "null"
    BY <1>3 DEF Shown, Running, Failed
  <2>1. /\ script' = [script EXCEPT ![Control] = Tail(@)]
        /\ UNCHANGED <<pipes, loops, watched, status, runs, errors>>
    BY <1>3, <2>0, CallsDo DEF InitLive, LoseBranch, Defined, Undefined, Rest, objects
  <2>2. script'[Control] = Tail(c) /\ Same
    BY <2>1, ControlScripts DEF Same
  <2> QED
    BY <1>3, <2>2, SameStages DEF Stage
<1> QED
  BY <1>1, <1>2, <1>3, ResumesStep

LEMMA StageDropsLive ==
  ASSUME TInv, Alone, MakesCall(Control), DropsLive(script[Control]), Shown("playing")
  PROVE  Stage' /\ Alone'
<1> DEFINE c == script[Control]
<1> Control \in Threads /\ ObjectsOK
  BY PipelineAssumption DEF Threads, TInv
<1>1. /\ Head(c) \in {"binNull", "removeBin", "unrefBin"}
      /\ DropsLive(Tail(c)) \/ Reports(Tail(c))
  BY DropsLiveStep
<1>2. /\ script' = [script EXCEPT ![Control] = Tail(@)]
      /\ UNCHANGED <<pipes, loops, watched, runs, errors>>
  BY <1>1, StopEffects DEF Stops
<1>3. script'[Control] = Tail(c) /\ Same
  BY <1>2, ControlScripts DEF Same
<1> QED
  BY <1>1, <1>3, SameStages DEF Stage

LEMMA StageOff ==
  ASSUME TInv, Alone, MakesCall(Control),
         \/ Quits(script[Control]) /\ Settled
         \/ SetsNull(script[Control]) /\ Settled /\ ~On
         \/ TurnsReady(script[Control]) /\ Still
  PROVE  Stage' /\ Alone'
<1> DEFINE c == script[Control]
<1> Control \in Threads /\ ObjectsOK
  BY PipelineAssumption DEF Threads, TInv
<1>1. CASE Quits(c) /\ Settled
  <2>1. Head(c) = "quit" /\ SetsNull(Tail(c)) /\ Head(c) \in Stops
    BY <1>1, QuitsStep DEF Stops
  <2>2. Alone' /\ ~On' /\ script' = [script EXCEPT ![Control] = Tail(@)]
    BY <2>1, StopEffects
  <2>3. script'[Control] = Tail(c) /\ Settled'
    BY <1>1, <2>2, ControlScripts
  <2> QED
    BY <2>1, <2>2, <2>3 DEF Stage
<1>2. CASE SetsNull(c) /\ Settled /\ ~On
  <2>1. Head(c) = "setNull" /\ TurnsReady(Tail(c)) /\ Head(c) \in Stops
    BY <1>2, QuitsStep DEF Stops
  <2>2. Alone' /\ ~On' /\ ~Active' /\ script' = [script EXCEPT ![Control] = Tail(@)]
    BY <1>2, <2>1, StopEffects
  <2>3. script'[Control] = Tail(c) /\ Settled'
    BY <1>2, <2>2, ControlScripts
  <2> QED
    BY <2>1, <2>2, <2>3 DEF Stage, Still
<1>3. CASE TurnsReady(c) /\ Still
  <2>1. CASE Head(c) \in {"unrefPipeline", "removeWatch", "unrefLoop"} /\ TurnsReady(Tail(c))
    <3>1. Head(c) \in Stops
      BY <2>1 DEF Stops
    <3>2. Alone' /\ ~On' /\ ~Active' /\ script' = [script EXCEPT ![Control] = Tail(@)]
      BY <1>3, <3>1, StopEffects DEF Still
    <3>3. script'[Control] = Tail(c) /\ Settled'
      BY <1>3, <3>2, ControlScripts DEF Still
    <3> QED
      BY <2>1, <3>2, <3>3 DEF Stage, Still
  <2>2. CASE Head(c) = "untilStopped" /\ TurnsReady(Tail(c)) /\ Quits(stopStreaming \o c)
    <3>1. /\ \/ script' = [script EXCEPT ![Control] = Tail(c)]
             \/ script' = [script EXCEPT ![Control] = stopStreaming \o c]
          /\ UNCHANGED <<pipes, loops, watched, runs, errors>>
      BY <2>2, CallsDo DEF UntilStopped, objects, others
    <3>2. script'[Control] \in {Tail(c), stopStreaming \o c} /\ Same
      BY <3>1, ControlScripts DEF Same
    <3> QED
      BY <1>3, <2>2, <3>2, SameStages DEF Stage, Still
  <2>3. CASE Head(c) = "ready" /\ Tail(c) = <<>>
    <3>1. /\ script' = [script EXCEPT ![Control] = Tail(@)]
          /\ UNCHANGED <<pipes, loops, watched, runs, errors>>
          /\ status' = "ready"
      BY <2>3, CallsDo DEF Report, Makes, Defined, Rest, objects
    <3>2. script'[Control] = <<>> /\ Same
      BY <2>3, <3>1, ControlScripts DEF Same
    <3> QED
      BY <1>3, <3>1, <3>2, SameStages DEF Stage
  <2> QED
    BY <1>3, <2>1, <2>2, <2>3, TurnsReadyStep
<1> QED
  BY <1>1, <1>2, <1>3

LEMMA ControlKeepsStage ==
  ASSUME TInv, Stage, Alone, MakesCall(Control)
  PROVE  Stage' /\ Alone'
<1>1. script[Control] # <<>>
  BY CallsDo DEF Threads
<1> QED
  BY <1>1, StageMakesLoop, StageMakesPipe, StageSpawns, StageReports, StageStartsLive,
     StageDropsLive, StageOff DEF Stage

LEMMA GstScripts ==
  ASSUME TInv, NEW t \in GstThreads, NEW calls, script' = [script EXCEPT ![t] = calls]
  PROVE  /\ script'[t] = calls /\ script'[Control] = script[Control]
         /\ \A u \in GstThreads \ {t} : script'[u] = script[u]
         /\ Only(t) => Only(t)'
         /\ Only(t) /\ calls = <<>> => Settled'
<1> Control \in Threads /\ GstThreads \subseteq Threads /\ Control \notin GstThreads
  BY PipelineAssumption DEF Threads
<1>1. script \in [Threads -> Seq(Calls)]
  BY DEF TInv, ScriptsOK
<1>2. /\ script'[t] = calls /\ script'[Control] = script[Control]
      /\ \A u \in GstThreads \ {t} : script'[u] = script[u]
  BY <1>1
<1> QED
  BY <1>2 DEF Only, Settled

LEMMA GstStarts ==
  ASSUME TInv, Alone, Starts, NEW t \in GstThreads, MakesCall(t)
  PROVE  /\ Alone' /\ (Starts' \/ Running("playing")' \/ Running("lost")')
         /\ script'[Control] = script[Control] /\ status' = status
<1> DEFINE c == script[t]
<1> t \in Threads /\ ObjectsOK
  BY DEF Threads, TInv
<1>1. StartsBy(t)
  <2>1. PICK u \in GstThreads : StartsBy(u)
    BY DEF Starts
  <2>2. u = t
    BY <2>1, CallsDo DEF Only, StartsBy
  <2> QED
    BY <2>1, <2>2
<1>2. /\ Starting(c) /\ Only(t) /\ Pipe > 0 /\ Pipe \in watched /\ Unrun
      /\ c = play => pipes[Pipe] \in {"null", "lost"}
      /\ c = <<"run">> => pipes[Pipe] \in {"playing", "lost"}
  BY <1>1 DEF StartsBy
<1>3. CASE c = play
  <2>1. Head(c) = "setPlaying" /\ Tail(c) = <<"run">> /\ "playing" \in Holding
    BY <1>3, StartingStep DEF Starting, Holding
  <2>2. SetState(t, "setPlaying", "playing")
    BY <2>1, CallsDo
  <2>3. /\ Alone' /\ UNCHANGED <<loops, watched, runs, status, errors>> /\ Pipe' = Pipe
        /\ pipes'[Pipe] = IF PipeReleased THEN pipes[Pipe] ELSE "playing"
    BY <1>2, <2>1, <2>2, SetStateEffect
  <2>9. pipes'[Pipe'] \in {"playing", "lost"}
    BY <1>2, <1>3, <2>3 DEF PipeReleased
  <2>4. script' = [script EXCEPT ![t] = Tail(c)]
    BY <2>2 DEF SetState, Defined, Undefined, Rest
  <2>5. script'[t] = <<"run">> /\ script'[Control] = script[Control] /\ Only(t)'
    BY <1>2, <2>1, <2>4, GstScripts
  <2>6. Unrun'
    BY <1>2, <2>3 DEF Unrun, Loop
  <2>7. play # <<"run">>
    BY DEF play
  <2>8. Starts'
    BY <1>2, <2>3, <2>5, <2>6, <2>7, <2>9 DEF Starts, StartsBy, Starting
  <2> QED
    BY <2>3, <2>5, <2>8
<1>4. CASE c = <<"run">>
  <2>1. Head(c) = "run" /\ Tail(c) = <<>>
    BY <1>4, StartingStep DEF Starting
  <2>2. Run(t)
    BY <2>1, CallsDo
  <2>3. Alone' /\ On' /\ UNCHANGED <<pipes, watched, status, errors>> /\ Pipe' = Pipe
    BY <1>2, <2>2, RunEffect
  <2>4. script' = [script EXCEPT ![t] = Tail(c)]
    BY <2>2 DEF Run, Defined, Undefined, Rest
  <2>5. script'[Control] = script[Control] /\ Settled'
    BY <1>2, <2>1, <2>4, GstScripts
  <2> QED
    BY <1>2, <1>4, <2>3, <2>5 DEF Running
<1> QED
  BY <1>2, <1>3, <1>4 DEF Starting

LEMMA GstStops ==
  ASSUME TInv, Alone, StopsStream, NEW t \in GstThreads, MakesCall(t)
  PROVE  /\ Alone' /\ (StopsStream' \/ Failed')
         /\ script'[Control] = script[Control] /\ status' = status
<1> DEFINE c == script[t]
<1> t \in Threads /\ ObjectsOK
  BY DEF Threads, TInv
<1>1. StopsBy(t)
  <2>1. PICK u \in GstThreads : StopsBy(u)
    BY DEF StopsStream
  <2>2. u = t
    BY <2>1, CallsDo DEF Only, StopsBy
  <2> QED
    BY <2>1, <2>2
<1>2. /\ Only(t) /\ runs[t] = Loop /\ Pipe > 0 /\ Loop > 0
      /\ \/ StopsAt(c, 1) /\ ~PipeReleased
         \/ StopsAt(c, 2) /\ ~PipeReleased /\ ~On
         \/ StopsAt(c, 3) /\ pipes[Pipe] = "null" /\ ~On
         \/ StopsAt(c, 4) /\ pipes[Pipe] = "freed" /\ ~On
         \/ StopsAt(c, 5) /\ pipes[Pipe] = "freed" /\ ~On
  BY <1>1 DEF StopsBy
<1>3. \A i \in 1..5 : StopsAt(c, i) =>
        /\ Head(c) = stopStreaming[i] /\ Head(c) \in Stops
        /\ i < 5 => StopsAt(Tail(c), i + 1)
        /\ i = 5 => Tail(c) = <<>>
  <2> TAKE i \in 1..5
  <2>1. i = 1 \/ i = 2 \/ i = 3 \/ i = 4 \/ i = 5
    OBVIOUS
  <2> QED
    BY <2>1, StoppingStep, StopCalls DEF Stops
<1>4. Head(c) \in Stops
  BY <1>2, <1>3
<1>5. /\ Alone' /\ script' = [script EXCEPT ![t] = Tail(@)]
      /\ UNCHANGED <<status, runs, crossed, failures, errors>>
      /\ Pipe' = Pipe /\ Loop' = Loop
      /\ ~On => ~On'
      /\ Head(c) = "quit" => ~On' /\ pipes' = pipes
      /\ Head(c) = "setNull" => (Pipe > 0 /\ ~PipeReleased => pipes'[Pipe] = "null")
      /\ Head(c) = "unrefPipeline" => (Pipe > 0 /\ pipes[Pipe] = "null" => pipes'[Pipe] = "freed")
      /\ Head(c) \in {"removeWatch", "unrefLoop"} => pipes' = pipes
  BY <1>4, StopEffects
<1>6. script'[t] = Tail(c) /\ script'[Control] = script[Control]
  BY <1>5, GstScripts
<1>7. Only(t)' /\ (Tail(c) = <<>> => Settled')
  BY <1>2, <1>5, GstScripts
<1>8. runs'[t] = Loop' /\ Pipe' > 0 /\ Loop' > 0
  BY <1>2, <1>5
<1>9. CASE StopsAt(c, 1) /\ ~PipeReleased
  <2>1. Head(c) = "quit" /\ StopsAt(Tail(c), 2)
    BY <1>3, <1>9, StopCalls
  <2>2. ~PipeReleased'
    BY <1>5, <1>9, <2>1 DEF PipeReleased
  <2> QED
    BY <1>5, <1>6, <1>7, <1>8, <2>1, <2>2 DEF StopsStream, StopsBy
<1>10. CASE StopsAt(c, 2) /\ ~PipeReleased /\ ~On
  <2>1. Head(c) = "setNull" /\ StopsAt(Tail(c), 3)
    BY <1>3, <1>10, StopCalls
  <2>2. pipes'[Pipe'] = "null"
    BY <1>2, <1>5, <1>10, <2>1
  <2> QED
    BY <1>5, <1>6, <1>7, <1>8, <1>10, <2>1, <2>2 DEF StopsStream, StopsBy
<1>11. CASE StopsAt(c, 3) /\ pipes[Pipe] = "null" /\ ~On
  <2>1. Head(c) = "unrefPipeline" /\ StopsAt(Tail(c), 4)
    BY <1>3, <1>11, StopCalls
  <2>2. pipes'[Pipe'] = "freed"
    BY <1>2, <1>5, <1>11, <2>1
  <2> QED
    BY <1>5, <1>6, <1>7, <1>8, <1>11, <2>1, <2>2 DEF StopsStream, StopsBy
<1>12. CASE StopsAt(c, 4) /\ pipes[Pipe] = "freed" /\ ~On
  <2>1. Head(c) = "removeWatch" /\ StopsAt(Tail(c), 5)
    BY <1>3, <1>12, StopCalls
  <2> QED
    BY <1>5, <1>6, <1>7, <1>8, <1>12, <2>1 DEF StopsStream, StopsBy
<1>13. CASE StopsAt(c, 5) /\ pipes[Pipe] = "freed" /\ ~On
  <2>1. Head(c) = "unrefLoop" /\ Tail(c) = <<>>
    BY <1>3, <1>13, StopCalls
  <2> QED
    BY <1>5, <1>6, <1>7, <1>8, <1>13, <2>1 DEF Failed
<1> QED
  BY <1>2, <1>9, <1>10, <1>11, <1>12, <1>13

LEMMA GstKeepsStage ==
  ASSUME TInv, Stage, Alone, NEW t \in GstThreads, MakesCall(t)
  PROVE  Stage' /\ Alone'
<1> DEFINE c == script[Control]
<1>1. ~Settled /\ errors' = errors
  BY CallsDo, CallsKeepHistory DEF Settled, Threads
<1>2. \/ Reports(c) /\ Starts
      \/ c = <<>> /\ status # "ready" /\ (Starts \/ (errors > 0 /\ StopsStream))
  BY <1>1 DEF Stage, Still, Built, Shown, Running, Failed
<1>3. CASE Starts
  <2>1. /\ Alone' /\ (Starts' \/ Running("playing")' \/ Running("lost")')
        /\ script'[Control] = c /\ status' = status
    BY <1>3, GstStarts
  <2>2. Starts' \/ Shown("playing")'
    BY <2>1 DEF Shown
  <2> QED
    BY <1>2, <2>1, <2>2 DEF Stage
<1>4. CASE c = <<>> /\ status # "ready" /\ errors > 0 /\ StopsStream
  <2>1. /\ Alone' /\ (StopsStream' \/ Failed')
        /\ script'[Control] = c /\ status' = status
    BY <1>4, GstStops
  <2>2. Shown("playing")' \/ (errors' > 0 /\ StopsStream')
    BY <1>1, <1>4, <2>1 DEF Shown
  <2> QED
    BY <1>4, <2>1, <2>2 DEF Stage
<1> QED
  BY <1>2, <1>3, <1>4

LEMMA ReturnKeepsStage ==
  ASSUME TInv, Stage, Alone, NEW t \in GstThreads, RunReturns(t)
  PROVE  Stage' /\ Alone'
<1> ObjectsOK
  BY DEF TInv
<1>1. /\ script[t] = <<>> /\ ~loops[runs[t]].on /\ runs[t] # 0
      /\ UNCHANGED <<script, pipes, loops, watched, status, errors>>
      /\ runs' = [runs EXCEPT ![t] = 0]
  BY DEF RunReturns, InLoop, objects
<1>2. \A u \in GstThreads : runs'[u] = IF u = t THEN 0 ELSE runs[u]
  BY <1>1 DEF ObjectsOK
<1>3. Pipe' = Pipe /\ Loop' = Loop /\ (On <=> On') /\ (Active <=> Active') /\ (Settled <=> Settled')
  BY <1>1 DEF Pipe, Loop, On, Active, Settled
<1>4. Unrun => Unrun'
  BY <1>1, <1>2, <1>3 DEF Unrun
<1>5. Alone'
  <2>1. On' => \E u \in GstThreads : runs'[u] = Loop'
    <3> SUFFICES ASSUME On PROVE \E u \in GstThreads : runs'[u] = Loop'
      BY <1>3
    <3>1. PICK u \in GstThreads : runs[u] = Loop
      BY DEF Alone
    <3>2. u # t
      BY <1>1, <3>1 DEF On
    <3> QED
      BY <1>2, <1>3, <3>1, <3>2
  <2>2. \A u, v \in GstThreads : runs'[u] = runs'[v] /\ runs'[u] # 0 => u = v
    BY <1>2 DEF Alone
  <2> QED
    BY <1>1, <2>1, <2>2 DEF Alone
<1>6. Starts => Starts'
  BY <1>1, <1>3, <1>4 DEF Starts, StartsBy, Only
<1>7. StopsStream => StopsStream'
  <2>1. ASSUME NEW u \in GstThreads, StopsBy(u) PROVE StopsBy(u)'
    <3>1. u # t
      BY <1>1, <2>1, StopsHaveCalls
    <3> QED
      BY <1>1, <1>2, <1>3, <2>1, <3>1 DEF StopsBy, Only, PipeReleased
  <2> QED
    BY <2>1 DEF StopsStream
<1>8. Shown("playing") => Shown("playing")'
  BY <1>1, <1>3 DEF Shown, Running, Failed
<1>9. Shown("paused") => Shown("paused")'
  BY <1>1, <1>3 DEF Shown, Running, Failed
<1>10. (Still => Still') /\ (Built => Built')
  BY <1>1, <1>3, <1>4 DEF Still, Built
<1>11. Stage'
  BY <1>1, <1>3, <1>4, <1>6, <1>7, <1>8, <1>9, <1>10 DEF Stage
<1> QED
  BY <1>5, <1>11

\* An error in the loop of the last pipeline, while no order is being obeyed.
LEMMA BusKeepsStage ==
  ASSUME TInv, Stage, Alone, NEW t \in GstThreads, BusCall(t), ~crossed'
  PROVE  Stage' /\ Alone'
<1> ObjectsOK
  BY DEF TInv
<1>1. /\ script[t] = <<>> /\ runs[t] # 0 /\ loops[runs[t]].on
      /\ pipes[Pipe] \in Holding
      /\ UNCHANGED <<pipes, loops, watched, status, runs>>
      /\ errors' = errors + 1
      /\ script' = [script EXCEPT ![t] = stopStreaming]
      /\ script[Control] = <<>>
  BY DEF BusCall, InLoop, objects, Holding
<1>2. runs[t] \in 1..Len(loops)
  BY <1>1, LenProperties DEF ObjectsOK
<1>3. runs[t] = Loop /\ On
  BY <1>1, <1>2 DEF Alone, Loop, On
<1>4. status # "ready" /\ (Shown("playing") \/ Starts \/ (errors > 0 /\ StopsStream))
  BY <1>1, <1>3, FreeStages DEF Still
<1>5. ~Starts
  BY <1>3 DEF Starts, StartsBy, Unrun, On
<1>6. ~StopsStream
  <2>1. ASSUME NEW u \in GstThreads, StopsBy(u) PROVE FALSE
    <3>1. u = t
      BY <1>1, <1>3, <2>1 DEF Alone, StopsBy
    <3> QED
      BY <1>1, <2>1, <3>1, StopsHaveCalls
  <2> QED
    BY <2>1 DEF StopsStream
<1>7. Running("playing")
  BY <1>1, <1>3, <1>4, <1>5, <1>6 DEF Shown, Failed, Running, Holding
<1>8. script'[t] = stopStreaming /\ script'[Control] = <<>> /\ Only(t)'
  BY <1>1, <1>7, GstScripts DEF Running, Only, Settled
<1>9. StopsAt(stopStreaming, 1)
  BY StopCalls, AllCalls DEF StopsAt
<1>10. /\ Pipe' = Pipe /\ Loop' = Loop /\ Pipe > 0 /\ Loop > 0
       /\ ~PipeReleased /\ (PipeReleased' <=> PipeReleased)
  BY <1>1, <1>3, <1>7 DEF Pipe, Loop, Running, On, Holding, PipeReleased
<1>11. StopsStream'
  BY <1>1, <1>3, <1>8, <1>9, <1>10 DEF StopsStream, StopsBy
<1>12. errors' > 0
  BY <1>1 DEF ObjectsOK
<1>13. Alone'
  BY <1>1 DEF Alone, On, Loop
<1> QED
  BY <1>1, <1>4, <1>8, <1>11, <1>12, <1>13 DEF Stage

\* An order that is taken when every thread has reached its loop.
LEMMA OrderKeepsStage ==
  ASSUME Prompt, TInv, Stage, Alone, NEW action \in {"live", "local", "off"}, TakeOrder(action)
  PROVE  /\ crossed' => crossed \/ errors' > 0
         /\ ~crossed' => Stage' /\ Alone'
<1> Control \in Threads /\ GstThreads \subseteq Threads /\ Control \notin GstThreads /\ ObjectsOK
  BY PipelineAssumption DEF Threads, TInv
<1>1. /\ script[Control] = <<>>
      /\ \A t \in GstThreads : ~\E i \in DOMAIN script[t] : script[t][i] = "run"
      /\ script' = [script EXCEPT ![Control] = Obeys(action)]
      /\ crossed' = (crossed \/ \E t \in GstThreads : runs[t] # 0 /\ script[t] # <<>>)
      /\ UNCHANGED <<pipes, loops, watched, status, runs, errors>>
  BY DEF TakeOrder, objects
<1>2. script'[Control] = Obeys(action) /\ Same
  BY <1>1, ControlScripts DEF Same
<1>3. ~Starts
  <2>1. ASSUME NEW t \in GstThreads, Starting(script[t]) PROVE FALSE
    <3>1. CASE script[t] = play
      <4>1. 2 \in DOMAIN play /\ play[2] = "run"
        BY DEF play
      <4> QED
        BY <1>1, <3>1, <4>1
    <3>2. CASE script[t] = <<"run">>
      <4> DEFINE e == <<"run">>
      <4>1. 1 \in DOMAIN e /\ e[1] = "run"
        OBVIOUS
      <4> HIDE DEF e
      <4>2. script[t] = e
        BY <3>2 DEF e
      <4> QED
        BY <1>1, <4>1, <4>2
    <3> QED
      BY <2>1, <3>1, <3>2 DEF Starting
  <2> QED
    BY <2>1 DEF Starts, StartsBy
<1>4. \/ status = "ready" /\ Still
      \/ status # "ready" /\ (Shown("playing") \/ (errors > 0 /\ StopsStream))
  BY <1>1, <1>3, FreeStages
<1>5. ASSUME StopsStream PROVE crossed'
  <2>1. PICK u \in GstThreads : StopsBy(u)
    BY <1>5 DEF StopsStream
  <2>2. script[u] # <<>> /\ runs[u] # 0
    BY <2>1, StopsHaveCalls DEF StopsBy
  <2> QED
    BY <1>1, <2>2
<1>6. Settled => crossed' = crossed
  BY <1>1 DEF Settled, TInv, ObjectsOK
<1>7. crossed' => crossed \/ errors' > 0
  BY <1>1, <1>4, <1>6 DEF Still, Shown, Running, Failed
<1>8. ASSUME ~crossed' PROVE Stage' /\ Alone'
  <2>1. \/ status = "ready" /\ Still
        \/ status # "ready" /\ Shown("playing")
    BY <1>4, <1>5, <1>8
  <2>2. /\ Alone' /\ (Still => Still') /\ (Shown("playing") => Shown("playing")')
        /\ (Settled => Settled')
    BY <1>2, SameStages
  <2>3. Settled'
    BY <2>1, <2>2 DEF Still, Shown, Running, Failed
  <2>4. \/ status = "ready" /\ MakesLoop(Obeys(action))
        \/ /\ status # "ready"
           /\ Pauses(Obeys(action)) \/ DropsLive(Obeys(action)) \/ Reports(Obeys(action))
        \/ Quits(Obeys(action))
    BY OrderStages
  <2> QED
    BY <1>1, <1>2, <2>1, <2>2, <2>3, <2>4 DEF Stage
<1> QED
  BY <1>7, <1>8

LEMMA InitStage ==
  ASSUME PipelineInit
  PROVE  StageInv
<1> Control \in Threads /\ GstThreads \subseteq Threads
  BY DEF Threads
<1>1. Pipe = 0 /\ Loop = 0 /\ Len(pipes) = 0 /\ Len(loops) = 0
  BY EmptySeq DEF PipelineInit, Pipe, Loop
<1>2. Still /\ script[Control] = <<>> /\ status = "ready" /\ ~crossed
  BY <1>1 DEF PipelineInit, Still, Active, On, Settled
<1>3. Alone
  BY <1>1 DEF PipelineInit, Alone, On
<1> QED
  BY <1>2, <1>3 DEF StageInv, Stage

LEMMA StageHolds ==
  ASSUME Prompt, TInv, StageInv, [PipelineNext]_pipelineVars
  PROVE  StageInv'
<1> Control \in Threads /\ GstThreads \subseteq Threads
  BY DEF Threads
<1>1. CASE UNCHANGED pipelineVars
  <2>1. Same /\ UNCHANGED <<script, status, crossed, errors>>
    BY <1>1 DEF pipelineVars, Same
  <2> QED
    BY <2>1, SameStages DEF StageInv, Stage
<1>2. ASSUME NEW t \in Threads, MakesCall(t) PROVE StageInv'
  <2>1. UNCHANGED <<crossed, errors>>
    BY <1>2, CallsKeepHistory
  <2>2. ~crossed => Stage' /\ Alone'
    BY <1>2, ControlKeepsStage, GstKeepsStage DEF StageInv, Threads
  <2> QED
    BY <2>1, <2>2 DEF StageInv
<1>3. ASSUME NEW action \in {"live", "local", "off"}, TakeOrder(action) PROVE StageInv'
  <2>1. errors' = errors /\ (crossed => crossed')
    BY <1>3 DEF TakeOrder
  <2>2. CASE crossed
    BY <2>1, <2>2 DEF StageInv
  <2>3. CASE ~crossed
    BY <1>3, <2>3, OrderKeepsStage DEF StageInv
  <2> QED
    BY <2>2, <2>3
<1>4. ASSUME NEW t \in GstThreads, RunReturns(t) PROVE StageInv'
  <2>1. UNCHANGED <<crossed, errors>>
    BY <1>4 DEF RunReturns
  <2> QED
    BY <1>4, <2>1, ReturnKeepsStage DEF StageInv
<1>5. ASSUME NEW t \in GstThreads, BusCall(t) PROVE StageInv'
  <2>1. errors' > 0 /\ (crossed => crossed')
    BY <1>5 DEF BusCall, TInv, ObjectsOK
  <2> QED
    BY <1>5, <2>1, BusKeepsStage DEF StageInv
<1> QED
  BY <1>1, <1>2, <1>3, <1>4, <1>5 DEF PipelineNext

\* If a new thread reaches its loop before the next order, an order finds the stream,
\* and leaves it, in one of the stages above, until an error crosses an order.
THEOREM StagesHold ==
  ASSUME Prompt
  PROVE  PipelineSpec => [](TInv /\ StageInv)
<1>1. PipelineInit => TInv /\ StageInv
  BY InitTypes, InitStage
<1>2. TInv /\ StageInv /\ [PipelineNext]_pipelineVars => (TInv /\ StageInv)'
  BY TypesHold, StageHolds
<1> QED
  BY <1>1, <1>2, PTL DEF PipelineSpec

\* Between orders and without an error the status, which the client reports, tells
\* whether the pipeline plays: msgParse (ClientComm.c) sets it after calls whose
\* results it does not look at.  Only a pipeline that initLive has released is
\* announced and does not play.
THEOREM StatusIsTold ==
  ASSUME Prompt
  PROVE  PipelineSpec => []StatusTellsPipeline
<1>1. TInv /\ StageInv => StatusTellsPipeline
  <2> SUFFICES ASSUME TInv, StageInv, AtRest, errors = 0
               PROVE  /\ Playing => status \in {"local", "live"}
                      /\ status \in {"local", "live"} => Playing \/ Lost
    BY DEF StatusTellsPipeline
  <2>1. Stage /\ script[Control] = <<>> /\ Settled
    BY DEF StageInv, AtRest
  <2>2. \/ status = "ready" /\ Still
        \/ status # "ready" /\ (Shown("playing") \/ Starts)
    BY <2>1, FreeStages
  <2>3. ~Starts
    BY <2>1, StartingStep DEF Starts, StartsBy, Settled
  <2>4. \/ status = "ready" /\ ~Active
        \/ status # "ready" /\ (Running("playing") \/ Running("lost"))
    BY <2>2, <2>3 DEF Still, Shown
  <2> QED
    BY <2>4 DEF Active, Running, Playing, Lost, Holding, TInv, ObjectsOK
<1> QED
  BY <1>1, StagesHold, PTL

\* A stream that plays has its thread in the loop where its errors arrive.
THEOREM StreamsAreWatched ==
  ASSUME Prompt
  PROVE  PipelineSpec => []PlayingIsWatched
<1>1. TInv /\ StageInv => PlayingIsWatched
  <2> SUFFICES ASSUME TInv, StageInv, AtRest, Playing, ~crossed
               PROVE  /\ Pipe \in watched
                      /\ \E t \in GstThreads : runs[t] = Loop /\ loops[Loop].on
    BY DEF PlayingIsWatched
  <2>1. Stage /\ Alone /\ script[Control] = <<>> /\ Settled
    BY DEF StageInv, AtRest
  <2>2. \/ status = "ready" /\ Still
        \/ status # "ready" /\ (Shown("playing") \/ Starts \/ StopsStream)
    BY <2>1, FreeStages
  <2>3. ~Starts
    BY <2>1, StartingStep DEF Starts, StartsBy, Settled
  <2>4. ~StopsStream
    BY <2>1, StopsHaveCalls DEF StopsStream, Settled
  <2>5. Active /\ pipes[Pipe] = "playing"
    BY DEF Playing, Active, Holding
  <2>6. Running("playing")
    BY <2>2, <2>3, <2>4, <2>5 DEF Still, Shown, Running, Failed
  <2> QED
    BY <2>1, <2>6 DEF Running, Alone, On
<1> QED
  BY <1>1, StagesHold, PTL

\* A pipeline that was left is stopped, whatever failed in between: two of them never
\* hold the camera.
THEOREM CameraIsHeldOnce ==
  ASSUME Prompt
  PROVE  PipelineSpec => []OneHoldsTheCamera
<1>1. TInv /\ StageInv => OneHoldsTheCamera
  <2> SUFFICES ASSUME TInv, StageInv, ~crossed, NEW g \in DOMAIN pipes, NEW h \in DOMAIN pipes,
                      pipes[g] \in Holding, pipes[h] \in Holding
               PROVE  g = h
    BY DEF OneHoldsTheCamera, Holding
  <2>1. DOMAIN pipes = 1..Len(pipes)
    BY LenProperties DEF TInv, ObjectsOK
  <2> QED
    BY <2>1 DEF StageInv, Alone
<1> QED
  BY <1>1, StagesHold, PTL
==============================================================================
