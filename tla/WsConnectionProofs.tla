-------------------------- MODULE WsConnectionProofs --------------------------
(***************************************************************************)
(* What holds of a WebSocket connection for any number of frames, closes,  *)
(* timeouts and cuts: its state has its types, there is one writer at a    *)
(* time, and it implements the pair of channels of FrameChannel.           *)
(***************************************************************************)
EXTENDS WsConnection, SequenceTheorems, TLAPS

-----------------------------------------------------------------------------
(* Sequences of handlers *)

Sequence(s) == s \in Seq({s[i] : i \in DOMAIN s})

LEMMA SequenceOf ==
  ASSUME NEW S, NEW s \in Seq(S)
  PROVE  Sequence(s) /\ (s = <<>> <=> Len(s) = 0)
<1> DEFINE T == {s[i] : i \in DOMAIN s}
<1>1. Len(s) \in Nat /\ DOMAIN s = 1..Len(s) /\ s = [i \in 1..Len(s) |-> s[i]]
  OBVIOUS
<1>2. \A i \in 1..Len(s) : s[i] \in T
  BY <1>1
<1>3. s \in [1..Len(s) -> T]
  BY <1>1, <1>2
<1>4. s \in Seq(T)
  BY <1>1, <1>3
<1> QED
  BY <1>4 DEF Sequence

LEMMA AppendSequence ==
  ASSUME NEW s, Sequence(s), NEW x
  PROVE  /\ Sequence(Append(s, x)) /\ Append(s, x) # <<>>
         /\ Busy(Append(s, x)) =
              Busy(s) \cup (IF x.do \in {"write", "wrote"} THEN {Len(s) + 1} ELSE {})
<1> DEFINE S == {s[i] : i \in DOMAIN s} \cup {x}
<1>1. s \in Seq(S)
  BY DEF Sequence
<1>2. Append(s, x) \in Seq(S) /\ Len(Append(s, x)) = Len(s) + 1
  BY <1>1
<1>3. \A i \in 1..Len(s) : Append(s, x)[i] = s[i]
  BY <1>1
<1>4. Append(s, x)[Len(s) + 1] = x
  BY <1>1
<1>5. DOMAIN s = 1..Len(s) /\ DOMAIN Append(s, x) = 1..(Len(s) + 1) /\ Len(s) \in Nat
  BY <1>1, <1>2
<1>6. Sequence(Append(s, x))
  BY <1>2, SequenceOf
<1>7. Busy(Append(s, x)) =
        Busy(s) \cup (IF x.do \in {"write", "wrote"} THEN {Len(s) + 1} ELSE {})
  BY <1>3, <1>4, <1>5 DEF Busy
<1> QED
  BY <1>2, <1>5, <1>6, <1>7

LEMMA TailSequence ==
  ASSUME NEW s, Sequence(s), s # <<>>
  PROVE  /\ Sequence(Tail(s)) /\ 1 \in DOMAIN s /\ Head(s) = s[1]
         /\ Tail(s) = <<>> <=> Len(s) = 1
         /\ Len(s) \in Nat \ {0}
         /\ Busy(Tail(s)) = {i \in DOMAIN Tail(s) : i + 1 \in Busy(s)}
         /\ Busy(s) \subseteq {1} \cup {i + 1 : i \in Busy(Tail(s))}
<1> DEFINE S == {s[i] : i \in DOMAIN s}
<1>1. s \in Seq(S)
  BY DEF Sequence
<1>2. Tail(s) \in Seq(S) /\ Len(Tail(s)) = Len(s) - 1 /\ Len(s) \in Nat /\ Len(s) # 0
  BY <1>1
<1>3. \A i \in 1..(Len(s) - 1) : Tail(s)[i] = s[i + 1]
  BY <1>1
<1>5. DOMAIN s = 1..Len(s) /\ DOMAIN Tail(s) = 1..(Len(s) - 1)
  BY <1>1, <1>2
<1>6. Sequence(Tail(s)) /\ (Tail(s) = <<>> <=> Len(Tail(s)) = 0)
  BY <1>2, SequenceOf
<1>7. Busy(Tail(s)) = {i \in DOMAIN Tail(s) : i + 1 \in Busy(s)}
  BY <1>2, <1>3, <1>5 DEF Busy
<1>8. ASSUME NEW i \in Busy(s), i # 1 PROVE i \in {k + 1 : k \in Busy(Tail(s))}
  <2>1. i \in 1..Len(s)
    BY <1>5 DEF Busy
  <2>2. i - 1 \in Busy(Tail(s)) /\ i = (i - 1) + 1
    BY <1>2, <1>5, <1>7, <1>8, <2>1
  <2> QED
    BY <2>2
<1>9. Tail(s) = <<>> <=> Len(s) = 1
  BY <1>2, <1>6
<1>10. 1 \in DOMAIN s /\ Len(s) \in Nat \ {0}
  BY <1>2, <1>5
<1>11. Head(s) = s[1]
  BY <1>1
<1>12. Busy(s) \subseteq {1} \cup {i + 1 : i \in Busy(Tail(s))}
  BY <1>8
<1> QED
  BY <1>6, <1>7, <1>9, <1>10, <1>11, <1>12

-----------------------------------------------------------------------------
(* One writer *)

OneWriterOf(e) ==
  IF queue[e] = <<>>
  THEN writing[e] = {} /\ Busy(strand[e]) = {}
  ELSE \/ Busy(strand[e]) = {} /\ \E w \in writing[e] : writing[e] = {w}
       \/ writing[e] = {} /\ \E i \in Busy(strand[e]) : Busy(strand[e]) = {i}

\* The queues and strands are sequences.
Queues ==
  /\ DOMAIN strand = Ends /\ DOMAIN queue = Ends /\ DOMAIN writing = Ends
  /\ \A e \in Ends : Sequence(strand[e]) /\ Sequence(queue[e])

WInv == Queues /\ \A e \in Ends : OneWriterOf(e)

LEMMA EmptySequence == Sequence(<<>>) /\ Busy(<<>>) = {}
  BY DEF Sequence, Busy

LEMMA InitWriters == WsInit => WInv
  BY EmptySequence DEF WsInit, WInv, Queues, OneWriterOf, Busy

LEMMA UnchangedWriters == ASSUME WInv, UNCHANGED <<strand, queue, writing>> PROVE WInv'
<1>1. Queues'
  BY DEF WInv, Queues
<1>2. \A e \in Ends : OneWriterOf(e)'
  BY DEF WInv, OneWriterOf
<1> QED
  BY <1>1, <1>2 DEF WInv

\* A frame that is sent waits in the strand.
LEMMA SendWriters ==
  ASSUME WInv, NEW e \in Ends, NEW f, send(e, f), UNCHANGED <<queue, writing>>
  PROVE  WInv'
<1> DEFINE x == Enqueue(f)
<1>1. strand' = [strand EXCEPT ![e] = Append(@, x)]
  BY DEF send, Post
<1>2. x.do \notin {"write", "wrote"}
  BY DEF Enqueue
<1>3. Sequence(strand[e])
  BY DEF WInv, Queues
<1>4. Sequence(Append(strand[e], x)) /\ Busy(Append(strand[e], x)) = Busy(strand[e])
  BY <1>2, <1>3, AppendSequence
<1>5. Queues'
  <2>1. DOMAIN strand' = Ends
    BY <1>1 DEF WInv, Queues
  <2>2. ASSUME NEW d \in Ends PROVE Sequence(strand'[d])
    BY <1>1, <1>4 DEF WInv, Queues
  <2> QED
    BY <2>1, <2>2 DEF WInv, Queues
<1>6. ASSUME NEW d \in Ends PROVE OneWriterOf(d)'
  <2>1. Busy(strand'[d]) = Busy(strand[d])
    BY <1>1, <1>4 DEF WInv, Queues
  <2> QED
    BY <2>1 DEF WInv, OneWriterOf
<1> QED
  BY <1>5, <1>6 DEF WInv

LEMMA CloseWriters ==
  ASSUME WInv, NEW e \in Ends, NEW status, send_close(e, status), UNCHANGED <<queue, writing>>
  PROVE  WInv'
  BY SendWriters, UnchangedWriters DEF send_close

\* A handler is taken from a strand, and perhaps a write added.
LEMMA NextHandler ==
  ASSUME WInv, NEW e \in Ends, strand[e] # <<>>, NEW more \in {<<>>, <<Write>>},
         StrandAfter(e, more)
  PROVE  LET added == IF more = <<>> THEN {} ELSE {Len(strand[e])} IN
         /\ DOMAIN strand' = Ends /\ \A d \in Ends : Sequence(strand'[d])
         /\ \A d \in Ends \ {e} : strand'[d] = strand[d]
         /\ Head(strand[e]).do \in {"write", "wrote"} <=> 1 \in Busy(strand[e])
         /\ Busy(strand[e]) \subseteq {1} => Busy(strand'[e]) = added
         /\ \A i \in Busy(strand[e]) \ {1} :
              Busy(strand[e]) = {i} => Busy(strand'[e]) = {i - 1} \cup added
<1> DEFINE s == strand[e]
           t == Tail(s)
<1>1. Sequence(s) /\ DOMAIN strand = Ends
  BY DEF WInv, Queues
<1>2. /\ Sequence(t) /\ 1 \in DOMAIN s /\ Head(s) = s[1] /\ Len(s) \in Nat \ {0}
      /\ Busy(t) = {i \in DOMAIN t : i + 1 \in Busy(s)}
      /\ Busy(s) \subseteq {1} \cup {i + 1 : i \in Busy(t)}
  BY <1>1, TailSequence
<1>3. Len(t) = Len(s) - 1 /\ DOMAIN t = 1..(Len(s) - 1) /\ DOMAIN s = 1..Len(s)
  BY <1>1, <1>2 DEF Sequence
<1>4. strand' = [strand EXCEPT ![e] = t \o more]
  BY DEF StrandAfter
<1>5. CASE more = <<>>
  <2>1. t \o more = t
    BY <1>2, <1>5 DEF Sequence
  <2>2. strand'[e] = t
    BY <1>1, <1>4, <2>1
  <2>3. Busy(s) \subseteq {1} => Busy(t) = {}
    BY <1>2, <1>3
  <2>4. \A i \in Busy(s) \ {1} : Busy(s) = {i} => Busy(t) = {i - 1}
    BY <1>2, <1>3 DEF Busy
  <2>5. Head(s).do \in {"write", "wrote"} <=> 1 \in Busy(s)
    BY <1>2 DEF Busy
  <2>6. \A d \in Ends : Sequence(strand'[d])
    BY <1>1, <1>2, <1>4, <2>1 DEF WInv, Queues
  <2> QED
    BY <1>1, <1>4, <1>5, <2>2, <2>3, <2>4, <2>5, <2>6
<1>6. CASE more = <<Write>>
  <2>1. t \o more = Append(t, Write)
    <3> DEFINE T == {t[i] : i \in DOMAIN t} \cup {Write}
    <3>1. t \in Seq({t[i] : i \in DOMAIN t})
      BY <1>2 DEF Sequence
    <3>2. t \in Seq(T) /\ Write \in T
      BY <3>1
    <3> QED
      BY <1>6, <3>2, AppendIsConcat
  <2>2. strand'[e] = Append(t, Write)
    BY <1>1, <1>4, <2>1
  <2>3. Sequence(Append(t, Write)) /\ Busy(Append(t, Write)) = Busy(t) \cup {Len(s)}
    <3>1. Write.do \in {"write", "wrote"} /\ Len(t) + 1 = Len(s)
      BY <1>2, <1>3 DEF Write
    <3> QED
      BY <1>2, <3>1, AppendSequence
  <2>4. Busy(s) \subseteq {1} => Busy(t) = {}
    BY <1>2, <1>3
  <2>5. \A i \in Busy(s) \ {1} : Busy(s) = {i} => Busy(t) = {i - 1}
    BY <1>2, <1>3 DEF Busy
  <2>6. Head(s).do \in {"write", "wrote"} <=> 1 \in Busy(s)
    BY <1>2 DEF Busy
  <2>7. \A d \in Ends : Sequence(strand'[d])
    BY <1>1, <1>4, <2>1, <2>3 DEF WInv, Queues
  <2>8. more # <<>>
    BY <1>6
  <2> QED
    BY <1>1, <1>4, <2>2, <2>3, <2>4, <2>5, <2>6, <2>7, <2>8
<1> QED
  BY <1>5, <1>6

\* The steps of a strand.
LEMMA StrandWriters == ASSUME WInv, NEW e \in Ends, StrandStep(e) PROVE WInv'
<1> DEFINE s == strand[e]
           q == queue[e]
<1>0. OneWriterOf(e) /\ Sequence(q) /\ Sequence(s) /\ DOMAIN queue = Ends /\ DOMAIN writing = Ends
      /\ strand[e] # <<>>
  BY DEF WInv, Queues, StrandStep, EnqueueFrame, send_from_queue, WriteHandler, NextTask
<1> SUFFICES /\ Queues'
             /\ OneWriterOf(e)'
             /\ \A d \in Ends \ {e} : OneWriterOf(d)'
  BY DEF WInv
<1>1. CASE EnqueueFrame(e)
  <2> DEFINE f == Head(s).frame
             more == IF q = <<>> THEN <<Write>> ELSE <<>>
  <2>1. /\ queue' = [queue EXCEPT ![e] = Append(@, f)] /\ UNCHANGED writing
        /\ StrandAfter(e, more) /\ Head(s).do = "enqueue"
    BY <1>1 DEF EnqueueFrame, NextTask
  <2>2. Sequence(Append(q, f)) /\ Append(q, f) # <<>>
    BY <1>0, AppendSequence
  <2>3. /\ DOMAIN strand' = Ends /\ \A d \in Ends : Sequence(strand'[d])
        /\ \A d \in Ends \ {e} : strand'[d] = strand[d]
        /\ 1 \notin Busy(s)
        /\ Busy(s) \subseteq {1} => Busy(strand'[e]) = IF more = <<>> THEN {} ELSE {Len(s)}
        /\ \A i \in Busy(s) \ {1} : Busy(s) = {i} =>
             Busy(strand'[e]) = {i - 1} \cup IF more = <<>> THEN {} ELSE {Len(s)}
    BY <1>0, <2>1, NextHandler
  <2>4. Queues'
    BY <1>0, <2>1, <2>2, <2>3 DEF WInv, Queues
  <2>5. OneWriterOf(e)'
    <3>1. queue'[e] # <<>> /\ writing'[e] = writing[e]
      BY <1>0, <2>1, <2>2
    <3>2. CASE q = <<>>
      <4>1. Busy(strand'[e]) = {Len(s)} /\ writing[e] = {}
        BY <1>0, <2>3, <3>2 DEF OneWriterOf
      <4> QED
        BY <3>1, <4>1 DEF OneWriterOf
    <3>3. CASE q # <<>> /\ Busy(s) = {}
      BY <1>0, <2>3, <3>1, <3>3 DEF OneWriterOf
    <3>4. CASE q # <<>> /\ writing[e] = {} /\ \E i \in Busy(s) : Busy(s) = {i}
      <4>1. PICK i \in Busy(s) : Busy(s) = {i}
        BY <3>4
      <4>2. Busy(strand'[e]) = {i - 1}
        BY <2>3, <3>4, <4>1
      <4> QED
        BY <3>1, <3>4, <4>2 DEF OneWriterOf
    <3> QED
      BY <1>0, <3>2, <3>3, <3>4 DEF OneWriterOf
  <2>6. \A d \in Ends \ {e} : OneWriterOf(d)'
    BY <1>0, <2>1, <2>3 DEF WInv, OneWriterOf
  <2> QED
    BY <2>4, <2>5, <2>6
<1>2. CASE send_from_queue(e) \/ WriteHandler(e)
  <2>1. PICK more \in {<<>>, <<Write>>} : StrandAfter(e, more)
    BY <1>2 DEF send_from_queue, WriteHandler
  <2>2. Head(s).do \in {"write", "wrote"}
    BY <1>2 DEF send_from_queue, WriteHandler, NextTask
  <2>3. /\ DOMAIN strand' = Ends /\ \A d \in Ends : Sequence(strand'[d])
        /\ \A d \in Ends \ {e} : strand'[d] = strand[d]
        /\ 1 \in Busy(s)
        /\ Busy(s) \subseteq {1} => Busy(strand'[e]) = IF more = <<>> THEN {} ELSE {Len(s)}
    BY <1>0, <2>1, <2>2, NextHandler
  <2>4. q # <<>> /\ writing[e] = {} /\ Busy(strand'[e]) = IF more = <<>> THEN {} ELSE {Len(s)}
    BY <1>0, <2>3 DEF OneWriterOf
  <2>5. ASSUME NEW part, StartsWrite(e, part), UNCHANGED queue, StrandAfter(e, <<>>)
        PROVE  Queues' /\ OneWriterOf(e)' /\ \A d \in Ends \ {e} : OneWriterOf(d)'
    <3>1. Busy(strand'[e]) = {}
      BY <1>0, <2>3, <2>5, NextHandler, <2>4 DEF OneWriterOf
    <3>2. writing'[e] = {[frame |-> Head(queue[e]), part |-> part]} /\ DOMAIN writing' = Ends
          /\ \A d \in Ends \ {e} : writing'[d] = writing[d]
      BY <1>0, <2>4, <2>5 DEF StartsWrite
    <3>3. OneWriterOf(e)'
      BY <2>4, <2>5, <3>1, <3>2 DEF OneWriterOf
    <3> QED
      BY <2>3, <2>5, <3>2, <3>3 DEF WInv, Queues, OneWriterOf
  <2>6. CASE send_from_queue(e)
    BY <2>5, <2>6 DEF send_from_queue
  <2>7. ASSUME WriteHandler(e), UNCHANGED writing,
               \/ queue' = [queue EXCEPT ![e] = <<>>] /\ StrandAfter(e, <<>>)
               \/ /\ queue' = [queue EXCEPT ![e] = Tail(@)]
                  /\ StrandAfter(e, IF Len(queue[e]) > 1 THEN <<Write>> ELSE <<>>)
        PROVE  Queues' /\ OneWriterOf(e)' /\ \A d \in Ends \ {e} : OneWriterOf(d)'
    <3>1. Sequence(Tail(q)) /\ Len(q) \in Nat \ {0} /\ (Tail(q) = <<>> <=> Len(q) = 1)
      BY <1>0, <2>4, TailSequence
    <3>2. Busy(strand'[e]) = IF queue'[e] = <<>> THEN {} ELSE {Len(s)}
      <4>1. Busy(s) \subseteq {1}
        BY <1>0, <2>3, <2>4 DEF OneWriterOf
      <4>2. CASE queue' = [queue EXCEPT ![e] = <<>>] /\ StrandAfter(e, <<>>)
        BY <1>0, <2>3, <4>1, <4>2, NextHandler
      <4>3. CASE /\ queue' = [queue EXCEPT ![e] = Tail(@)]
                 /\ StrandAfter(e, IF Len(q) > 1 THEN <<Write>> ELSE <<>>)
        <5>1. CASE Len(q) > 1
          <6>1. StrandAfter(e, <<Write>>) /\ <<Write>> # <<>> /\ queue'[e] # <<>>
            BY <1>0, <3>1, <4>3, <5>1
          <6> QED
            BY <1>0, <4>1, <6>1, NextHandler
        <5>2. CASE ~(Len(q) > 1)
          <6>1. StrandAfter(e, <<>>) /\ queue'[e] = <<>>
            BY <1>0, <3>1, <4>3, <5>2
          <6> QED
            BY <1>0, <4>1, <6>1, NextHandler
        <5> QED
          BY <5>1, <5>2
      <4> QED
        BY <2>7, <4>2, <4>3
    <3>3. /\ DOMAIN queue' = Ends
          /\ \A d \in Ends : Sequence(queue'[d])
          /\ \A d \in Ends \ {e} : queue'[d] = queue[d]
      BY <1>0, <2>7, <3>1, EmptySequence DEF WInv, Queues
    <3>4. OneWriterOf(e)'
      BY <2>4, <2>7, <3>2 DEF OneWriterOf
    <3> QED
      BY <1>0, <2>3, <2>7, <3>3, <3>4 DEF WInv, Queues, OneWriterOf
  <2>8. CASE WriteHandler(e)
    BY <2>5, <2>7, <2>8 DEF WriteHandler
  <2> QED
    BY <1>2, <2>6, <2>8
<1> QED
  BY <1>1, <1>2 DEF StrandStep

\* A write that completes becomes a handler.
LEMMA CompletesWriters == ASSUME WInv, NEW e \in Ends, WriteCompletes(e) PROVE WInv'
<1>1. PICK w \in writing[e] :
        /\ writing' = [writing EXCEPT ![e] = @ \ {w}]
        /\ Post(e, Wrote(w.part, sock[e] = "open"))
        /\ UNCHANGED queue
  BY DEF WriteCompletes
<1> DEFINE s == strand[e]
           x == Wrote(w.part, sock[e] = "open")
<1>2. /\ Sequence(s) /\ DOMAIN strand = Ends /\ DOMAIN writing = Ends
      /\ queue[e] # <<>> /\ Busy(s) = {} /\ writing[e] = {w}
  BY <1>1 DEF WInv, Queues, OneWriterOf
<1>3. x.do \in {"write", "wrote"}
  BY DEF Wrote
<1>4. Sequence(Append(s, x)) /\ Busy(Append(s, x)) = {Len(s) + 1}
  BY <1>2, <1>3, AppendSequence
<1>5. strand' = [strand EXCEPT ![e] = Append(s, x)]
  BY <1>1 DEF Post
<1>6. Queues'
  BY <1>1, <1>2, <1>4, <1>5 DEF WInv, Queues
<1>7. OneWriterOf(e)'
  BY <1>1, <1>2, <1>4, <1>5 DEF OneWriterOf
<1>8. \A d \in Ends \ {e} : OneWriterOf(d)'
  BY <1>1, <1>2, <1>5 DEF WInv, OneWriterOf
<1> QED
  BY <1>6, <1>7, <1>8 DEF WInv

LEMMA CrashWriters == ASSUME WInv, Crash PROVE WInv'
<1>1. Server \in Ends
  BY DEF Ends
<1>2. Queues'
  BY <1>1, EmptySequence DEF Crash, WInv, Queues
<1>3. \A d \in Ends : OneWriterOf(d)'
  BY <1>1, EmptySequence DEF Crash, WInv, Queues, OneWriterOf
<1> QED
  BY <1>2, <1>3 DEF WInv

LEMMA NextWriters == ASSUME WInv, [WsNext]_wsVars PROVE WInv'
<1>1. ASSUME NEW e \in Ends, EndStep(e) PROVE WInv'
  <2>1. CASE ReadFrame(e)
    <3>1. UNCHANGED <<queue, writing>>
      BY <2>1 DEF ReadFrame
    <3>2. \/ UNCHANGED strand
          \/ \E f : send(e, f)
          \/ \E n : send_close(e, n)
      BY <2>1 DEF ReadFrame, ReadHeader, ReadContent, OnMessage
    <3> QED
      BY <3>1, <3>2, SendWriters, CloseWriters, UnchangedWriters
  <2>2. CASE Error(e) \/ Release(e)
    BY <2>2, UnchangedWriters DEF Error, Release, sending
  <2> QED
    BY <1>1, <2>1, <2>2, StrandWriters, CompletesWriters DEF EndStep
<1>2. CASE HandshakeStep
  <2>1. CASE ErrorBeforeOpen
    BY <2>1, CrashWriters DEF ErrorBeforeOpen
  <2>2. CASE ~ErrorBeforeOpen
    BY <1>2, <2>2, UnchangedWriters DEF HandshakeStep, Connect, ConnectFails, SendRequest,
       ReadRequest, Open, ReadResponse, DropRequest, sending
  <2> QED
    BY <2>1, <2>2
<1>3. CASE RequestTimerDue \/ RequestTimeout \/ IdleTimerDue \/ CutOff
  BY <1>3, UnchangedWriters DEF RequestTimerDue, RequestTimeout, IdleTimerDue, CutOff, sending
<1>4. CASE ShutdownThrows
  BY <1>4, CrashWriters DEF ShutdownThrows
<1>5. CASE IdleTimeout \/ ClientSends \/ ClientCloses
  <2>1. Server \in Ends /\ Client \in Ends
    BY DEF Ends
  <2> QED
    BY <1>5, <2>1, SendWriters, CloseWriters DEF IdleTimeout, ClientSends, ClientCloses
<1>6. CASE UNCHANGED wsVars
  BY <1>6, UnchangedWriters DEF wsVars
<1> QED
  BY <1>1, <1>2, <1>3, <1>4, <1>5, <1>6 DEF WsNext

\* On each connection frames are written one at a time, and none waits in a queue that
\* nobody empties, whatever its ends do and whatever happens to it.
THEOREM OneWriterAtATime == WsSpec => []OneWriter
<1>1. WsInit => WInv
  BY InitWriters
<1>2. WInv /\ [WsNext]_wsVars => WInv'
  BY NextWriters
<1>3. WInv => OneWriter
  BY DEF WInv, OneWriterOf, OneWriter
<1> QED
  BY <1>1, <1>2, <1>3, PTL DEF WsSpec

-----------------------------------------------------------------------------
(* The types, which rest on the order of the handshake *)

Silent(e) == strand[e] = <<>> /\ queue[e] = <<>> /\ writing[e] = {}

\* Both ends have come to read frames, or will read nothing any more.
Opened == \A e \in Ends : reader[e] \in {"header", "content", "stopped"}

\* Until then nothing is sent but a request and its response.
Opening ==
  /\ \A e \in Ends : Silent(e)
  /\ reader[Client] \notin {"none", "header", "content"}
  /\ reader[Server] \notin {"connecting", "content"}
  /\ idleTimer # "off" => /\ idleTimer = "armed" /\ reader[Client] = "response"
                          /\ reader[Server] \in {"header", "content", "stopped"}
  /\ wire[Server] \in {<<>>, <<[op |-> "accepted"]>>}
  /\ wire[Client] \in {<<>>} \cup {<<r>> : r \in Requests}
  /\ reader[Server] \in {"none", "request", "response"} => wire[Server] = <<>>
  /\ reader[Server] \notin {"request", "stopped"} => wire[Client] = <<>>
  /\ reader[Client] \in {"connecting", "request"} =>
       /\ wire[Client] = <<>> /\ wire[Server] = <<>>
       /\ IF reader[Client] = "connecting" THEN reader[Server] = "none"
          ELSE reader[Server] \in {"request", "stopped"}
  /\ reader[Server] = "none" => requestTimer = "off"

\* An end that reads frames gets frames, and one that goes on has not been ended.
Handshake ==
  /\ ~Opened => Opening
  /\ \A e \in Ends : /\ reader[e] \in {"header", "content"} => wire[Peer(e)] \in Seq(Pieces)
                     /\ reader[e] # "stopped" => ended[e] = 0

TInv == WsTypeOK /\ WInv /\ Handshake

LEMMA TwoEnds ==
  /\ Ends = {Client, Server} /\ Client # Server
  /\ Peer(Client) = Server /\ Peer(Server) = Client
BY DEF Ends, Client, Server, Peer

LEMMA InitHandshake == WsInit => TInv
<1> SUFFICES ASSUME WsInit PROVE TInv
  OBVIOUS
<1>1. WsTypeOK
  <2>1. <<>> \in Seq(Pieces \cup Requests) /\ <<>> \in Seq(Tasks) /\ <<>> \in Seq(Frames)
    OBVIOUS
  <2>2. \A e \in Ends : writing[e] = {}
    BY DEF WsInit
  <2>3. 0 \in 0..1 /\ 0 \in 0..MaxSends /\ 0 \in 0..MaxCuts
    BY WsAssumption
  <2> QED
    BY <2>1, <2>2, <2>3 DEF WsInit, WsTypeOK
<1>2. Handshake
  BY TwoEnds DEF WsInit, Handshake, Opening, Silent
<1> QED
  BY <1>1, <1>2, InitWriters DEF TInv

\* A message is sent back as text, also one that was a pong.
LEMMA EchoType ==
  ASSUME NEW f \in Frames, f.op \in {"text", "pong"}
  PROVE  [f EXCEPT !.op = "text"] \in Frames /\ [f EXCEPT !.op = "text"].op = "text"
<1>1. f.n \in 0..MaxSends /\ f = [op |-> f.op, n |-> f.n]
  BY WsAssumption DEF Frames
<1>2. [f EXCEPT !.op = "text"] = [op |-> "text", n |-> f.n]
  BY <1>1
<1> QED
  BY <1>1, <1>2 DEF Frames

\* What is sent is a handler in the strand.
LEMMA SendTypes ==
  ASSUME strand \in [Ends -> Seq(Tasks)], NEW e \in Ends, NEW f \in Frames, send(e, f)
  PROVE  strand' \in [Ends -> Seq(Tasks)]
<1>1. Enqueue(f) \in Tasks
  BY DEF Enqueue, Tasks
<1>2. Append(strand[e], Enqueue(f)) \in Seq(Tasks)
  BY <1>1
<1> QED
  BY <1>2 DEF send, Post

LEMMA CloseTypes ==
  ASSUME strand \in [Ends -> Seq(Tasks)], closed \in [Ends -> BOOLEAN], NEW e \in Ends,
         NEW status \in {1000, 1002}, send_close(e, status)
  PROVE  strand' \in [Ends -> Seq(Tasks)] /\ closed' \in [Ends -> BOOLEAN]
<1>1. [op |-> "close", n |-> status] \in Frames
  BY DEF Frames
<1>2. CASE closed[e]
  BY <1>2 DEF send_close
<1>3. CASE ~closed[e]
  <2>1. send(e, [op |-> "close", n |-> status]) /\ closed' = [closed EXCEPT ![e] = TRUE]
    BY <1>3 DEF send_close
  <2> QED
    BY <1>1, <2>1, SendTypes
<1> QED
  BY <1>2, <1>3

\* The steps of a strand and its writes, when both ends are open.
LEMMA StrandKeepsTypes ==
  ASSUME TInv, NEW e \in Ends, StrandStep(e)
  PROVE  WsTypeOK'
<1> DEFINE s == strand[e]
           q == queue[e]
           SendingOK == /\ strand' \in [Ends -> Seq(Tasks)] /\ queue' \in [Ends -> Seq(Frames)]
                        /\ \A d \in Ends : writing'[d] \subseteq [frame : Frames, part : Parts]
<1>1. /\ strand \in [Ends -> Seq(Tasks)] /\ queue \in [Ends -> Seq(Frames)]
      /\ DOMAIN writing = Ends /\ \A d \in Ends : writing[d] \subseteq [frame : Frames, part : Parts]
  BY DEF TInv, WsTypeOK, WInv, Queues
<1>2. s # <<>> /\ s \in Seq(Tasks) /\ Head(s) \in Tasks /\ Tail(s) \in Seq(Tasks)
  BY <1>1 DEF StrandStep, EnqueueFrame, send_from_queue, WriteHandler, NextTask
<1>3. ASSUME NEW more \in {<<>>, <<Write>>}, StrandAfter(e, more)
      PROVE  strand' \in [Ends -> Seq(Tasks)]
  <2>1. more \in Seq(Tasks)
    <3>1. Write \in Tasks
      BY DEF Tasks
    <3>2. <<>> \in Seq(Tasks) /\ <<Write>> \in Seq(Tasks)
      BY <3>1
    <3> QED
      BY <1>3, <3>2
  <2>2. Tail(s) \o more \in Seq(Tasks)
    BY <1>2, <2>1
  <2> QED
    BY <1>1, <1>3, <2>2 DEF StrandAfter
<1>4. SendingOK
  <2>1. CASE EnqueueFrame(e)
    <3>1. Head(s).frame \in Frames
      BY <1>2, <2>1 DEF EnqueueFrame, NextTask, Tasks, Write
    <3>2. Append(q, Head(s).frame) \in Seq(Frames)
      BY <1>1, <3>1
    <3> QED
      BY <1>1, <1>3, <2>1, <3>2 DEF EnqueueFrame
  <2>2. ASSUME NEW part \in Parts, q # <<>>, StartsWrite(e, part), UNCHANGED queue,
               StrandAfter(e, <<>>)
        PROVE  SendingOK
    <3>1. [frame |-> Head(q), part |-> part] \in [frame : Frames, part : Parts]
      BY <1>1, <2>2
    <3> QED
      BY <1>1, <1>3, <2>2, <3>1 DEF StartsWrite
  <2>3. CASE send_from_queue(e) \/ WriteHandler(e)
    <3>1. q # <<>>
      <4>1. Head(s).do \in {"write", "wrote"} /\ Sequence(s)
        BY <2>3 DEF send_from_queue, WriteHandler, NextTask, TInv, WInv, Queues
      <4>2. 1 \in Busy(s)
        BY <1>2, <4>1, TailSequence DEF Busy
      <4> QED
        BY <4>2 DEF TInv, WInv, OneWriterOf
    <3>2. CASE send_from_queue(e)
      BY <2>2, <3>1, <3>2 DEF send_from_queue, FirstPart, Parts
    <3>3. CASE WriteHandler(e)
      <4>1. Tail(q) \in Seq(Frames) /\ <<>> \in Seq(Frames)
        BY <1>1, <3>1
      <4>2. CASE StartsWrite(e, "content") /\ StrandAfter(e, <<>>) /\ UNCHANGED queue
        BY <2>2, <3>1, <4>2 DEF Parts
      <4>3. ASSUME NEW rest \in {Tail(q), <<>>}, queue' = [queue EXCEPT ![e] = rest],
                   UNCHANGED writing, NEW more \in {<<>>, <<Write>>}, StrandAfter(e, more)
            PROVE  SendingOK
        BY <1>1, <1>3, <4>1, <4>3
      <4> QED
        BY <3>3, <4>2, <4>3 DEF WriteHandler
    <3> QED
      BY <2>3, <3>2, <3>3
  <2> QED
    BY <2>1, <2>3 DEF StrandStep
<1> QED
  BY <1>4 DEF StrandStep, TInv, WsTypeOK, timers, counters

LEMMA WriteKeepsTypes ==
  ASSUME TInv, NEW e \in Ends, WriteCompletes(e)
  PROVE  /\ WsTypeOK'
         /\ \A d \in Ends : wire[d] \in Seq(Pieces) => wire'[d] \in Seq(Pieces)
<1>1. PICK w \in writing[e] :
        /\ writing' = [writing EXCEPT ![e] = @ \ {w}]
        /\ Post(e, Wrote(w.part, sock[e] = "open"))
        /\ IF sock[e] = "open"
           THEN /\ wire' = [wire EXCEPT ![e] = @ \o Written(w)]
                /\ sock' = [sock EXCEPT ![e] = IF sock[Peer(e)] = "closed" THEN "reset" ELSE @]
                /\ cut' = (cut \/ sock[Peer(e)] = "closed")
           ELSE UNCHANGED <<wire, sock, cut>>
  BY DEF WriteCompletes
<1>2. w \in [frame : Frames, part : Parts]
  BY DEF TInv, WsTypeOK
<1>3. Wrote(w.part, sock[e] = "open") \in Tasks
  BY <1>2 DEF Wrote, Tasks
<1>4. Written(w) \in Seq(Pieces)
  <2>1. CASE w.part = "all"
    BY <1>2, <2>1 DEF Written, Pieces
  <2>2. CASE w.part # "all"
    <3>1. w \in Pieces
      BY <1>2, <2>2 DEF Pieces, Parts
    <3> QED
      BY <2>2, <3>1 DEF Written
  <2> QED
    BY <2>1, <2>2
<1>5. strand' \in [Ends -> Seq(Tasks)]
  <2>1. Append(strand[e], Wrote(w.part, sock[e] = "open")) \in Seq(Tasks)
    BY <1>3 DEF TInv, WsTypeOK
  <2> QED
    BY <1>1, <2>1 DEF Post, TInv, WsTypeOK
<1>6. wire' \in [Ends -> Seq(Pieces \cup Requests)]
      /\ \A d \in Ends : wire[d] \in Seq(Pieces) => wire'[d] \in Seq(Pieces)
  <2>0. wire \in [Ends -> Seq(Pieces \cup Requests)]
    BY DEF TInv, WsTypeOK
  <2>1. wire[e] \o Written(w) \in Seq(Pieces \cup Requests)
        /\ (wire[e] \in Seq(Pieces) => wire[e] \o Written(w) \in Seq(Pieces))
    <3>1. Written(w) \in Seq(Pieces \cup Requests)
      BY <1>4
    <3> QED
      BY <1>4, <2>0, <3>1
  <2> QED
    BY <1>1, <2>0, <2>1
<1>7. sock' \in [Ends -> {"none", "open", "reset", "closed"}] /\ cut' \in BOOLEAN
  BY <1>1 DEF TInv, WsTypeOK
<1>8. \A d \in Ends : writing'[d] \subseteq [frame : Frames, part : Parts]
  BY <1>1 DEF TInv, WsTypeOK, WInv, Queues
<1> QED
  BY <1>5, <1>6, <1>7, <1>8 DEF WriteCompletes, TInv, WsTypeOK, timers, counters

\* While the handshake goes on nobody sends.
LEMMA SendersAreOpen ==
  ASSUME TInv
  PROVE  /\ \A e \in Ends : StrandStep(e) \/ WriteCompletes(e) => Opened
         /\ \A e \in Ends : ReadFrame(e) => Opened
         /\ IdleTimeout \/ ClientSends \/ ClientCloses => Opened
<1> SUFFICES ASSUME ~Opened
             PROVE  /\ \A e \in Ends : ~StrandStep(e) /\ ~WriteCompletes(e) /\ ~ReadFrame(e)
                    /\ ~IdleTimeout /\ ~ClientSends /\ ~ClientCloses
  OBVIOUS
<1>1. Opening
  BY DEF TInv, Handshake
<1>2. \A e \in Ends : ~StrandStep(e) /\ ~WriteCompletes(e)
  BY <1>1 DEF Opening, Silent, StrandStep, EnqueueFrame, send_from_queue, WriteHandler, NextTask,
              WriteCompletes
<1>3. ~ReadFrame(Client)
  BY <1>1 DEF Opening, ReadFrame, ReadHeader, ReadContent
<1>4. ~ReadFrame(Server)
  BY <1>1, TwoEnds DEF Opening, ReadFrame, ReadHeader, ReadContent, Readable
<1>5. ~IdleTimeout /\ ~ClientSends /\ ~ClientCloses
  BY <1>1 DEF Opening, IdleTimeout, ClientSends, ClientCloses
<1> QED
  BY <1>2, <1>3, <1>4, <1>5, TwoEnds

\* A connection whose ends read frames stays so.
LEMMA OpenHandshake ==
  ASSUME TInv, Opened, WsTypeOK', [WsNext]_wsVars,
         \A e \in Ends : reader'[e] = reader[e] \/ reader'[e] \in {"header", "content", "stopped"},
         \A e \in Ends : wire[e] \in Seq(Pieces) => wire'[e] \in Seq(Pieces),
         \A e \in Ends : reader[e] = "stopped" => reader'[e] = "stopped",
         \A e \in Ends : reader'[e] # "stopped" => ended'[e] = ended[e]
  PROVE  Handshake'
<1>1. Opened'
  BY DEF Opened
<1>2. ASSUME NEW e \in Ends
      PROVE  /\ reader'[e] \in {"header", "content"} => wire'[Peer(e)] \in Seq(Pieces)
             /\ reader'[e] # "stopped" => ended'[e] = 0
  BY TwoEnds DEF TInv, Handshake, Opened
<1> QED
  BY <1>1, <1>2 DEF Handshake

LEMMA ReadKeepsTypes ==
  ASSUME TInv, NEW e \in Ends, ReadFrame(e)
  PROVE  WsTypeOK' /\ Handshake'
<1>1. Opened
  BY SendersAreOpen
<1>2. /\ reader[e] \in {"header", "content"} /\ wire[Peer(e)] # <<>>
      /\ wire' = [wire EXCEPT ![Peer(e)] = Tail(@)] /\ Peer(e) \in Ends
  BY TwoEnds DEF ReadFrame, ReadHeader, ReadContent, Readable, Taken
<1>3. wire[Peer(e)] \in Seq(Pieces) /\ ended[e] = 0
  BY <1>2 DEF TInv, Handshake
<1>4. Incoming(e).frame \in Frames
  <2>1. Incoming(e) \in Pieces
    BY <1>2, <1>3 DEF Incoming
  <2> QED
    BY <2>1 DEF Pieces
<1>5. wire' \in [Ends -> Seq(Pieces \cup Requests)]
      /\ \A d \in Ends : wire[d] \in Seq(Pieces) => wire'[d] \in Seq(Pieces)
  <2>1. wire \in [Ends -> Seq(Pieces \cup Requests)]
    BY DEF TInv, WsTypeOK
  <2>2. Tail(wire[Peer(e)]) \in Seq(Pieces)
    BY <1>2, <1>3
  <2>3. Tail(wire[Peer(e)]) \in Seq(Pieces \cup Requests)
    BY <1>2, <2>1
  <2> QED
    BY <1>2, <2>1, <2>2, <2>3
<1>6. /\ reader \in [Ends -> {"none", "connecting", "request", "response",
                              "header", "content", "stopped"}]
      /\ strand \in [Ends -> Seq(Tasks)] /\ closed \in [Ends -> BOOLEAN]
      /\ ended \in [Ends -> 0..1] /\ listed \in BOOLEAN
      /\ {requestTimer, idleTimer} \subseteq {"off", "armed", "due"}
  BY DEF TInv, WsTypeOK
<1> DEFINE Reading == /\ \/ Reads(e, "stopped") /\ ended' = [ended EXCEPT ![e] = 1]
                         \/ \E what \in {"header", "content"} : Reads(e, what) /\ UNCHANGED ended
                      /\ listed' \in BOOLEAN
                      /\ {requestTimer', idleTimer'} \subseteq {"off", "armed", "due"}
           AnswersOK == strand' \in [Ends -> Seq(Tasks)] /\ closed' \in [Ends -> BOOLEAN]
<1>7. ASSUME Ended(e) PROVE Reading
  <2>1. idleTimer' \in {"off", "armed", "due"} /\ requestTimer' \in {"off", "armed", "due"}
        /\ listed' \in BOOLEAN
    BY <1>6, <1>7 DEF Ended, Cancelled
  <2> QED
    BY <1>3, <1>6, <1>7, <2>1 DEF Ended
<1>8. ASSUME NEW what \in {"header", "content"}, GoesOn(e, what) PROVE Reading
  BY <1>6, <1>8 DEF GoesOn, timers
<1>9. Reading
  BY <1>7, <1>8 DEF ReadFrame, ReadHeader, ReadContent
<1>10. AnswersOK
  <2>1. ASSUME ReadHeader(e) PROVE AnswersOK
    BY <1>6, <2>1, CloseTypes DEF ReadHeader
  <2>2. ASSUME ReadContent(e) PROVE AnswersOK
    <3> DEFINE f == Incoming(e).frame
    <3>1. CASE f.op = "close" /\ send_close(e, f.n)
      <4>1. f.n \in {1000, 1002}
        BY <1>4, <3>1 DEF Frames
      <4> QED
        BY <1>6, <3>1, <4>1, CloseTypes
    <3>2. CASE send(e, [op |-> "pong", n |-> 0]) /\ UNCHANGED closed
      <4>1. [op |-> "pong", n |-> 0] \in Frames
        BY DEF Frames
      <4> QED
        BY <1>6, <3>2, <4>1, SendTypes
    <3>3. CASE f.op \in {"text", "pong"} /\ OnMessage(e, f)
      <4>1. [f EXCEPT !.op = "text"] \in Frames
        BY <1>4, <3>3, EchoType
      <4> QED
        BY <1>6, <3>3, <4>1, SendTypes, CloseTypes DEF OnMessage
    <3> QED
      BY <2>2, <3>1, <3>2, <3>3 DEF ReadContent
  <2> QED
    BY <2>1, <2>2 DEF ReadFrame
<1>11. reader' \in [Ends -> {"none", "connecting", "request", "response",
                             "header", "content", "stopped"}]
       /\ ended' \in [Ends -> 0..1]
  <2>1. PICK what \in {"header", "content", "stopped"} :
          Reads(e, what) /\ (ended' = [ended EXCEPT ![e] = 1] \/ UNCHANGED ended)
    BY <1>9
  <2>2. ended' \in [Ends -> 0..1]
    <3>1. 1 \in 0..1
      OBVIOUS
    <3> QED
      BY <1>6, <2>1, <3>1
  <2>3. reader' \in [Ends -> {"none", "connecting", "request", "response",
                              "header", "content", "stopped"}]
    BY <1>6, <2>1 DEF Reads
  <2> QED
    BY <2>2, <2>3
<1>12. WsTypeOK'
  BY <1>5, <1>9, <1>10, <1>11 DEF ReadFrame, TInv, WsTypeOK, counters
<1>13. Handshake'
  BY <1>1, <1>2, <1>5, <1>6, <1>9, <1>12, OpenHandshake DEF WsNext, EndStep, Reads
<1> QED
  BY <1>12, <1>13


\* Steps that send nothing and change at most the sockets, the timers, the flag cut and
\* the counters.
LEMMA QuietHandshake ==
  ASSUME TInv, UNCHANGED <<reader, wire, sending, ended>>,
         idleTimer' = idleTimer \/ Opened, requestTimer' = requestTimer \/ requestTimer # "off"
  PROVE  Handshake'
<1>1. Opened' <=> Opened
  BY DEF Opened
<1>2. ~Opened => Opening'
  BY DEF TInv, Handshake, Opening, Silent, sending
<1> QED
  BY <1>1, <1>2 DEF TInv, Handshake

\* An end reads nothing any more.
LEMMA StopHandshake ==
  ASSUME TInv, NEW e \in Ends, reader[e] # "none", Reads(e, "stopped"),
         UNCHANGED <<strand, queue, writing>> \/ Crash,
         UNCHANGED wire \/ (reader[Server] = "request" /\ e = Server /\ wire' = [wire EXCEPT ![Client] = <<>>]),
         \A d \in Ends \ {e} : ended'[d] = ended[d],
         idleTimer' = idleTimer \/ (e = Server /\ idleTimer' \in {"off", Cancelled(idleTimer)}),
         requestTimer' = requestTimer \/ e = Server
  PROVE  Handshake'
<1>1. /\ DOMAIN reader = Ends /\ reader' = [reader EXCEPT ![e] = "stopped"]
      /\ reader'[e] = "stopped" /\ \A d \in Ends \ {e} : reader'[d] = reader[d]
  BY DEF Reads, TInv, WsTypeOK
<1>2. \A d \in Ends : /\ reader'[d] \in {"header", "content"} => wire'[Peer(d)] \in Seq(Pieces)
                      /\ reader'[d] # "stopped" => ended'[d] = 0
  BY <1>1, TwoEnds DEF TInv, Handshake, Opened, Opening
<1>3. ASSUME ~Opened' PROVE Opening'
  <2>1. ~Opened /\ Opening
    BY <1>1, <1>3 DEF Opened, TInv, Handshake
  <2>2. \A d \in Ends : Silent(d)'
    BY <2>1, TwoEnds DEF Opening, Silent, Crash, TInv, WInv, Queues
  <2>3. wire'[Server] = wire[Server] /\ wire'[Client] \in {wire[Client], <<>>}
        /\ (reader[Server] # "request" => wire'[Client] = wire[Client])
    BY TwoEnds DEF TInv, WsTypeOK
  <2>4. idleTimer' \in {"off", idleTimer}
    BY DEF Cancelled, TInv, WsTypeOK
  <2>5. CASE e = Client
    <3>1. reader'[Client] = "stopped" /\ reader'[Server] = reader[Server] /\ idleTimer' = idleTimer
      BY <1>1, <2>5, TwoEnds
    <3>2. idleTimer = "off"
      BY <1>3, <2>1, <3>1, TwoEnds DEF Opened, Opening
    <3>3. reader[Client] # "stopped" => wire'[Client] = wire[Client]
      BY <2>5, TwoEnds
    <3> QED
      BY <2>1, <2>2, <2>3, <2>5, <3>1, <3>2, TwoEnds DEF Opening
  <2>6. CASE e = Server
    <3>1. reader'[Server] = "stopped" /\ reader'[Client] = reader[Client]
      BY <1>1, <2>6, TwoEnds
    <3>2. reader[Client] # "connecting"
      BY <2>1, <2>6 DEF Opening
    <3> QED
      BY <2>1, <2>2, <2>3, <2>4, <3>1, <3>2, TwoEnds DEF Opening
  <2> QED
    BY <2>5, <2>6, TwoEnds
<1> QED
  BY <1>2, <1>3 DEF Handshake

LEMMA CrashKeepsTypes ==
  ASSUME TInv, Crash, reader[Server] # "none"
  PROVE  WsTypeOK' /\ Handshake'
<1>1. WsTypeOK'
  <2>1. <<>> \in Seq(Tasks) /\ <<>> \in Seq(Frames)
    OBVIOUS
  <2>2. \A d \in Ends : writing'[d] \in {writing[d], {}}
    BY DEF Crash, TInv, WInv, Queues
  <2> QED
    BY <2>1, <2>2 DEF Crash, Reads, counters, TInv, WsTypeOK
<1>2. Handshake'
  BY StopHandshake, TwoEnds DEF Crash
<1> QED
  BY <1>1, <1>2

LEMMA HandshakeKeepsTypes ==
  ASSUME TInv, HandshakeStep
  PROVE  WsTypeOK' /\ Handshake'
<1> DEFINE States == {"none", "connecting", "request", "response", "header", "content", "stopped"}
           Words == Pieces \cup Requests
<1>0. /\ reader \in [Ends -> States] /\ wire \in [Ends -> Seq(Words)]
      /\ sock \in [Ends -> {"none", "open", "reset", "closed"}] /\ ended \in [Ends -> 0..1]
      /\ requestTimer \in {"off", "armed", "due"} /\ listed \in BOOLEAN
  BY DEF TInv, WsTypeOK
<1>1. CASE Connect
  <2>1. ~Opened /\ Opening
    BY <1>1, TwoEnds DEF Connect, Opened, TInv, Handshake
  <2>2. WsTypeOK'
    BY <1>1 DEF Connect, sending, counters, TInv, WsTypeOK
  <2>3. \A e \in Ends : reader'[e] = "request"
    BY <1>1 DEF Connect
  <2>4. \A e \in Ends : ended'[e] = 0
    BY <1>1, <2>1, TwoEnds DEF Connect, Opening, TInv, Handshake
  <2>5. Opening'
    BY <1>1, <2>1, <2>3, TwoEnds DEF Connect, Opening, Silent, sending
  <2> QED
    BY <2>2, <2>3, <2>4, <2>5 DEF Handshake
<1>2. CASE ConnectFails
  <2>1. ended[Client] = 0 /\ reader[Client] = "connecting"
    BY <1>2, TwoEnds DEF ConnectFails, TInv, Handshake
  <2>2. WsTypeOK'
    BY <1>2, <2>1, TwoEnds DEF ConnectFails, Reads, sending, timers, counters, TInv, WsTypeOK
  <2>3. Handshake'
    BY <1>0, <1>2, <2>1, StopHandshake, TwoEnds DEF ConnectFails, sending, timers
  <2> QED
    BY <2>2, <2>3
<1>3. CASE SendRequest
  <2>1. PICK op \in {"echo", "other"} : wire' = [wire EXCEPT ![Client] = Append(@, [op |-> op])]
    BY <1>3 DEF SendRequest
  <2>2. ~Opened /\ Opening /\ reader[Client] = "request"
    BY <1>3, TwoEnds DEF SendRequest, Opened, TInv, Handshake
  <2>3. wire[Client] = <<>> /\ [op |-> op] \in Requests /\ Append(<<>>, [op |-> op]) = <<[op |-> op]>>
    BY <2>2 DEF Opening, Requests
  <2>4. /\ wire'[Client] \in {<<r>> : r \in Requests} /\ wire'[Server] = wire[Server]
        /\ wire' \in [Ends -> Seq(Words)]
    BY <1>0, <2>1, <2>3, TwoEnds
  <2>5. /\ reader' \in [Ends -> States] /\ reader'[Client] = "response"
        /\ reader'[Server] = reader[Server]
    BY <1>0, <1>3, TwoEnds DEF SendRequest, Reads
  <2>6. WsTypeOK'
    BY <1>3, <2>4, <2>5 DEF SendRequest, sending, timers, counters, TInv, WsTypeOK
  <2>7. Opening'
    <3>1. UNCHANGED <<strand, queue, writing, idleTimer, requestTimer>>
      BY <1>3 DEF SendRequest, sending, timers
    <3>2. \A e \in Ends : Silent(e)'
      BY <2>2, <3>1 DEF Opening, Silent
    <3>3. reader[Server] \in {"request", "stopped"} /\ idleTimer = "off" /\ wire[Server] = <<>>
      BY <2>2 DEF Opening
    <3> QED
      BY <2>2, <2>4, <2>5, <3>1, <3>2, <3>3 DEF Opening
  <2>8. \A e \in Ends : /\ reader'[e] \notin {"header", "content"}
                        /\ reader'[e] # "stopped" => ended'[e] = 0
    BY <1>3, <2>2, <2>5, TwoEnds DEF SendRequest, Opening, TInv, Handshake
  <2> QED
    BY <2>6, <2>7, <2>8 DEF Handshake
<1>4. CASE ReadRequest
  <2>1. ~Opened /\ Opening /\ reader[Server] = "request" /\ wire[Client] # <<>>
    BY <1>4, TwoEnds DEF ReadRequest, Readable, Opened, TInv, Handshake
  <2>2. wire' = [wire EXCEPT ![Client] = <<>>]
    <3>1. PICK r \in Requests : wire[Client] = <<r>>
      BY <2>1 DEF Opening
    <3>2. Tail(<<r>>) = <<>>
      OBVIOUS
    <3> QED
      BY <1>4, <3>1, <3>2, TwoEnds DEF ReadRequest, Taken
  <2>3. wire' \in [Ends -> Seq(Words)] /\ wire'[Client] = <<>> /\ wire'[Server] = wire[Server]
    BY <1>0, <2>2, TwoEnds
  <2>4. PICK what \in {"response", "stopped"} : Reads(Server, what)
    BY <1>4 DEF ReadRequest
  <2>5. reader' \in [Ends -> States] /\ reader'[Server] = what /\ reader'[Client] = reader[Client]
    BY <1>0, <2>4, TwoEnds DEF Reads
  <2>6. WsTypeOK'
    <3>1. requestTimer' \in {"off", "armed", "due"}
      BY <1>0, <1>4 DEF ReadRequest, Cancelled
    <3> QED
      BY <1>4, <2>3, <2>5, <3>1 DEF ReadRequest, sending, counters, TInv, WsTypeOK
  <2>7. CASE what = "stopped"
    BY <1>4, <2>1, <2>2, <2>4, <2>6, <2>7, StopHandshake, TwoEnds DEF ReadRequest, sending
  <2>8. CASE what = "response"
    <3>1. Opening'
      BY <1>4, <2>1, <2>3, <2>5, <2>8, TwoEnds DEF ReadRequest, Opening, Silent, sending
    <3>2. \A e \in Ends : /\ reader'[e] \notin {"header", "content"}
                          /\ reader'[e] # "stopped" => ended'[e] = 0
      BY <1>4, <2>1, <2>5, <2>8, TwoEnds DEF ReadRequest, Opening, TInv, Handshake
    <3> QED
      BY <2>6, <3>1, <3>2 DEF Handshake
  <2> QED
    BY <2>7, <2>8
<1>5. CASE Open
  <2>1. ~Opened /\ Opening /\ reader[Server] = "response"
    BY <1>5, TwoEnds DEF Open, Opened, TInv, Handshake
  <2>2. wire[Server] = <<>> /\ wire[Client] = <<>> /\ reader[Client] \in {"response", "stopped"}
    <3>1. reader[Client] \in States \ {"none"}
      BY <1>0, TwoEnds DEF TInv, Handshake, Opened, Opening
    <3> QED
      BY <2>1, <3>1 DEF Opening
  <2>3. /\ wire' \in [Ends -> Seq(Words)] /\ wire'[Client] = <<>>
        /\ wire'[Server] = <<[op |-> "accepted"]>>
    <3>1. [op |-> "accepted"] \in Words /\ Append(<<>>, [op |-> "accepted"]) = <<[op |-> "accepted"]>>
      BY DEF Requests
    <3>2. <<[op |-> "accepted"]>> \in Seq(Words)
      BY <3>1
    <3>3. wire' = [wire EXCEPT ![Server] = <<[op |-> "accepted"]>>]
      BY <1>5, <2>2, <3>1, TwoEnds DEF Open
    <3> QED
      BY <1>0, <2>2, <3>2, <3>3, TwoEnds
  <2>4. reader' \in [Ends -> States] /\ reader'[Server] = "header" /\ reader'[Client] = reader[Client]
    BY <1>0, <1>5, TwoEnds DEF Open, Reads
  <2>5. WsTypeOK'
    BY <1>5, <2>3, <2>4 DEF Open, sending, counters, TInv, WsTypeOK
  <2>6. ~Opened' => Opening'
    BY <1>5, <2>1, <2>2, <2>3, <2>4, TwoEnds DEF Open, Opened, Opening, Silent, sending
  <2>7. \A e \in Ends : /\ reader'[e] \in {"header", "content"} => wire'[Peer(e)] \in Seq(Pieces)
                        /\ reader'[e] # "stopped" => ended'[e] = 0
    BY <1>5, <2>1, <2>2, <2>3, <2>4, TwoEnds DEF Open, TInv, Handshake
  <2> QED
    BY <2>5, <2>6, <2>7 DEF Handshake
<1>6. CASE ReadResponse
  <2>1. ~Opened /\ Opening /\ reader[Client] = "response" /\ wire[Server] # <<>>
    BY <1>6, TwoEnds DEF ReadResponse, Readable, Opened, TInv, Handshake
  <2>2. wire[Server] = <<[op |-> "accepted"]>> /\ reader[Server] \in {"header", "content", "stopped"}
    <3>1. reader[Server] \in States
      BY <1>0, TwoEnds
    <3> QED
      BY <2>1, <3>1 DEF Opening
  <2>3. wire' \in [Ends -> Seq(Words)] /\ wire'[Client] = wire[Client] /\ wire'[Server] = <<>>
    <3>1. Tail(<<[op |-> "accepted"]>>) = <<>> /\ <<>> \in Seq(Words)
      OBVIOUS
    <3>2. wire' = [wire EXCEPT ![Server] = <<>>]
      BY <1>6, <2>2, <3>1, TwoEnds DEF ReadResponse, Taken
    <3> QED
      BY <1>0, <3>1, <3>2, TwoEnds
  <2>4. reader' \in [Ends -> States] /\ reader'[Client] = "header" /\ reader'[Server] = reader[Server]
    BY <1>0, <1>6, TwoEnds DEF ReadResponse, Reads
  <2>5. WsTypeOK'
    BY <1>6, <2>3, <2>4 DEF ReadResponse, sending, timers, counters, TInv, WsTypeOK
  <2>6. Opened'
    BY <2>2, <2>4, TwoEnds DEF Opened
  <2>7. \A e \in Ends : /\ reader'[e] \in {"header", "content"} => wire'[Peer(e)] \in Seq(Pieces)
                        /\ reader'[e] # "stopped" => ended'[e] = 0
    <3>1. <<>> \in Seq(Pieces) /\ ended' = ended
      BY <1>6 DEF ReadResponse
    <3> QED
      BY <2>1, <2>3, <2>4, <3>1, TwoEnds DEF TInv, Handshake
  <2> QED
    BY <2>5, <2>6, <2>7 DEF Handshake
<1>7. CASE DropRequest
  <2>1. WsTypeOK'
    <3>1. requestTimer' \in {"off", "armed", "due"}
      BY <1>0, <1>7 DEF DropRequest, Cancelled
    <3> QED
      BY <1>7, <3>1 DEF DropRequest, Reads, sending, counters, TInv, WsTypeOK
  <2> QED
    BY <1>7, <2>1, StopHandshake, TwoEnds DEF DropRequest, sending
<1>8. CASE ErrorBeforeOpen
  BY <1>8, CrashKeepsTypes DEF ErrorBeforeOpen
<1> QED
  BY <1>1, <1>2, <1>3, <1>4, <1>5, <1>6, <1>7, <1>8 DEF HandshakeStep

LEMMA NextKeepsTypes ==
  ASSUME TInv, [WsNext]_wsVars
  PROVE  WsTypeOK' /\ Handshake'
<1>1. ASSUME NEW e \in Ends, StrandStep(e) \/ WriteCompletes(e) PROVE WsTypeOK' /\ Handshake'
  <2>1. WsTypeOK' /\ \A d \in Ends : wire[d] \in Seq(Pieces) => wire'[d] \in Seq(Pieces)
    BY <1>1, StrandKeepsTypes, WriteKeepsTypes DEF StrandStep
  <2>2. Opened /\ UNCHANGED <<reader, ended>>
    BY <1>1, SendersAreOpen DEF StrandStep, WriteCompletes
  <2> QED
    BY <2>1, <2>2, OpenHandshake
<1>2. ASSUME NEW e \in Ends, Error(e) PROVE WsTypeOK' /\ Handshake'
  <2>1. /\ reader[e] \notin {"none", "stopped"} /\ Reads(e, "stopped")
        /\ ended' = [ended EXCEPT ![e] = @ + 1] /\ ended[e] = 0
    BY <1>2 DEF Error, Ended, TInv, Handshake
  <2>2. ended' \in [Ends -> 0..1] /\ \A d \in Ends \ {e} : ended'[d] = ended[d]
    BY <2>1 DEF TInv, WsTypeOK
  <2>3. idleTimer' = idleTimer \/ (e = Server /\ idleTimer' = Cancelled(idleTimer))
    BY <1>2 DEF Error, Ended
  <2>4. WsTypeOK'
    BY <1>2, <2>1, <2>2, <2>3
    DEF Error, Ended, Reads, Cancelled, sending, counters, TInv, WsTypeOK
  <2>5. UNCHANGED <<strand, queue, writing, wire, requestTimer>>
    BY <1>2 DEF Error, Ended, sending
  <2> QED
    BY <2>1, <2>2, <2>3, <2>4, <2>5, StopHandshake
<1>3. ASSUME NEW e \in Ends, Release(e) PROVE WsTypeOK' /\ Handshake'
  <2>1. WsTypeOK'
    BY <1>3 DEF Release, sending, timers, counters, TInv, WsTypeOK
  <2> QED
    BY <1>3, <2>1, QuietHandshake DEF Release, timers
<1>4. CASE RequestTimerDue \/ RequestTimeout \/ CutOff
  <2>1. WsTypeOK'
    <3>1. CASE RequestTimerDue
      BY <1>4, <3>1 DEF RequestTimerDue, sending, counters, TInv, WsTypeOK
    <3>2. CASE RequestTimeout
      BY <1>4, <3>2 DEF RequestTimeout, sending, counters, TInv, WsTypeOK
    <3>3. CASE CutOff
      <4>1. cuts' \in 0..MaxCuts
        BY <3>3, WsAssumption DEF CutOff, TInv, WsTypeOK
      <4> QED
        BY <3>3, <4>1 DEF CutOff, sending, timers, TInv, WsTypeOK
    <3> QED
      BY <1>4, <3>1, <3>2, <3>3
  <2> QED
    BY <1>4, <2>1, QuietHandshake DEF RequestTimerDue, RequestTimeout, CutOff, timers
<1>5. CASE IdleTimerDue
  <2>1. WsTypeOK'
    BY <1>5 DEF IdleTimerDue, sending, counters, TInv, WsTypeOK
  <2>2. Opened
    BY <1>5 DEF IdleTimerDue, TInv, Handshake, Opening
  <2> QED
    BY <1>5, <2>1, <2>2, QuietHandshake DEF IdleTimerDue
<1>6. CASE ShutdownThrows
  <2>1. reader[Server] # "none"
    BY <1>6, TwoEnds DEF ShutdownThrows, TInv, Handshake, Opened, Opening
  <2> QED
    BY <1>6, <2>1, CrashKeepsTypes DEF ShutdownThrows
<1>7. CASE IdleTimeout \/ ClientSends \/ ClientCloses
  <2>1. Opened /\ UNCHANGED <<reader, wire, ended>>
    BY <1>7, SendersAreOpen DEF IdleTimeout, ClientSends, ClientCloses
  <2>2. strand' \in [Ends -> Seq(Tasks)] /\ closed' \in [Ends -> BOOLEAN]
    <3>1. strand \in [Ends -> Seq(Tasks)] /\ closed \in [Ends -> BOOLEAN]
      BY DEF TInv, WsTypeOK
    <3>2. CASE ClientSends
      <4>1. PICK op \in {"text", "ping", "unmasked"} : send(Client, [op |-> op, n |-> sends + 1])
        BY <3>2 DEF ClientSends
      <4>2. sends + 1 \in 0..MaxSends
        BY <3>2, WsAssumption DEF ClientSends, TInv, WsTypeOK
      <4>3. [op |-> op, n |-> sends + 1] \in Frames
        BY <4>2 DEF Frames
      <4> QED
        BY <3>1, <3>2, <4>1, <4>3, SendTypes, TwoEnds DEF ClientSends
    <3> QED
      BY <1>7, <3>1, <3>2, CloseTypes, TwoEnds DEF IdleTimeout, ClientCloses
  <2>3. sends' \in 0..MaxSends /\ idleTimer' \in {"off", "armed", "due"}
    BY <1>7, WsAssumption DEF IdleTimeout, ClientSends, ClientCloses, timers, counters, TInv, WsTypeOK
  <2>4. WsTypeOK'
    BY <1>7, <2>1, <2>2, <2>3
    DEF IdleTimeout, ClientSends, ClientCloses, timers, counters, TInv, WsTypeOK
  <2> QED
    BY <2>1, <2>4, OpenHandshake
<1>8. CASE UNCHANGED wsVars
  <2>1. WsTypeOK'
    BY <1>8 DEF wsVars, TInv, WsTypeOK
  <2> QED
    BY <1>8, <2>1, QuietHandshake DEF wsVars, sending
<1> QED
  BY <1>1, <1>2, <1>3, <1>4, <1>5, <1>6, <1>7, <1>8, ReadKeepsTypes, HandshakeKeepsTypes
  DEF WsNext, EndStep

\* Whatever the order of handlers, timers and cuts, an end reads frames only where frames
\* were written, sends what the protocol has, and is told of its end once at most.
THEOREM WsTypes == WsSpec => []WsTypeOK
<1>1. WsInit => TInv
  BY InitHandshake
<1>2. TInv /\ [WsNext]_wsVars => TInv'
  BY NextKeepsTypes, NextWriters DEF TInv
<1>3. TInv => WsTypeOK
  BY DEF TInv
<1> QED
  BY <1>1, <1>2, <1>3, PTL DEF WsSpec

-----------------------------------------------------------------------------
(* The frames of a wire *)

LEMMA Halves ==
  ASSUME NEW n \in Nat, NEW a \in {0, 1}
  PROVE  \E k \in Nat : \/ n + a = 2 * k /\ (n + a) \div 2 = k /\ (n + a) % 2 = 0
                        \/ n + a = 2 * k + 1 /\ (n + a) \div 2 = k /\ (n + a) % 2 = 1
<1>1. n + a \in Nat
  OBVIOUS
<1>2. /\ (n + a) \div 2 \in Nat /\ (n + a) % 2 \in 0..1
      /\ n + a = 2 * ((n + a) \div 2) + ((n + a) % 2)
  BY <1>1
<1> QED
  BY <1>2

LEMMA ContentsType ==
  ASSUME NEW w \in Seq(Pieces), NEW a \in {0, 1}
  PROVE  Contents(w, a) \in Seq(Frames) /\ Len(Contents(w, a)) = (Len(w) + a) \div 2
<1> DEFINE n == (Len(w) + a) \div 2
<1>1. Len(w) \in Nat /\ \A i \in 1..Len(w) : w[i] \in Pieces
  BY LenProperties, ElementOfSeq
<1>2. PICK k \in Nat : k = n /\ (Len(w) + a = 2 * k \/ Len(w) + a = 2 * k + 1)
  BY <1>1, Halves
<1>3. ASSUME NEW i \in 1..k PROVE w[2 * i - a].frame \in Frames
  <2>1. 2 * i - a \in 1..Len(w)
    BY <1>1, <1>2
  <2> QED
    BY <1>1, <2>1 DEF Pieces
<1>4. Contents(w, a) \in [1..k -> Frames]
  BY <1>2, <1>3 DEF Contents
<1> QED
  BY <1>2, <1>4

\* Reading a header changes nothing.
LEMMA HeaderRead ==
  ASSUME NEW w \in Seq(Pieces), w # <<>>
  PROVE  Contents(Tail(w), 1) = Contents(w, 0)
<1>1. /\ Tail(w) \in Seq(Pieces) /\ Len(Tail(w)) = Len(w) - 1 /\ Len(w) \in Nat \ {0}
      /\ \A i \in 1..(Len(w) - 1) : Tail(w)[i] = w[i + 1]
  BY HeadTailProperties, EmptySeq
<1>2. PICK k \in Nat : k = (Len(w) + 0) \div 2 /\ (Len(w) + 0 = 2 * k \/ Len(w) + 0 = 2 * k + 1)
  BY <1>1, Halves
<1>3. (Len(Tail(w)) + 1) \div 2 = k
  <2>1. Len(Tail(w)) + 1 = Len(w) + 0
    BY <1>1
  <2> QED
    BY <1>2, <2>1
<1>4. \A i \in 1..k : Tail(w)[2 * i - 1] = w[2 * i - 0]
  <2> TAKE i \in 1..k
  <2>1. i \in Int /\ 1 <= i /\ i <= k /\ 2 * k <= Len(w) /\ Len(w) \in Int
    <3>1. Len(w) \in Nat
      BY <1>1
    <3>2. 2 * k <= Len(w)
      BY <1>2, <3>1
    <3> QED
      BY <3>1, <3>2
  <2>2. 2 * i - 1 \in 1..(Len(w) - 1) /\ (2 * i - 1) + 1 = 2 * i - 0
    BY <2>1
  <2> QED
    BY <1>1, <2>2
<1> QED
  BY <1>2, <1>3, <1>4 DEF Contents

\* Reading a content delivers its frame.
LEMMA ContentRead ==
  ASSUME NEW w \in Seq(Pieces), w # <<>>
  PROVE  /\ Contents(w, 1) # <<>> /\ Head(Contents(w, 1)) = Head(w).frame
         /\ Contents(Tail(w), 0) = Tail(Contents(w, 1))
<1>1. /\ Tail(w) \in Seq(Pieces) /\ Len(Tail(w)) = Len(w) - 1 /\ Len(w) \in Nat \ {0}
      /\ \A i \in 1..(Len(w) - 1) : Tail(w)[i] = w[i + 1]
      /\ Head(w) = w[1]
  BY HeadTailProperties, EmptySeq
<1>2. PICK k \in Nat : k = (Len(w) + 1) \div 2 /\ (Len(w) + 1 = 2 * k \/ Len(w) + 1 = 2 * k + 1)
  BY <1>1, Halves
<1>3. k # 0 /\ (Len(Tail(w)) + 0) \div 2 = k - 1
  BY <1>1, <1>2
<1> DEFINE c == Contents(w, 1)
           t == Contents(Tail(w), 0)
<1>4. c \in Seq(Frames) /\ Len(c) = k /\ t \in Seq(Frames) /\ Len(t) = k - 1
  BY <1>1, <1>2, <1>3, ContentsType
<1>5. c # <<>> /\ Head(c) = c[1] /\ Tail(c) \in Seq(Frames) /\ Len(Tail(c)) = k - 1
      /\ \A i \in 1..(k - 1) : Tail(c)[i] = c[i + 1]
  BY <1>3, <1>4, HeadTailProperties, EmptySeq
<1>6. c[1] = w[1].frame
  <2>1. 1 \in 1..k /\ 2 * 1 - 1 = 1
    BY <1>3
  <2> QED
    BY <1>2, <2>1 DEF Contents
<1>7. \A i \in 1..(k - 1) : t[i] = c[i + 1]
  <2> TAKE i \in 1..(k - 1)
  <2>1. i + 1 \in 1..k /\ 2 * i - 0 \in 1..(Len(w) - 1) /\ (2 * i - 0) + 1 = 2 * (i + 1) - 1
    BY <1>1, <1>2, <1>3
  <2>2. c[i + 1] = w[2 * (i + 1) - 1].frame
    BY <1>2, <2>1 DEF Contents
  <2>3. t[i] = Tail(w)[2 * i - 0].frame
    BY <1>3 DEF Contents
  <2> QED
    BY <1>1, <2>1, <2>2, <2>3
<1>8. t = Tail(c)
  BY <1>4, <1>5, <1>7, SeqEqual
<1> QED
  BY <1>1, <1>5, <1>6, <1>8

\* Writing a header adds no frame.
LEMMA HeaderWritten ==
  ASSUME NEW w \in Seq(Pieces), NEW a \in {0, 1}, (Len(w) + a) % 2 = 0, NEW h \in Pieces
  PROVE  Contents(w \o <<h>>, a) = Contents(w, a)
<1>1. Len(w) \in Nat /\ Len(w \o <<h>>) = Len(w) + 1
      /\ \A i \in 1..Len(w) : (w \o <<h>>)[i] = w[i]
  BY LenProperties, ConcatProperties
<1>2. PICK k \in Nat : k = (Len(w) + a) \div 2 /\ Len(w) + a = 2 * k
  BY <1>1, Halves
<1>3. (Len(w \o <<h>>) + a) \div 2 = k
  BY <1>1, <1>2
<1>4. \A i \in 1..k : (w \o <<h>>)[2 * i - a] = w[2 * i - a]
  <2> TAKE i \in 1..k
  <2>1. 2 * i - a \in 1..Len(w)
    BY <1>1, <1>2
  <2> QED
    BY <1>1, <2>1
<1> QED
  BY <1>2, <1>3, <1>4 DEF Contents

\* Writing a content adds its frame.
LEMMA ContentWritten ==
  ASSUME NEW w \in Seq(Pieces), NEW a \in {0, 1}, (Len(w) + a) % 2 = 1, NEW c \in Pieces
  PROVE  Contents(w \o <<c>>, a) = Contents(w, a) \o <<c.frame>>
<1> DEFINE v == w \o <<c>>
           old == Contents(w, a)
           new == Contents(v, a)
<1>1. Len(w) \in Nat /\ v \in Seq(Pieces) /\ Len(v) = Len(w) + 1
      /\ (\A i \in 1..Len(w) : v[i] = w[i]) /\ v[Len(w) + 1] = c
  BY LenProperties, ConcatProperties
<1>2. PICK k \in Nat : k = (Len(w) + a) \div 2 /\ Len(w) + a = 2 * k + 1
  BY <1>1, Halves
<1>3. (Len(v) + a) \div 2 = k + 1
  BY <1>1, <1>2
<1>4. old \in Seq(Frames) /\ Len(old) = k /\ new \in Seq(Frames) /\ Len(new) = k + 1
  BY <1>1, <1>2, <1>3, ContentsType
<1>5. c.frame \in Frames
  BY DEF Pieces
<1>6. /\ old \o <<c.frame>> \in Seq(Frames) /\ Len(old \o <<c.frame>>) = k + 1
      /\ (\A i \in 1..k : (old \o <<c.frame>>)[i] = old[i])
      /\ (old \o <<c.frame>>)[k + 1] = c.frame
  BY <1>4, <1>5, ConcatProperties
<1>7. ASSUME NEW i \in 1..(k + 1) PROVE new[i] = (old \o <<c.frame>>)[i]
  <2>1. new[i] = v[2 * i - a].frame
    BY <1>3 DEF Contents
  <2>2. CASE i = k + 1
    <3>1. 2 * i - a = Len(w) + 1
      BY <1>1, <1>2, <2>2
    <3> QED
      BY <1>1, <1>6, <2>1, <2>2, <3>1
  <2>3. CASE i # k + 1
    <3>1. i \in 1..k /\ 2 * i - a \in 1..Len(w)
      BY <1>1, <1>2, <2>3
    <3>2. old[i] = w[2 * i - a].frame
      BY <1>2, <3>1 DEF Contents
    <3> QED
      BY <1>1, <1>6, <2>1, <3>1, <3>2
  <2> QED
    BY <2>2, <2>3
<1> QED
  BY <1>4, <1>6, <1>7, SeqEqual

LEMMA FrameWritten ==
  ASSUME NEW w \in Seq(Pieces), NEW a \in {0, 1}, (Len(w) + a) % 2 = 0,
         NEW h \in Pieces, NEW c \in Pieces
  PROVE  Contents(w \o <<h, c>>, a) = Contents(w, a) \o <<c.frame>>
<1>1. <<h, c>> = <<h>> \o <<c>> /\ <<h>> \in Seq(Pieces) /\ <<c>> \in Seq(Pieces)
  <2>1. <<h>> \in Seq(Pieces) /\ <<c>> \in Seq(Pieces) /\ <<h, c>> = Append(<<h>>, c)
    OBVIOUS
  <2> QED
    BY <2>1, AppendIsConcat
<1>2. w \o <<h, c>> = (w \o <<h>>) \o <<c>> /\ w \o <<h>> \in Seq(Pieces)
  BY <1>1, ConcatAssociative, ConcatProperties
<1>3. Len(w \o <<h>>) = Len(w) + 1 /\ Len(w) \in Nat
  BY <1>1, ConcatProperties, LenProperties
<1>4. (Len(w \o <<h>>) + a) % 2 = 1
  BY <1>3
<1>5. Contents((w \o <<h>>) \o <<c>>, a) = Contents(w \o <<h>>, a) \o <<c.frame>>
  BY <1>2, <1>4, ContentWritten
<1> QED
  BY <1>2, <1>5, HeaderWritten

-----------------------------------------------------------------------------
(* The frames of a strand *)

OneBusy(s) == Busy(s) = {} \/ \E b \in Busy(s) : Busy(s) = {b}

LEMMA BusyTasks ==
  ASSUME NEW s \in Seq(Tasks)
  PROVE  /\ Len(s) \in Nat /\ DOMAIN s = 1..Len(s) /\ Busy(s) \subseteq 1..Len(s)
         /\ \A i \in 1..Len(s) : /\ s[i] \in Tasks
                                 /\ i \notin Busy(s) => s[i].do = "enqueue" /\ s[i].frame \in Frames
         /\ Sequence(s)
<1>1. Len(s) \in Nat /\ DOMAIN s = 1..Len(s) /\ \A i \in 1..Len(s) : s[i] \in Tasks
  BY LenProperties, ElementOfSeq
<1>2. Busy(s) \subseteq 1..Len(s)
  BY <1>1 DEF Busy
<1>3. ASSUME NEW i \in 1..Len(s), i \notin Busy(s)
      PROVE  s[i].do = "enqueue" /\ s[i].frame \in Frames
  BY <1>1, <1>3 DEF Busy, Tasks, Write
<1> QED
  BY <1>1, <1>2, <1>3, SequenceOf

LEMMA PostedType ==
  ASSUME NEW s \in Seq(Tasks), OneBusy(s)
  PROVE  /\ Posted(s) \in Seq(Frames)
         /\ Len(Posted(s)) = IF Busy(s) = {} THEN Len(s) ELSE Len(s) - 1
<1> DEFINE n == IF Busy(s) = {} THEN Len(s) ELSE Len(s) - 1
<1>1. n \in Nat /\ Len(s) \in Nat
  BY BusyTasks
<1>2. ASSUME NEW i \in 1..n
      PROVE  s[IF \E b \in Busy(s) : b <= i THEN i + 1 ELSE i].frame \in Frames
  <2>1. CASE Busy(s) = {}
    BY <1>1, <2>1, BusyTasks
  <2>2. ASSUME NEW b \in Busy(s), Busy(s) = {b} PROVE s[IF \E x \in Busy(s) : x <= i THEN i + 1 ELSE i].frame \in Frames
    BY <1>1, <2>2, BusyTasks
  <2> QED
    BY <2>1, <2>2 DEF OneBusy
<1>3. Posted(s) \in [1..n -> Frames]
  BY <1>2 DEF Posted
<1> QED
  BY <1>1, <1>3

\* Posting a frame, and a handler of the writing.
LEMMA PostedFrame ==
  ASSUME NEW s \in Seq(Tasks), OneBusy(s), NEW f \in Frames
  PROVE  Posted(Append(s, Enqueue(f))) = Posted(s) \o <<f>>
<1> DEFINE x == Enqueue(f)
           t == Append(s, x)
           n == IF Busy(s) = {} THEN Len(s) ELSE Len(s) - 1
           old == Posted(s)
           new == Posted(t)
<1>1. x \in Tasks /\ x.do = "enqueue" /\ x.frame = f
  BY DEF Enqueue, Tasks
<1>2. /\ Len(s) \in Nat /\ Sequence(s) /\ Busy(s) \subseteq 1..Len(s)
      /\ t \in Seq(Tasks) /\ Len(t) = Len(s) + 1
      /\ (\A i \in 1..Len(s) : t[i] = s[i]) /\ t[Len(s) + 1] = x
  BY <1>1, BusyTasks, AppendProperties
<1>3. Busy(t) = Busy(s)
  BY <1>1, <1>2, AppendSequence
<1>4. /\ old \in Seq(Frames) /\ Len(old) = n /\ new \in Seq(Frames) /\ Len(new) = n + 1
      /\ n \in Nat
  <2>1. old \in Seq(Frames) /\ Len(old) = n
    BY PostedType
  <2>2. OneBusy(t)
    BY <1>3 DEF OneBusy
  <2>3. new \in Seq(Frames) /\ Len(new) = IF Busy(t) = {} THEN Len(t) ELSE Len(t) - 1
    BY <1>2, <2>2, PostedType
  <2>4. n \in Nat /\ n + 1 = IF Busy(t) = {} THEN Len(t) ELSE Len(t) - 1
    BY <1>2, <1>3
  <2> QED
    BY <2>1, <2>3, <2>4
<1>5. /\ old \o <<f>> \in Seq(Frames) /\ Len(old \o <<f>>) = n + 1
      /\ (\A i \in 1..n : (old \o <<f>>)[i] = old[i])
      /\ (old \o <<f>>)[n + 1] = f
  BY <1>4, ConcatProperties
<1>6. ASSUME NEW i \in 1..(n + 1) PROVE new[i] = (old \o <<f>>)[i]
  <2> DEFINE j == IF \E b \in Busy(s) : b <= i THEN i + 1 ELSE i
  <2>1. new[i] = t[j].frame
    BY <1>2, <1>3 DEF Posted
  <2>2. i = n + 1 => j = Len(s) + 1
    BY <1>2 DEF OneBusy
  <2>3. i # n + 1 => j \in 1..Len(s) /\ i \in 1..n
    BY <1>2 DEF OneBusy
  <2>4. i # n + 1 => old[i] = s[j].frame
    BY <2>3 DEF Posted
  <2> QED
    BY <1>1, <1>2, <1>5, <2>1, <2>2, <2>3, <2>4
<1> QED
  BY <1>4, <1>5, <1>6, SeqEqual

LEMMA PostedHandler ==
  ASSUME NEW s \in Seq(Tasks), Busy(s) = {}, NEW x \in Tasks, x.do \in {"write", "wrote"}
  PROVE  Posted(Append(s, x)) = Posted(s)
<1> DEFINE t == Append(s, x)
<1>1. /\ Len(s) \in Nat /\ Sequence(s) /\ Len(t) = Len(s) + 1
      /\ \A i \in 1..Len(s) : t[i] = s[i]
  BY BusyTasks, AppendProperties
<1>2. Busy(t) = {Len(s) + 1}
  BY <1>1, AppendSequence
<1>3. \A i \in 1..Len(s) : ~(\E b \in Busy(t) : b <= i) /\ ~(\E b \in Busy(s) : b <= i)
  BY <1>1, <1>2
<1>4. Busy(t) # {} /\ Len(t) - 1 = Len(s)
  BY <1>1, <1>2
<1> QED
  BY <1>1, <1>3, <1>4 DEF Posted

\* Taking a handler from the strand: one that posts a frame, and the one that writes.
LEMMA FrameTaken ==
  ASSUME NEW s \in Seq(Tasks), OneBusy(s), s # <<>>, Head(s).do = "enqueue"
  PROVE  Posted(s) = <<Head(s).frame>> \o Posted(Tail(s)) /\ OneBusy(Tail(s))
<1> DEFINE t == Tail(s)
           f == Head(s).frame
           n == IF Busy(t) = {} THEN Len(t) ELSE Len(t) - 1
           old == Posted(s)
           new == Posted(t)
<1>1. /\ Len(s) \in Nat \ {0} /\ t \in Seq(Tasks) /\ Len(t) = Len(s) - 1 /\ Head(s) = s[1]
      /\ \A i \in 1..(Len(s) - 1) : t[i] = s[i + 1]
  BY HeadTailProperties, EmptySeq
<1>2. /\ Sequence(s) /\ Busy(s) \subseteq 1..Len(s) /\ 1 \notin Busy(s) /\ Busy(t) \subseteq 1..Len(t)
      /\ DOMAIN t = 1..Len(t)
  BY <1>1, BusyTasks DEF Busy
<1>3. /\ Busy(t) = {i \in DOMAIN t : i + 1 \in Busy(s)}
      /\ Busy(s) \subseteq {1} \cup {i + 1 : i \in Busy(t)}
  BY <1>2, TailSequence
<1>4. \A i \in Int : i \in Busy(t) <=> i + 1 \in Busy(s)
  BY <1>1, <1>2, <1>3
<1>5. OneBusy(t) /\ (Busy(t) = {} <=> Busy(s) = {})
  <2>1. CASE Busy(s) = {}
    BY <1>3, <2>1 DEF OneBusy
  <2>2. ASSUME NEW b \in Busy(s), Busy(s) = {b} PROVE Busy(t) = {b - 1}
    <3>1. b \in Int /\ b - 1 \in Busy(t)
      BY <1>1, <1>2, <1>4, <2>2
    <3>2. \A i \in Busy(t) : i = b - 1
      BY <1>1, <1>2, <1>3, <2>2
    <3> QED
      BY <3>1, <3>2
  <2>3. ASSUME NEW b \in Busy(s), Busy(s) = {b} PROVE OneBusy(t) /\ Busy(t) # {}
    BY <2>2, <2>3 DEF OneBusy
  <2> QED
    BY <2>1, <2>3 DEF OneBusy
<1>6. /\ new \in Seq(Frames) /\ Len(new) = n /\ old \in Seq(Frames) /\ Len(old) = n + 1
      /\ n \in Nat
  <2>1. new \in Seq(Frames) /\ Len(new) = n
    BY <1>1, <1>5, PostedType
  <2>2. old \in Seq(Frames) /\ Len(old) = IF Busy(s) = {} THEN Len(s) ELSE Len(s) - 1
    BY PostedType
  <2>3. n \in Nat /\ n + 1 = IF Busy(s) = {} THEN Len(s) ELSE Len(s) - 1
    BY <1>1, <1>2, <1>5
  <2> QED
    BY <2>1, <2>2, <2>3
<1>7. f \in Frames
  BY <1>1, <1>2, BusyTasks
<1>8. /\ <<f>> \o new \in Seq(Frames) /\ Len(<<f>> \o new) = n + 1
      /\ (<<f>> \o new)[1] = f
      /\ \A i \in 2..(n + 1) : (<<f>> \o new)[i] = new[i - 1]
  BY <1>6, <1>7, ConcatProperties
<1>9. ASSUME NEW i \in 1..(n + 1) PROVE old[i] = (<<f>> \o new)[i]
  <2> DEFINE j == IF \E b \in Busy(s) : b <= i THEN i + 1 ELSE i
             k == IF \E b \in Busy(t) : b <= i - 1 THEN (i - 1) + 1 ELSE i - 1
  <2>1. old[i] = s[j].frame
    BY <1>1, <1>5 DEF Posted
  <2>2. (\E b \in Busy(s) : b <= i) <=> (\E b \in Busy(t) : b <= i - 1)
    <3>1. ASSUME NEW b \in Busy(s), b <= i PROVE b - 1 \in Busy(t) /\ b - 1 <= i - 1
      <4>1. b - 1 \in Int /\ (b - 1) + 1 = b /\ b - 1 <= i - 1
        BY <1>1, <1>2, <3>1
      <4> QED
        BY <1>4, <4>1
    <3>2. ASSUME NEW b \in Busy(t), b <= i - 1 PROVE b + 1 \in Busy(s) /\ b + 1 <= i
      <4>1. b \in Int /\ b + 1 <= i
        <5>1. b \in 1..Len(t) /\ Len(t) \in Int /\ i \in Int
          <6>1. Len(t) \in Int /\ Busy(t) \subseteq 1..Len(t)
            BY <1>1, <1>2
          <6>2. n \in Nat
            BY <1>6
          <6> HIDE DEF n
          <6>3. i \in Int
            BY <6>2
          <6> QED
            BY <3>2, <6>1, <6>3
        <5> QED
          BY <3>2, <5>1
      <4> QED
        BY <1>4, <4>1
    <3> QED
      BY <3>1, <3>2
  <2>3. CASE i = 1
    <3>1. j = 1
      BY <1>2, <2>3
    <3> QED
      BY <1>1, <1>8, <2>1, <2>3, <3>1
  <2>4. CASE i # 1
    <3>1. i - 1 \in 1..n /\ k + 1 = j /\ i \in 2..(n + 1)
      BY <2>2, <2>4
    <3>2. new[i - 1] = t[k].frame
      BY <3>1 DEF Posted
    <3>3. k \in 1..(Len(s) - 1)
      BY <1>1, <1>2, <1>5, <3>1 DEF OneBusy
    <3> QED
      BY <1>1, <1>8, <2>1, <3>1, <3>2, <3>3
  <2> QED
    BY <2>3, <2>4
<1> QED
  BY <1>5, <1>6, <1>8, <1>9, SeqEqual

LEMMA HandlerTaken ==
  ASSUME NEW s \in Seq(Tasks), OneBusy(s), s # <<>>, Head(s).do \in {"write", "wrote"}
  PROVE  Posted(Tail(s)) = Posted(s) /\ Busy(Tail(s)) = {}
<1> DEFINE t == Tail(s)
<1>1. /\ Len(s) \in Nat \ {0} /\ t \in Seq(Tasks) /\ Len(t) = Len(s) - 1 /\ Head(s) = s[1]
      /\ \A i \in 1..(Len(s) - 1) : t[i] = s[i + 1]
  BY HeadTailProperties, EmptySeq
<1>2. Sequence(s) /\ DOMAIN s = 1..Len(s) /\ DOMAIN t = 1..Len(t)
  BY <1>1, BusyTasks
<1>3. 1 \in Busy(s) /\ Busy(t) = {i \in DOMAIN t : i + 1 \in Busy(s)}
  BY <1>1, <1>2, TailSequence DEF Busy
<1>4. Busy(s) = {1} /\ Busy(t) = {}
  BY <1>1, <1>2, <1>3 DEF OneBusy
<1>5. \A i \in 1..(Len(s) - 1) : (\E b \in Busy(s) : b <= i) /\ ~(\E b \in Busy(t) : b <= i)
  BY <1>1, <1>4
<1> QED
  BY <1>1, <1>4, <1>5 DEF Posted

-----------------------------------------------------------------------------
(* What the ends write *)

\* The handlers in a strand that belong to its writing: at most one.
Handlers(s) == {s[i] : i \in Busy(s)}

LEMMA HandlersPosted ==
  ASSUME NEW s \in Seq(Tasks), NEW x \in Tasks
  PROVE  Handlers(Append(s, x)) =
           Handlers(s) \cup (IF x.do \in {"write", "wrote"} THEN {x} ELSE {})
<1> DEFINE t == Append(s, x)
<1>1. /\ Len(s) \in Nat /\ Sequence(s) /\ Busy(s) \subseteq 1..Len(s)
      /\ (\A i \in 1..Len(s) : t[i] = s[i]) /\ t[Len(s) + 1] = x
  BY BusyTasks, AppendProperties
<1>2. Busy(t) = Busy(s) \cup (IF x.do \in {"write", "wrote"} THEN {Len(s) + 1} ELSE {})
  BY <1>1, AppendSequence
<1>3. \A i \in Busy(s) : t[i] = s[i]
  BY <1>1
<1> QED
  BY <1>1, <1>2, <1>3 DEF Handlers

\* What follows in a strand when its first handler is taken and perhaps a write added.
LEMMA NextHandlers ==
  ASSUME NEW s \in Seq(Tasks), OneBusy(s), s # <<>>, NEW more \in {<<>>, <<Write>>},
         Head(s).do = "enqueue" /\ more # <<>> => Busy(s) = {}
  PROVE  LET t == Tail(s) \o more
             added == IF more = <<>> THEN {} ELSE {Write}
         IN /\ Head(s) \in Tasks
            /\ Head(s).do = "enqueue" =>
                 Handlers(t) = Handlers(s) \cup added /\ Posted(s) = <<Head(s).frame>> \o Posted(t)
            /\ Head(s).do \in {"write", "wrote"} =>
                 /\ Handlers(s) = {Head(s)} /\ Handlers(t) = added
                 /\ Posted(t) = Posted(s)
<1> DEFINE r == Tail(s)
           t == r \o more
           added == IF more = <<>> THEN {} ELSE {Write}
<1>1. /\ Len(s) \in Nat \ {0} /\ r \in Seq(Tasks) /\ Len(r) = Len(s) - 1
      /\ Head(s) = s[1] /\ Head(s) \in Tasks
      /\ \A i \in 1..(Len(s) - 1) : r[i] = s[i + 1]
  BY HeadTailProperties, EmptySeq
<1>2. /\ Sequence(s) /\ DOMAIN s = 1..Len(s) /\ Busy(s) \subseteq 1..Len(s)
      /\ Busy(r) \subseteq 1..(Len(s) - 1)
  BY <1>1, BusyTasks
<1>3. /\ Busy(r) = {i \in DOMAIN r : i + 1 \in Busy(s)}
      /\ Busy(s) \subseteq {1} \cup {i + 1 : i \in Busy(r)}
      /\ 1 \in Busy(s) <=> Head(s).do \in {"write", "wrote"}
  BY <1>1, <1>2, TailSequence DEF Busy
<1>4. Write \in Tasks /\ Write.do = "write"
  BY DEF Write, Tasks
<1>5. ASSUME Busy(r) = {} \/ more = <<>>
      PROVE  Handlers(t) = Handlers(r) \cup added /\ Posted(t) = Posted(r)
  <2>1. CASE more = <<>>
    BY <1>1, <2>1, ConcatEmptySeq
  <2>2. CASE more = <<Write>>
    <3>1. t = Append(r, Write) /\ more # <<>>
      BY <1>1, <1>4, <2>2, AppendIsConcat
    <3> QED
      BY <1>1, <1>4, <1>5, <3>1, HandlersPosted, PostedHandler
  <2> QED
    BY <2>1, <2>2
<1>6. CASE Head(s).do = "enqueue"
  <2>1. \A i \in Busy(r) : i + 1 \in Busy(s) /\ r[i] = s[i + 1]
    BY <1>1, <1>2, <1>3
  <2>2. \A j \in Busy(s) : \E i \in Busy(r) : j = i + 1
    BY <1>3, <1>6
  <2>3. ASSUME NEW x \in Handlers(r)
        PROVE  x \in Handlers(s)
    <3>1. PICK i \in Busy(r) : x = r[i]
      BY DEF Handlers
    <3>2. i + 1 \in Busy(s) /\ x = s[i + 1]
      BY <2>1, <3>1
    <3> QED
      BY <3>2 DEF Handlers
  <2>4. ASSUME NEW x \in Handlers(s)
        PROVE  x \in Handlers(r)
    <3>1. PICK j \in Busy(s) : x = s[j]
      BY DEF Handlers
    <3>2. PICK i \in Busy(r) : j = i + 1
      BY <2>2, <3>1
    <3>3. x = r[i]
      BY <2>1, <3>1, <3>2
    <3> QED
      BY <3>2, <3>3 DEF Handlers
  <2>5. Handlers(r) = Handlers(s)
    BY <2>3, <2>4
  <2>6. Busy(s) = {} => Busy(r) = {}
    BY <2>1
  <2>7. Posted(s) = <<Head(s).frame>> \o Posted(r)
    BY <1>6, FrameTaken
  <2> QED
    BY <1>1, <1>5, <1>6, <2>5, <2>6, <2>7
<1>7. CASE Head(s).do \in {"write", "wrote"}
  <2>1. Posted(r) = Posted(s) /\ Busy(r) = {}
    BY <1>7, HandlerTaken
  <2>2. Handlers(s) = {Head(s)}
    BY <1>1, <1>3, <1>7 DEF OneBusy, Handlers
  <2>3. Handlers(r) = {}
    BY <2>1 DEF Handlers
  <2> QED
    BY <1>1, <1>5, <1>7, <2>1, <2>2, <2>3
<1>8. Head(s).do \in {"enqueue", "write", "wrote"}
  BY <1>1 DEF Tasks, Write
<1> QED
  BY <1>1, <1>6, <1>7, <1>8

\* The server writes a frame in two parts and the client in one.
Kinds(e) == IF e = Server THEN {"header", "content"} ELSE {"all"}

Receiving(e) == reader[e] \in {"header", "content"}

\* The header of a frame is on the wire and its content is not.
HalfWritten(e) ==
  \/ \E w \in writing[e] : w.part = "content"
  \/ Wrote("header", TRUE) \in Handlers(strand[e])

\* The head of the queue is what is written; a write fails only on a broken socket; and
\* the end of the wire is the end of a frame unless one is half written.
Sending(e) ==
  /\ \A w \in writing[e] : w.frame = Head(queue[e]) /\ w.part \in Kinds(e)
  /\ \A x \in Handlers(strand[e]) :
       x.do = "wrote" => x.part \in Kinds(e) /\ (x.ok \/ sock[e] # "open")
  /\ Receiving(Peer(e)) /\ (sock[e] = "open" \/ e = Client) =>
       ((Len(wire[e]) + Ahead(e)) % 2 = 1 <=> HalfWritten(e))

\* What a step leaves of a direction in which it neither writes nor takes a handler.
LEMMA SameSending ==
  ASSUME NEW e \in Ends, Sending(e), writing'[e] = writing[e], queue'[e] = queue[e],
         Handlers(strand'[e]) = Handlers(strand[e]), sock'[e] = "open" => sock[e] = "open",
         Receiving(Peer(e))' =>
           /\ Receiving(Peer(e))
           /\ (Len(wire'[e]) + Ahead(e)') % 2 = (Len(wire[e]) + Ahead(e)) % 2
  PROVE  Sending(e)'
<1>1. HalfWritten(e)' <=> HalfWritten(e)
  BY DEF HalfWritten
<1>2. \A w \in writing'[e] : w.frame = Head(queue'[e]) /\ w.part \in Kinds(e)
  BY DEF Sending
<1>3. \A x \in Handlers(strand'[e]) :
        x.do = "wrote" => x.part \in Kinds(e) /\ (x.ok \/ sock'[e] # "open")
  BY DEF Sending
<1>4. Receiving(Peer(e))' /\ (sock'[e] = "open" \/ e = Client) =>
        ((Len(wire'[e]) + Ahead(e)') % 2 = 1 <=> HalfWritten(e)')
  BY <1>1 DEF Sending
<1> QED
  BY <1>2, <1>3, <1>4 DEF Sending

LEMMA SilentSending ==
  ASSUME NEW e \in Ends, Silent(e)', Receiving(Peer(e))' => wire'[e] = <<>> /\ Ahead(e)' = 0
  PROVE  Sending(e)'
<1>1. Handlers(strand'[e]) = {}
  BY EmptySequence DEF Silent, Handlers
<1>2. ~HalfWritten(e)'
  BY <1>1 DEF Silent, HalfWritten
<1>3. Receiving(Peer(e))' => (Len(wire'[e]) + Ahead(e)') % 2 = 0
  <2>1. Len(<<>>) = 0 /\ (0 + 0) % 2 = 0
    OBVIOUS
  <2> QED
    BY <2>1
<1> QED
  BY <1>1, <1>2, <1>3 DEF Silent, Sending

\* One handler at a time.
LEMMA OneHandler ==
  ASSUME TInv, NEW e \in Ends
  PROVE  /\ strand[e] \in Seq(Tasks) /\ queue[e] \in Seq(Frames) /\ OneBusy(strand[e])
         /\ Handlers(strand[e]) = {} <=> Busy(strand[e]) = {}
         /\ Handlers(strand[e]) # {} => writing[e] = {} /\ queue[e] # <<>>
         /\ queue[e] = <<>> => writing[e] = {} /\ Handlers(strand[e]) = {}
         /\ writing[e] # {} =>
              Busy(strand[e]) = {} /\ queue[e] # <<>> /\ \E w \in writing[e] : writing[e] = {w}
<1>1. OneWriterOf(e) /\ strand[e] \in Seq(Tasks) /\ queue[e] \in Seq(Frames)
  BY DEF TInv, WInv, WsTypeOK
<1>2. Handlers(strand[e]) = {} <=> Busy(strand[e]) = {}
  BY DEF Handlers
<1> QED
  BY <1>1, <1>2 DEF OneWriterOf, OneBusy

\* The effect of a step of a strand.
LEMMA StrandEffect ==
  ASSUME TInv, NEW e \in Ends, NEW more \in {<<>>, <<Write>>}, StrandAfter(e, more),
         strand[e] # <<>>, Head(strand[e]).do = "enqueue" /\ more # <<>> => Busy(strand[e]) = {}
  PROVE  LET s == strand[e]
             added == IF more = <<>> THEN {} ELSE {Write}
         IN /\ \A d \in Ends \ {e} : strand'[d] = strand[d]
            /\ Head(s) \in Tasks
            /\ Head(s).do = "enqueue" =>
                 /\ Handlers(strand'[e]) = Handlers(s) \cup added
                 /\ Posted(s) = <<Head(s).frame>> \o Posted(strand'[e])
            /\ Head(s).do \in {"write", "wrote"} =>
                 /\ Handlers(s) = {Head(s)} /\ Handlers(strand'[e]) = added
                 /\ Posted(strand'[e]) = Posted(s)
<1>1. strand' = [strand EXCEPT ![e] = Tail(@) \o more] /\ DOMAIN strand = Ends
  BY DEF StrandAfter, TInv, WsTypeOK
<1>2. strand'[e] = Tail(strand[e]) \o more /\ \A d \in Ends \ {e} : strand'[d] = strand[d]
  BY <1>1
<1>3. strand[e] \in Seq(Tasks) /\ OneBusy(strand[e])
  BY OneHandler
<1> QED
  BY <1>2, <1>3, NextHandlers

LEMMA StrandSending ==
  ASSUME TInv, \A d \in Ends : Sending(d), NEW e \in Ends, StrandStep(e)
  PROVE  \A d \in Ends : Sending(d)'
<1> DEFINE s == strand[e]
           q == queue[e]
<1>0. /\ strand[e] \in Seq(Tasks) /\ queue[e] \in Seq(Frames)
      /\ Handlers(s) # {} => writing[e] = {} /\ q # <<>>
      /\ Handlers(s) = {} <=> Busy(s) = {}
      /\ q = <<>> => writing[e] = {} /\ Handlers(s) = {}
      /\ DOMAIN writing = Ends /\ DOMAIN queue = Ends
  BY OneHandler DEF TInv, WInv, Queues
<1>1. UNCHANGED <<reader, wire, sock>> /\ s # <<>>
  BY DEF StrandStep, EnqueueFrame, send_from_queue, WriteHandler, NextTask
<1>2. /\ Receiving(Peer(e))' = Receiving(Peer(e)) /\ Ahead(e)' = Ahead(e)
      /\ \A d \in Ends : Receiving(Peer(d))' = Receiving(Peer(d)) /\ Ahead(d)' = Ahead(d)
  BY <1>1 DEF Receiving, Ahead
<1>3. ASSUME NEW d \in Ends \ {e} PROVE Sending(d)'
  <2>1. strand'[d] = strand[d] /\ queue'[d] = queue[d] /\ writing'[d] = writing[d]
    BY <1>0, <1>3 DEF TInv, WInv, Queues, StrandStep, EnqueueFrame, send_from_queue, WriteHandler,
                      StrandAfter, StartsWrite
  <2> QED
    BY <1>1, <1>2, <2>1, SameSending
<1>4. CASE EnqueueFrame(e)
  <2> DEFINE f == Head(s).frame
             more == IF q = <<>> THEN <<Write>> ELSE <<>>
  <2>1. /\ queue' = [queue EXCEPT ![e] = Append(@, f)] /\ UNCHANGED writing
        /\ StrandAfter(e, more) /\ Head(s).do = "enqueue"
    BY <1>4 DEF EnqueueFrame, NextTask
  <2>2. PICK added \in {{}, {Write}} : Handlers(strand'[e]) = Handlers(s) \cup added
    BY <1>0, <1>1, <2>1, StrandEffect
  <2>3. HalfWritten(e)' <=> HalfWritten(e)
    <3>1. Wrote("header", TRUE) # Write
      BY DEF Wrote, Write
    <3> QED
      BY <2>1, <2>2, <3>1 DEF HalfWritten
  <2>4. writing[e] # {} => Head(queue'[e]) = Head(q)
    BY <1>0, <2>1, HeadTailAppend
  <2>5. \A x \in Handlers(strand'[e]) : x.do = "wrote" => x \in Handlers(s)
    BY <2>2 DEF Write
  <2>6. Sending(e)'
    BY <1>1, <1>2, <2>1, <2>3, <2>4, <2>5 DEF Sending
  <2> QED
    BY <1>3, <2>6
<1>5. CASE send_from_queue(e)
  <2>1. /\ Head(s).do = "write" /\ StrandAfter(e, <<>>) /\ UNCHANGED queue
        /\ StartsWrite(e, FirstPart(e))
    BY <1>5 DEF send_from_queue, NextTask
  <2>2. Handlers(s) = {Head(s)} /\ Handlers(strand'[e]) = {}
    BY <1>1, <2>1, StrandEffect
  <2>3. writing'[e] = {[frame |-> Head(q), part |-> FirstPart(e)]} /\ writing[e] = {}
    BY <1>0, <2>1, <2>2 DEF StartsWrite
  <2>4. FirstPart(e) \in Kinds(e) /\ FirstPart(e) # "content"
    BY DEF FirstPart, Kinds
  <2>5. ~HalfWritten(e)
    <3>1. Head(s) # Wrote("header", TRUE)
      BY <2>1 DEF Wrote
    <3> QED
      BY <2>2, <2>3, <3>1 DEF HalfWritten
  <2>6. ~HalfWritten(e)'
    BY <2>2, <2>3, <2>4 DEF HalfWritten
  <2>7. Sending(e)'
    BY <1>1, <1>2, <2>1, <2>2, <2>3, <2>4, <2>5, <2>6 DEF Sending
  <2> QED
    BY <1>3, <2>7
<1>6. CASE WriteHandler(e)
  <2> DEFINE done == Head(s)
  <2>1. PICK more \in {<<>>, <<Write>>} : StrandAfter(e, more)
    BY <1>6 DEF WriteHandler
  <2>2. done.do = "wrote"
    BY <1>6 DEF WriteHandler, NextTask
  <2>3. /\ Handlers(s) = {done} /\ Handlers(strand'[e]) \subseteq {Write} /\ done \in Tasks
        /\ more = <<>> => Handlers(strand'[e]) = {}
    BY <1>1, <2>1, <2>2, StrandEffect
  <2>4. writing[e] = {} /\ done.part \in Kinds(e) /\ (done.ok \/ sock[e] # "open")
    BY <1>0, <2>2, <2>3 DEF Sending
  <2>5. done \in [do : {"wrote"}, part : Parts, ok : BOOLEAN]
    BY <2>2, <2>3 DEF Tasks, Write
  <2>6. HalfWritten(e) <=> done.ok /\ done.part = "header"
    <3>1. done = [do |-> "wrote", part |-> done.part, ok |-> done.ok] /\ done.ok \in BOOLEAN
      BY <2>5
    <3>2. done.ok /\ done.part = "header" => done = Wrote("header", TRUE)
      BY <3>1 DEF Wrote
    <3>3. done = Wrote("header", TRUE) => done.ok /\ done.part = "header"
      BY DEF Wrote
    <3> QED
      BY <2>3, <2>4, <3>2, <3>3 DEF HalfWritten
  <2>7. Write.do # "wrote" /\ Write # Wrote("header", TRUE)
    BY DEF Write, Wrote
  <2>8. CASE done.ok /\ done.part = "header"
    <3>1. StartsWrite(e, "content") /\ UNCHANGED queue
      BY <1>6, <2>8 DEF WriteHandler
    <3>2. writing'[e] = {[frame |-> Head(q), part |-> "content"]}
      BY <1>0, <2>4, <3>1 DEF StartsWrite
    <3>3. HalfWritten(e)' /\ HalfWritten(e)
      <4>1. [frame |-> Head(q), part |-> "content"].part = "content"
        OBVIOUS
      <4>2. HalfWritten(e)'
        BY <3>2, <4>1 DEF HalfWritten
      <4> QED
        BY <2>6, <2>8, <4>2
    <3>4. "content" \in Kinds(e)
      <4>1. e = Server
        BY <2>4, <2>8 DEF Kinds
      <4> QED
        BY <4>1 DEF Kinds
    <3> QED
      BY <1>1, <1>2, <1>3, <2>3, <2>7, <3>1, <3>2, <3>3, <3>4 DEF Sending
  <2>9. CASE ~(done.ok /\ done.part = "header")
    <3>1. UNCHANGED writing
      BY <1>6, <2>9 DEF WriteHandler
    <3>2. ~HalfWritten(e)' /\ ~HalfWritten(e)
      BY <2>3, <2>4, <2>6, <2>7, <2>9, <3>1 DEF HalfWritten
    <3> QED
      BY <1>1, <1>2, <1>3, <2>3, <2>4, <2>7, <3>1, <3>2 DEF Sending
  <2> QED
    BY <2>8, <2>9
<1> QED
  BY <1>4, <1>5, <1>6 DEF StrandStep

\* An asynchronous write completes.
LEMMA WriteEffect ==
  ASSUME TInv, \A d \in Ends : Sending(d), NEW e \in Ends, WriteCompletes(e)
  PROVE  \E w \in [frame : Frames, part : Kinds(e)] :
           LET done == Wrote(w.part, sock[e] = "open") IN
           /\ writing[e] = {w} /\ w.frame = Head(queue[e]) /\ queue[e] # <<>>
           /\ writing'[e] = {} /\ Handlers(strand[e]) = {} /\ Handlers(strand'[e]) = {done}
           /\ Posted(strand'[e]) = Posted(strand[e])
           /\ UNCHANGED <<reader, queue, closed>>
           /\ \A d \in Ends \ {e} : /\ strand'[d] = strand[d] /\ writing'[d] = writing[d]
                                    /\ wire'[d] = wire[d] /\ sock'[d] = sock[d]
           /\ IF sock[e] = "open"
              THEN /\ wire'[e] = wire[e] \o Written(w)
                   /\ sock'[e] = IF sock[Peer(e)] = "closed" THEN "reset" ELSE sock[e]
                   /\ cut' = (cut \/ sock[Peer(e)] = "closed")
              ELSE UNCHANGED <<wire, sock, cut>>
<1>1. PICK w \in writing[e] :
        /\ writing' = [writing EXCEPT ![e] = @ \ {w}]
        /\ Post(e, Wrote(w.part, sock[e] = "open"))
        /\ IF sock[e] = "open"
           THEN /\ wire' = [wire EXCEPT ![e] = @ \o Written(w)]
                /\ sock' = [sock EXCEPT ![e] = IF sock[Peer(e)] = "closed" THEN "reset" ELSE @]
                /\ cut' = (cut \/ sock[Peer(e)] = "closed")
           ELSE UNCHANGED <<wire, sock, cut>>
  BY DEF WriteCompletes
<1> DEFINE done == Wrote(w.part, sock[e] = "open")
<1>2. /\ w \in [frame : Frames, part : Parts] /\ w.frame = Head(queue[e]) /\ w.part \in Kinds(e)
      /\ DOMAIN writing = Ends /\ DOMAIN strand = Ends /\ DOMAIN wire = Ends /\ DOMAIN sock = Ends
  BY DEF TInv, WsTypeOK, WInv, Queues, Sending
<1>3. /\ strand[e] \in Seq(Tasks) /\ Busy(strand[e]) = {} /\ Handlers(strand[e]) = {}
      /\ queue[e] # <<>> /\ writing[e] = {w}
  BY <1>1, OneHandler
<1>4. done \in Tasks /\ done.do = "wrote"
  BY <1>2 DEF Wrote, Tasks
<1>5. strand' = [strand EXCEPT ![e] = Append(@, done)]
  BY <1>1 DEF Post
<1>6. /\ strand'[e] = Append(strand[e], done) /\ \A d \in Ends \ {e} : strand'[d] = strand[d]
      /\ writing'[e] = {} /\ \A d \in Ends \ {e} : writing'[d] = writing[d]
  BY <1>1, <1>2, <1>3, <1>5
<1>7. Handlers(strand'[e]) = {done} /\ Posted(strand'[e]) = Posted(strand[e])
  BY <1>3, <1>4, <1>6, HandlersPosted, PostedHandler
<1>8. w \in [frame : Frames, part : Kinds(e)]
  BY <1>2
<1>9. \A d \in Ends \ {e} : wire'[d] = wire[d] /\ sock'[d] = sock[d]
  BY <1>1, <1>2
<1>10. IF sock[e] = "open"
       THEN /\ wire'[e] = wire[e] \o Written(w)
            /\ sock'[e] = IF sock[Peer(e)] = "closed" THEN "reset" ELSE sock[e]
            /\ cut' = (cut \/ sock[Peer(e)] = "closed")
       ELSE UNCHANGED <<wire, sock, cut>>
  BY <1>1, <1>2
<1>11. UNCHANGED <<reader, queue, closed>>
  BY DEF WriteCompletes
<1> QED
  BY <1>2, <1>3, <1>6, <1>7, <1>8, <1>9, <1>10, <1>11

LEMMA WriteSending ==
  ASSUME TInv, \A d \in Ends : Sending(d), NEW e \in Ends, WriteCompletes(e)
  PROVE  \A d \in Ends : Sending(d)'
<1>1. PICK w \in [frame : Frames, part : Kinds(e)] :
        LET done == Wrote(w.part, sock[e] = "open") IN
           /\ writing[e] = {w} /\ w.frame = Head(queue[e]) /\ queue[e] # <<>>
           /\ writing'[e] = {} /\ Handlers(strand[e]) = {} /\ Handlers(strand'[e]) = {done}
           /\ UNCHANGED <<reader, queue, closed>>
           /\ \A d \in Ends \ {e} : /\ strand'[d] = strand[d] /\ writing'[d] = writing[d]
                                    /\ wire'[d] = wire[d] /\ sock'[d] = sock[d]
           /\ IF sock[e] = "open"
              THEN /\ wire'[e] = wire[e] \o Written(w)
                   /\ sock'[e] = IF sock[Peer(e)] = "closed" THEN "reset" ELSE sock[e]
              ELSE UNCHANGED <<wire, sock>>
  BY WriteEffect
<1> DEFINE done == Wrote(w.part, sock[e] = "open")
<1>2. \A d \in Ends : Receiving(Peer(d))' = Receiving(Peer(d)) /\ Ahead(d)' = Ahead(d)
  BY <1>1 DEF Receiving, Ahead
<1>3. \A d \in Ends \ {e} : Sending(d)'
  BY <1>1, <1>2, SameSending
<1>4. /\ done.do = "wrote" /\ done.part = w.part /\ done.ok = (sock[e] = "open")
      /\ w.part \in Kinds(e)
  BY DEF Wrote
<1>5. HalfWritten(e) <=> w.part = "content"
  BY <1>1 DEF HalfWritten
<1>6. HalfWritten(e)' <=> w.part = "header" /\ sock[e] = "open"
  <2>1. Wrote("header", TRUE).part = "header" /\ Wrote("header", TRUE).ok = TRUE
    BY DEF Wrote
  <2>2. done = Wrote("header", TRUE) <=> w.part = "header" /\ sock[e] = "open"
    BY <1>4, <2>1 DEF Wrote
  <2> QED
    BY <1>1, <2>2 DEF HalfWritten
<1>8. ASSUME Receiving(Peer(e))', sock'[e] = "open" \/ e = Client
      PROVE  (Len(wire'[e]) + Ahead(e)') % 2 = 1 <=> HalfWritten(e)'
  <2>1. Receiving(Peer(e)) /\ Ahead(e) \in {0, 1} /\ Ahead(e)' = Ahead(e)
    BY <1>2, <1>8 DEF Ahead
  <2>2. wire[e] \in Seq(Pieces) /\ Len(wire[e]) \in Nat
    <3>1. wire[e] \in Seq(Pieces)
      BY <2>1, TwoEnds DEF Receiving, TInv, Handshake
    <3> QED
      BY <3>1, LenProperties
  <2>3. CASE sock[e] = "open"
    <3>1. (Len(wire[e]) + Ahead(e)) % 2 = 1 <=> HalfWritten(e)
      BY <2>1, <2>3 DEF Sending
    <3>2. Len(wire'[e]) = Len(wire[e]) + IF w.part = "all" THEN 2 ELSE 1
      <4>1. CASE w.part = "all"
        <5> DEFINE h == [frame |-> w.frame, part |-> "header"]
                   c == [frame |-> w.frame, part |-> "content"]
        <5>1. h \in Pieces /\ c \in Pieces
          BY DEF Pieces
        <5>2. <<h, c>> \in Seq(Pieces) /\ Len(<<h, c>>) = 2
          BY <5>1
        <5> QED
          BY <1>1, <2>2, <2>3, <4>1, <5>2, ConcatProperties DEF Written
      <4>2. CASE w.part # "all"
        <5>1. w \in Pieces
          BY <4>2 DEF Kinds, Pieces
        <5>2. <<w>> \in Seq(Pieces) /\ Len(<<w>>) = 1
          BY <5>1
        <5> QED
          BY <1>1, <2>2, <2>3, <4>2, <5>2, ConcatProperties DEF Written
      <4> QED
        BY <4>1, <4>2
    <3>3. w.part \in {"header", "content", "all"}
      BY DEF Kinds
    <3>4. ASSUME NEW n \in Nat, NEW a \in {0, 1}
          PROVE  /\ ((n + 1) + a) % 2 = 1 <=> (n + a) % 2 # 1
                 /\ ((n + 2) + a) % 2 = (n + a) % 2
      OBVIOUS
    <3>5. CASE w.part = "all"
      BY <1>5, <1>6, <2>1, <2>2, <2>3, <3>1, <3>2, <3>4, <3>5
    <3>6. CASE w.part \in {"header", "content"}
      <4>1. Len(wire'[e]) = Len(wire[e]) + 1
        BY <3>2, <3>6
      <4>2. (Len(wire'[e]) + Ahead(e)') % 2 = 1 <=> (Len(wire[e]) + Ahead(e)) % 2 # 1
        BY <2>1, <2>2, <3>4, <4>1
      <4> QED
        BY <1>5, <1>6, <2>3, <3>1, <3>6, <4>2
    <3> QED
      BY <3>3, <3>5, <3>6
  <2>4. CASE sock[e] # "open"
    <3>1. e = Client /\ wire'[e] = wire[e] /\ w.part = "all"
      BY <1>1, <1>8, <2>4, TwoEnds DEF Kinds
    <3>2. (Len(wire[e]) + Ahead(e)) % 2 = 1 <=> HalfWritten(e)
      BY <2>1, <3>1 DEF Sending
    <3> QED
      BY <1>5, <1>6, <2>1, <3>1, <3>2
  <2> QED
    BY <2>3, <2>4
<1>9. \A x \in Handlers(strand'[e]) :
        x.do = "wrote" => x.part \in Kinds(e) /\ (x.ok \/ sock'[e] # "open")
  <2>1. sock[e] # "open" => sock'[e] # "open"
    BY <1>1
  <2> QED
    BY <1>1, <1>4, <2>1
<1>10. Sending(e)'
  BY <1>1, <1>8, <1>9 DEF Sending
<1> QED
  BY <1>3, <1>10

\* A frame is posted, or nothing.
Sent(e, sent) ==
  /\ sent \in {<<>>} \cup {<<f>> : f \in Frames}
  /\ \A d \in Ends \ {e} : strand'[d] = strand[d]
  /\ strand'[e] = IF sent = <<>> THEN strand[e] ELSE Append(strand[e], Enqueue(sent[1]))

LEMMA SentHandlers ==
  ASSUME TInv, NEW e \in Ends, NEW sent, Sent(e, sent)
  PROVE  /\ \A d \in Ends : Handlers(strand'[d]) = Handlers(strand[d])
         /\ Posted(strand'[e]) = Posted(strand[e]) \o sent
         /\ \A d \in Ends \ {e} : strand'[d] = strand[d]
<1>1. strand[e] \in Seq(Tasks) /\ OneBusy(strand[e]) /\ Posted(strand[e]) \in Seq(Frames)
  BY OneHandler, PostedType
<1>2. CASE sent = <<>>
  BY <1>1, <1>2, ConcatEmptySeq DEF Sent
<1>3. ASSUME NEW f \in Frames, sent = <<f>>
      PROVE  Handlers(strand'[e]) = Handlers(strand[e]) /\ Posted(strand'[e]) = Posted(strand[e]) \o sent
  <2>1. Enqueue(f) \in Tasks /\ Enqueue(f).do = "enqueue" /\ sent # <<>> /\ sent[1] = f
    BY <1>3 DEF Enqueue, Tasks
  <2> QED
    BY <1>1, <1>3, <2>1, HandlersPosted, PostedFrame DEF Sent
<1> QED
  BY <1>2, <1>3 DEF Sent

LEMMA SentSending ==
  ASSUME TInv, \A d \in Ends : Sending(d), NEW e \in Ends, NEW sent, Sent(e, sent),
         UNCHANGED <<queue, writing, sock>>,
         \A d \in Ends : Receiving(Peer(d))' =>
           /\ Receiving(Peer(d))
           /\ (Len(wire'[d]) + Ahead(d)') % 2 = (Len(wire[d]) + Ahead(d)) % 2
  PROVE  \A d \in Ends : Sending(d)'
  BY SentHandlers, SameSending

\* What is sent is one frame at most, and no second close frame.
Answers(e, sent) == Sent(e, sent) /\ Channel!Sends(e, sent)

LEMMA NothingAnswers ==
  ASSUME TInv, NEW e \in Ends, UNCHANGED <<closed, strand>>
  PROVE  Answers(e, <<>>)
<1>1. closed' = [closed EXCEPT ![e] = @ \/ (<<>> # <<>> /\ (<<>>)[1].op = "close")]
  BY DEF TInv, WsTypeOK
<1> QED
  BY <1>1 DEF Answers, Sent, Channel!Sends

LEMMA SendAnswers ==
  ASSUME TInv, NEW e \in Ends, NEW f \in Frames, f.op # "close", send(e, f), UNCHANGED closed
  PROVE  Answers(e, <<f>>)
<1>1. <<f>> # <<>> /\ (<<f>>)[1] = f
  OBVIOUS
<1>2. closed' = [closed EXCEPT ![e] = @ \/ (<<f>> # <<>> /\ (<<f>>)[1].op = "close")]
  BY <1>1 DEF TInv, WsTypeOK
<1>3. Sent(e, <<f>>)
  BY <1>1 DEF send, Post, Sent, TInv, WsTypeOK
<1> QED
  BY <1>2, <1>3 DEF Answers, Channel!Sends

\* The close frame marks its end closed.
LEMMA MarkedClosed ==
  ASSUME NEW e, NEW f, f.op = "close", closed' = [closed EXCEPT ![e] = TRUE]
  PROVE  closed' = [closed EXCEPT ![e] = @ \/ (<<f>> # <<>> /\ (<<f>>)[1].op = "close")]
<1>1. <<f>> # <<>> /\ (<<f>>)[1] = f
  OBVIOUS
<1> DEFINE final == <<f>> # <<>> /\ (<<f>>)[1].op = "close"
<1>2. final = TRUE
  BY <1>1
<1> HIDE DEF final
<1>3. closed' = [closed EXCEPT ![e] = closed[e] \/ final]
  BY <1>2
<1> QED
  BY <1>3 DEF final

LEMMA CloseFrameAnswers ==
  ASSUME TInv, NEW e \in Ends, NEW status, [op |-> "close", n |-> status] \in Frames,
         send_close(e, status)
  PROVE  \E sent : /\ Answers(e, sent)
                   /\ sent # <<>> => sent[1].op = "close"
                   /\ sent = <<>> => UNCHANGED <<closed, strand>>
<1>1. CASE closed[e]
  BY <1>1, NothingAnswers DEF send_close
<1>2. CASE ~closed[e]
  <2> DEFINE f == [op |-> "close", n |-> status]
  <2>1. send(e, f) /\ closed' = [closed EXCEPT ![e] = TRUE] /\ f \in Frames
    BY <1>2 DEF send_close
  <2>2. <<f>> # <<>> /\ (<<f>>)[1] = f /\ f.op = "close"
    OBVIOUS
  <2> HIDE DEF f
  <2>3. Sent(e, <<f>>)
    BY <2>1, <2>2 DEF send, Post, Sent, TInv, WsTypeOK
  <2>4. closed' = [closed EXCEPT ![e] = @ \/ (<<f>> # <<>> /\ (<<f>>)[1].op = "close")]
    BY <2>1, <2>2, MarkedClosed
  <2>5. \E g \in Frames : <<f>> = <<g>> /\ ~(g.op = "close" /\ closed[e])
    BY <1>2, <2>1
  <2>6. Channel!Sends(e, <<f>>)
    BY <2>4, <2>5 DEF Channel!Sends
  <2> QED
    BY <2>2, <2>3, <2>6 DEF Answers
<1> QED
  BY <1>1, <1>2

LEMMA CloseAnswers ==
  ASSUME TInv, NEW e \in Ends, NEW status \in {1000, 1002}, send_close(e, status)
  PROVE  \E sent : /\ Answers(e, sent)
                   /\ sent # <<>> => sent[1].op = "close"
                   /\ sent = <<>> => UNCHANGED <<closed, strand>>
<1>1. [op |-> "close", n |-> status] \in Frames
  BY DEF Frames
<1> QED
  BY <1>1, CloseFrameAnswers

MaskedAnswer(e, sent) == e = Server /\ sent # <<>> => sent[1].op # "unmasked"

\* The effect of reading a piece.
LEMMA ReadEffect ==
  ASSUME TInv, NEW e \in Ends, ReadFrame(e)
  PROVE  LET p == Peer(e)
             f == Incoming(e).frame
         IN /\ Opened /\ wire[p] \in Seq(Pieces) /\ wire[p] # <<>> /\ f \in Frames
            /\ wire'[p] = Tail(wire[p]) /\ wire'[e] = wire[e] /\ reader'[p] = reader[p]
            /\ UNCHANGED <<sock, queue, writing, cut>>
            /\ \E sent :
                 /\ Answers(e, sent) /\ MaskedAnswer(e, sent)
                 /\ \/ /\ reader[e] = "header" /\ f.op # "unmasked" /\ reader'[e] = "content"
                       /\ UNCHANGED <<closed, strand>>
                    \/ reader[e] = "header" /\ f.op = "unmasked" /\ reader'[e] = "stopped"
                    \/ /\ reader[e] = "content" /\ f.op # "unmasked"
                       /\ reader'[e] = IF f.op = "close" THEN "stopped" ELSE "header"
<1> DEFINE p == Peer(e)
           f == Incoming(e).frame
           Effect(sent) ==
             /\ Answers(e, sent) /\ MaskedAnswer(e, sent)
             /\ \/ /\ reader[e] = "header" /\ f.op # "unmasked" /\ reader'[e] = "content"
                   /\ UNCHANGED <<closed, strand>>
                \/ reader[e] = "header" /\ f.op = "unmasked" /\ reader'[e] = "stopped"
                \/ /\ reader[e] = "content" /\ f.op # "unmasked"
                   /\ reader'[e] = IF f.op = "close" THEN "stopped" ELSE "header"
<1>1. /\ reader[e] \in {"header", "content"} /\ wire[p] # <<>>
      /\ wire' = [wire EXCEPT ![p] = Tail(@)] /\ p \in Ends /\ p # e
      /\ UNCHANGED <<sock, queue, writing, cut>>
  BY TwoEnds DEF ReadFrame, ReadHeader, ReadContent, Readable, Taken
<1>2. DOMAIN wire = Ends /\ DOMAIN reader = Ends
  BY DEF TInv, WsTypeOK
<1>3. wire'[p] = Tail(wire[p]) /\ wire'[e] = wire[e]
  BY <1>1, <1>2
<1>4. wire[p] \in Seq(Pieces) /\ Opened
  BY <1>1, SendersAreOpen DEF TInv, Handshake
<1>5. f \in Frames
  <2>1. Incoming(e) \in Pieces
    BY <1>1, <1>4 DEF Incoming
  <2> QED
    BY <2>1 DEF Pieces
<1>6. \A what : Reads(e, what) => reader'[e] = what /\ reader'[p] = reader[p]
  BY <1>1, <1>2 DEF Reads
<1>7. ASSUME NEW sent, sent # <<>> => sent[1].op = "close" PROVE MaskedAnswer(e, sent)
  BY <1>7 DEF MaskedAnswer
<1>8. CASE ReadHeader(e)
  <2>1. CASE f.op = "unmasked"
    <3>1. send_close(e, 1002) /\ Reads(e, "stopped") /\ reader[e] = "header"
      BY <1>8, <2>1 DEF ReadHeader, Ended
    <3>2. PICK sent : Answers(e, sent) /\ (sent # <<>> => sent[1].op = "close")
      BY <3>1, CloseAnswers
    <3>3. Effect(sent)
      BY <1>6, <1>7, <2>1, <3>1, <3>2
    <3> QED
      BY <1>1, <1>3, <1>4, <1>5, <1>6, <3>1, <3>3
  <2>2. CASE f.op # "unmasked"
    <3>1. UNCHANGED <<closed, strand>> /\ Reads(e, "content") /\ reader[e] = "header"
      BY <1>8, <2>2 DEF ReadHeader, GoesOn
    <3>2. Answers(e, <<>>) /\ MaskedAnswer(e, <<>>)
      BY <3>1, NothingAnswers DEF MaskedAnswer
    <3>3. Effect(<<>>)
      BY <1>6, <2>2, <3>1, <3>2
    <3> QED
      BY <1>1, <1>3, <1>4, <1>5, <1>6, <3>1, <3>3
  <2> QED
    BY <2>1, <2>2
<1>9. CASE ReadContent(e)
  <2>0. reader[e] = "content"
    BY <1>9 DEF ReadContent
  <2>1. ASSUME f.op = "close", send_close(e, f.n), Ended(e)
        PROVE  \E sent : Effect(sent) /\ reader'[p] = reader[p]
    <3>1. f.n \in {1000, 1002} /\ Reads(e, "stopped")
      BY <1>5, <2>1 DEF Frames, Ended
    <3>2. PICK sent : Answers(e, sent) /\ (sent # <<>> => sent[1].op = "close")
      BY <2>1, <3>1, CloseAnswers
    <3>3. Effect(sent)
      BY <1>6, <1>7, <2>0, <2>1, <3>1, <3>2
    <3> QED
      BY <1>6, <3>1, <3>3
  <2>2. ASSUME NEW g \in Frames, g.op \notin {"close", "unmasked"}, send(e, g), UNCHANGED closed,
               f.op \notin {"close", "unmasked"}, GoesOn(e, "header")
        PROVE  \E sent : Effect(sent) /\ reader'[p] = reader[p]
    <3>1. Reads(e, "header")
      BY <2>2 DEF GoesOn
    <3>2. Answers(e, <<g>>) /\ (<<g>>)[1] = g
      BY <2>2, SendAnswers
    <3>3. Effect(<<g>>)
      BY <1>6, <2>0, <2>2, <3>1, <3>2 DEF MaskedAnswer
    <3> QED
      BY <1>6, <3>1, <3>3
  <2>3. ASSUME f.op = "ping", send(e, [op |-> "pong", n |-> 0]), UNCHANGED closed, GoesOn(e, "header")
        PROVE  \E sent : Effect(sent) /\ reader'[p] = reader[p]
    <3>1. [op |-> "pong", n |-> 0] \in Frames
      BY DEF Frames
    <3> QED
      BY <2>2, <2>3, <3>1
  <2>4. ASSUME f.op \in {"text", "pong"}, OnMessage(e, f), GoesOn(e, "header")
        PROVE  \E sent : Effect(sent) /\ reader'[p] = reader[p]
    <3>1. CASE send(e, [f EXCEPT !.op = "text"]) /\ UNCHANGED closed
      <4>1. [f EXCEPT !.op = "text"] \in Frames /\ [f EXCEPT !.op = "text"].op = "text"
        BY <1>5, <2>4, EchoType
      <4> QED
        BY <2>2, <2>4, <3>1, <4>1
    <3>2. CASE UNCHANGED <<closed, strand>>
      <4>1. Answers(e, <<>>) /\ MaskedAnswer(e, <<>>) /\ Reads(e, "header")
        BY <2>4, <3>2, NothingAnswers DEF MaskedAnswer, GoesOn
      <4>2. Effect(<<>>)
        BY <1>6, <2>0, <2>4, <4>1
      <4> QED
        BY <1>6, <4>1, <4>2
    <3>3. CASE send_close(e, 1000)
      <4>1. PICK sent : Answers(e, sent) /\ (sent # <<>> => sent[1].op = "close")
        BY <3>3, CloseAnswers
      <4>2. Reads(e, "header")
        BY <2>4 DEF GoesOn
      <4>3. Effect(sent)
        BY <1>6, <1>7, <2>0, <2>4, <4>1, <4>2
      <4> QED
        BY <1>6, <4>2, <4>3
    <3> QED
      BY <2>4, <3>1, <3>2, <3>3 DEF OnMessage
  <2>5. \E sent : Effect(sent) /\ reader'[p] = reader[p]
    BY <1>9, <2>1, <2>3, <2>4 DEF ReadContent
  <2> QED
    BY <1>1, <1>3, <1>4, <1>5, <2>5
<1> QED
  BY <1>8, <1>9 DEF ReadFrame

\* The effect of a timeout and of what the client's program does.
LEMMA ProgramEffect ==
  ASSUME TInv, IdleTimeout \/ ClientSends \/ ClientCloses
  PROVE  /\ Opened /\ UNCHANGED <<reader, wire, sock, queue, writing, cut>>
         /\ \E e \in Ends : \E sent :
              /\ Answers(e, sent) /\ MaskedAnswer(e, sent) /\ ~Unused(e)
              /\ sent = <<>> => UNCHANGED <<closed, strand>>
<1>1. Opened /\ UNCHANGED <<reader, wire, sock, queue, writing, cut>>
  BY SendersAreOpen DEF IdleTimeout, ClientSends, ClientCloses
<1>2. ASSUME NEW e \in Ends, send_close(e, 1000), ~Unused(e)
      PROVE  \E sent : /\ Answers(e, sent) /\ MaskedAnswer(e, sent)
                       /\ sent = <<>> => UNCHANGED <<closed, strand>>
  BY <1>2, CloseAnswers DEF MaskedAnswer
<1>3. CASE IdleTimeout
  <2>1. send_close(Server, 1000) /\ ~Unused(Server) /\ Server \in Ends
    BY <1>3, TwoEnds DEF IdleTimeout, Unused
  <2> QED
    BY <1>1, <1>2, <2>1
<1>4. CASE ClientCloses
  <2>1. send_close(Client, 1000) /\ ~Unused(Client) /\ Client \in Ends
    BY <1>4, TwoEnds DEF ClientCloses, Unused
  <2> QED
    BY <1>1, <1>2, <2>1
<1>5. CASE ClientSends
  <2>1. PICK op \in {"text", "ping", "unmasked"} : send(Client, [op |-> op, n |-> sends + 1])
    BY <1>5 DEF ClientSends
  <2> DEFINE f == [op |-> op, n |-> sends + 1]
  <2>2. sends + 1 \in 0..MaxSends
    BY <1>5, WsAssumption DEF ClientSends, TInv, WsTypeOK
  <2>3. f \in Frames /\ f.op # "close"
    BY <2>2 DEF Frames
  <2>4. Answers(Client, <<f>>) /\ MaskedAnswer(Client, <<f>>)
    BY <1>5, <2>1, <2>3, SendAnswers, TwoEnds DEF ClientSends, MaskedAnswer
  <2>5. ~Unused(Client) /\ <<f>> # <<>>
    BY <1>5 DEF ClientSends, Unused
  <2> QED
    BY <1>1, <2>4, <2>5, TwoEnds
<1> QED
  BY <1>3, <1>4, <1>5

\* The handshake leaves nothing of what was said in it to be read as frames.
LEMMA HandshakeEffect ==
  ASSUME TInv, TInv', HandshakeStep
  PROVE  /\ Opening /\ UNCHANGED <<closed, cut>>
         /\ \A d \in Ends : /\ Silent(d)' /\ Ahead(d)' = 0
                            /\ Receiving(Peer(d))' => wire'[d] = <<>>
                            /\ reader'[Peer(d)] = "stopped" \/ Len(wire'[d]) \in {0, 1}
         /\ \E e \in Ends : /\ reader[e] # "stopped"
                            /\ \A d \in Ends \ {e} : reader'[d] = "stopped" <=> reader[d] = "stopped"
<1>0. DOMAIN reader = Ends /\ DOMAIN wire = Ends
  BY DEF TInv, WsTypeOK
<1>1. Opening
  <2>1. ~Opened
    BY TwoEnds DEF HandshakeStep, Connect, ConnectFails, SendRequest, ReadRequest, Open,
                   ReadResponse, DropRequest, ErrorBeforeOpen, Opened
  <2> QED
    BY <2>1 DEF TInv, Handshake
<1>2. UNCHANGED <<closed, cut>>
  BY DEF HandshakeStep, Connect, ConnectFails, SendRequest, ReadRequest, Open, ReadResponse,
         DropRequest, ErrorBeforeOpen, Crash, sending
<1>3. \A d \in Ends : Silent(d)'
  <2>1. CASE ErrorBeforeOpen
    BY <1>1, <2>1 DEF ErrorBeforeOpen, Crash, Opening, Silent, TInv, WInv, Queues
  <2>2. CASE UNCHANGED sending
    BY <1>1, <2>2 DEF sending, Opening, Silent
  <2> QED
    BY <2>1, <2>2 DEF HandshakeStep, Connect, ConnectFails, SendRequest, ReadRequest, Open,
                      ReadResponse, DropRequest
<1> DEFINE Left == /\ Receiving(Server)' => reader'[Server] = "header" /\ wire'[Client] = <<>>
                   /\ Receiving(Client)' => reader'[Client] = "header" /\ wire'[Server] = <<>>
           One == \E e \in Ends : /\ reader[e] # "stopped"
                                  /\ \A d \in Ends \ {e} : reader'[d] = "stopped" <=> reader[d] = "stopped"
<1>4. ASSUME NEW e \in Ends, NEW what, Reads(e, what), reader[e] # "stopped"
      PROVE  One /\ reader'[e] = what /\ \A d \in Ends \ {e} : reader'[d] = reader[d]
  BY <1>0, <1>4 DEF Reads
<1>5. Left /\ One
  <2>1. CASE Connect
    <3>1. \A e \in Ends : reader'[e] = "request"
      BY <2>1 DEF Connect
    <3>2. reader[Client] = "connecting" /\ reader[Server] = "none"
      BY <1>1, <2>1 DEF Connect, Opening
    <3> QED
      BY <3>1, <3>2, TwoEnds DEF Receiving
  <2>2. CASE ConnectFails
    <3>1. Reads(Client, "stopped") /\ reader[Client] = "connecting" /\ reader[Server] = "none"
      BY <1>1, <2>2 DEF ConnectFails, Opening
    <3> QED
      BY <1>4, <3>1, TwoEnds DEF Receiving
  <2>3. CASE SendRequest
    <3>1. /\ Reads(Client, "response") /\ reader[Client] = "request"
          /\ reader[Server] \in {"request", "stopped"}
      BY <1>1, <2>3 DEF SendRequest, Opening
    <3> QED
      BY <1>4, <3>1, TwoEnds DEF Receiving
  <2>4. CASE ReadRequest \/ DropRequest \/ ErrorBeforeOpen
    <3>1. \E what \in {"response", "stopped"} : Reads(Server, what)
      BY <2>4 DEF ReadRequest, DropRequest, ErrorBeforeOpen, Crash
    <3>2. reader[Server] # "stopped" /\ reader[Client] \notin {"header", "content"}
      BY <1>1, <2>4 DEF ReadRequest, DropRequest, ErrorBeforeOpen, Opening
    <3> QED
      BY <1>4, <3>1, <3>2, TwoEnds DEF Receiving
  <2>5. CASE Open
    <3>1. /\ Reads(Server, "header") /\ reader[Server] = "response"
          /\ wire' = [wire EXCEPT ![Server] = Append(@, [op |-> "accepted"])]
      BY <2>5 DEF Open
    <3>2. reader[Client] \notin {"header", "content"} /\ wire[Client] = <<>>
      BY <1>1, <3>1 DEF Opening
    <3>3. wire'[Client] = <<>>
      BY <1>0, <3>1, <3>2, TwoEnds
    <3> QED
      BY <1>4, <3>1, <3>2, <3>3, TwoEnds DEF Receiving
  <2>6. CASE ReadResponse
    <3>1. /\ Reads(Client, "header") /\ reader[Client] = "response" /\ wire[Server] # <<>>
          /\ wire' = [wire EXCEPT ![Server] = Tail(@)]
      BY <2>6, TwoEnds DEF ReadResponse, Readable, Taken
    <3>2. /\ wire[Server] = <<[op |-> "accepted"]>>
          /\ reader[Server] \in {"header", "content"} =>
               reader[Server] = "header" /\ wire[Client] = <<>>
      BY <1>1, <3>1 DEF Opening
    <3>3. wire'[Server] = <<>> /\ wire'[Client] = wire[Client]
      <4>1. Tail(<<[op |-> "accepted"]>>) = <<>>
        OBVIOUS
      <4> QED
        BY <1>0, <3>1, <3>2, <4>1, TwoEnds
    <3> QED
      BY <1>4, <3>1, <3>2, <3>3, TwoEnds DEF Receiving
  <2> QED
    BY <2>1, <2>2, <2>3, <2>4, <2>5, <2>6 DEF HandshakeStep
<1>6. ASSUME NEW d \in Ends
      PROVE  /\ Ahead(d)' = 0
             /\ Receiving(Peer(d))' => wire'[d] = <<>>
             /\ reader'[Peer(d)] = "stopped" \/ Len(wire'[d]) \in {0, 1}
  <2>1. Receiving(Peer(d))' => reader'[Peer(d)] = "header" /\ wire'[d] = <<>>
    BY <1>5, TwoEnds
  <2>2. Ahead(d)' = 0
    BY <2>1 DEF Ahead, Receiving
  <2>3. CASE reader'[Peer(d)] \in {"header", "content"}
    <3>1. Len(<<>>) = 0
      OBVIOUS
    <3> QED
      BY <2>1, <2>2, <2>3, <3>1 DEF Receiving
  <2>4. CASE reader'[Peer(d)] \notin {"header", "content", "stopped"}
    <3>1. Opening'
      BY <2>4, TwoEnds DEF Opened, TInv, Handshake
    <3>2. \A r : Len(<<r>>) = 1 /\ Len(<<>>) = 0
      OBVIOUS
    <3>3. wire'[d] = <<>> \/ \E r : wire'[d] = <<r>>
      BY <3>1, TwoEnds DEF Opening
    <3> QED
      BY <2>1, <2>2, <3>2, <3>3
  <2> QED
    BY <2>1, <2>2, <2>3, <2>4
<1> QED
  BY <1>1, <1>2, <1>3, <1>5, <1>6

\* Steps that neither send, nor write, nor read frames.
Quiet ==
  /\ UNCHANGED <<wire, strand, queue, writing, closed>>
  /\ \A d \in Ends : reader'[d] \in {reader[d], "stopped"}
  /\ \A d \in Ends : sock'[d] = "open" => sock[d] = "open"

LEMMA QuietSteps ==
  ASSUME TInv
  PROVE  /\ \A e \in Ends : Error(e) \/ Release(e) => Quiet
         /\ RequestTimerDue \/ RequestTimeout \/ IdleTimerDue \/ CutOff => Quiet
<1>1. DOMAIN reader = Ends /\ DOMAIN sock = Ends
  BY DEF TInv, WsTypeOK
<1>2. ASSUME NEW e \in Ends, Error(e) PROVE Quiet
  BY <1>1, <1>2 DEF Error, Ended, Reads, Quiet, sending
<1>3. ASSUME NEW e \in Ends, Release(e) PROVE Quiet
  BY <1>1, <1>3, TwoEnds DEF Release, Quiet, sending
<1>4. ASSUME RequestTimerDue \/ IdleTimerDue PROVE Quiet
  BY <1>4 DEF RequestTimerDue, IdleTimerDue, Quiet, sending
<1>5. ASSUME RequestTimeout \/ CutOff PROVE Quiet
  BY <1>5 DEF RequestTimeout, CutOff, Quiet, sending
<1> QED
  BY <1>2, <1>3, <1>4, <1>5

LEMMA QuietReaders ==
  ASSUME TInv, Quiet, NEW d \in Ends, Receiving(d)'
  PROVE  reader'[d] = reader[d] /\ Receiving(d)
BY DEF Quiet, Receiving

LEMMA NextSending ==
  ASSUME TInv, TInv', \A d \in Ends : Sending(d), [WsNext]_wsVars
  PROVE  \A d \in Ends : Sending(d)'
<1>1. ASSUME NEW e \in Ends, ReadFrame(e) PROVE \A d \in Ends : Sending(d)'
  <2> DEFINE p == Peer(e)
             f == Incoming(e).frame
  <2>1. /\ wire[p] \in Seq(Pieces) /\ wire[p] # <<>> /\ wire'[p] = Tail(wire[p])
        /\ wire'[e] = wire[e] /\ reader'[p] = reader[p] /\ UNCHANGED <<sock, queue, writing>>
    BY <1>1, ReadEffect
  <2>2. \E sent :
          /\ Sent(e, sent)
          /\ \/ reader[e] = "header" /\ reader'[e] = "content"
             \/ reader'[e] = "stopped"
             \/ reader[e] = "content" /\ reader'[e] = "header"
    BY <1>1, ReadEffect DEF Answers
  <2>3. Len(wire[p]) \in Nat \ {0} /\ Len(wire'[p]) = Len(wire[p]) - 1
    BY <2>1, EmptySeq, HeadTailProperties
  <2>4. Receiving(e)' => /\ Receiving(e)
                         /\ (Len(wire'[p]) + Ahead(p)') % 2 = (Len(wire[p]) + Ahead(p)) % 2
    <3>1. CASE reader[e] = "header" /\ reader'[e] = "content"
      <4>1. Ahead(p) = 0 /\ Ahead(p)' = 1 /\ Receiving(e)
        BY <3>1, TwoEnds DEF Ahead, Receiving
      <4> QED
        BY <2>3, <4>1
    <3>2. CASE reader[e] = "content" /\ reader'[e] = "header"
      <4>1. Ahead(p) = 1 /\ Ahead(p)' = 0 /\ Receiving(e)
        BY <3>2, TwoEnds DEF Ahead, Receiving
      <4>2. ASSUME NEW n \in Nat PROVE (n + 2) % 2 = (n + 0) % 2
        OBVIOUS
      <4>3. Len(wire'[p]) \in Nat /\ Len(wire[p]) + 1 = Len(wire'[p]) + 2
        BY <2>3
      <4> QED
        BY <4>1, <4>2, <4>3
    <3> QED
      BY <2>2, <3>1, <3>2 DEF Receiving
  <2>5. Ahead(e)' = Ahead(e) /\ Receiving(p)' = Receiving(p)
    BY <2>1, TwoEnds DEF Ahead, Receiving
  <2>6. \A d \in Ends : Receiving(Peer(d))' =>
          /\ Receiving(Peer(d))
          /\ (Len(wire'[d]) + Ahead(d)') % 2 = (Len(wire[d]) + Ahead(d)) % 2
    BY <2>1, <2>4, <2>5, TwoEnds
  <2> QED
    BY <2>1, <2>2, <2>6, SentSending
<1>2. CASE IdleTimeout \/ ClientSends \/ ClientCloses
  <2>1. UNCHANGED <<reader, wire, sock, queue, writing>>
    BY <1>2, ProgramEffect
  <2>2. PICK e \in Ends : \E sent : Answers(e, sent)
    BY <1>2, ProgramEffect
  <2>3. PICK sent : Sent(e, sent)
    BY <2>2 DEF Answers
  <2>4. \A d \in Ends : Receiving(Peer(d))' = Receiving(Peer(d)) /\ Ahead(d)' = Ahead(d)
    BY <2>1 DEF Receiving, Ahead
  <2> QED
    BY <2>1, <2>3, <2>4, SentSending
<1>3. CASE HandshakeStep
  BY <1>3, HandshakeEffect, SilentSending
<1>4. CASE Quiet
  <2>1. ASSUME NEW d \in Ends
        PROVE  Receiving(Peer(d))' => Receiving(Peer(d)) /\ Ahead(d)' = Ahead(d)
    BY <1>4, QuietReaders, TwoEnds DEF Ahead
  <2> QED
    BY <1>4, <2>1, SameSending DEF Quiet
<1>5. CASE ShutdownThrows
  <2>1. Crash
    BY <1>5 DEF ShutdownThrows
  <2>2. /\ Silent(Server)' /\ sock'[Server] = "closed" /\ reader'[Server] = "stopped"
        /\ strand'[Client] = strand[Client] /\ queue'[Client] = queue[Client]
        /\ writing'[Client] = writing[Client] /\ sock'[Client] = sock[Client]
    BY <2>1, TwoEnds DEF Crash, Reads, Silent, TInv, WsTypeOK, WInv, Queues
  <2>3. Sending(Client)'
    BY <2>2, TwoEnds, SameSending DEF Receiving
  <2>4. Sending(Server)'
    <3>1. Handlers(strand'[Server]) = {}
      BY <2>2, EmptySequence DEF Silent, Handlers
    <3> QED
      BY <2>2, <3>1, TwoEnds DEF Silent, Sending
  <2> QED
    BY <2>3, <2>4, TwoEnds
<1>6. CASE UNCHANGED wsVars
  BY <1>4, <1>6 DEF wsVars, Quiet
<1> QED
  BY <1>1, <1>2, <1>3, <1>4, <1>5, <1>6, StrandSending, WriteSending, QuietSteps DEF WsNext, EndStep

-----------------------------------------------------------------------------
(* No frame of the server is masked otherwise than the client expects *)

MaskedFrames == {f \in Frames : f.op # "unmasked"}
MaskedPieces == {x \in Pieces : x.frame \in MaskedFrames}
MaskedTasks == {x \in Tasks : x.do = "enqueue" => x.frame \in MaskedFrames}

Masked ==
  /\ strand[Server] \in Seq(MaskedTasks) /\ queue[Server] \in Seq(MaskedFrames)
  /\ Receiving(Client) => wire[Server] \in Seq(MaskedPieces)

LEMMA MaskedSent ==
  ASSUME strand[Server] \in Seq(MaskedTasks), NEW e \in Ends, NEW sent,
         Sent(e, sent), MaskedAnswer(e, sent)
  PROVE  strand'[Server] \in Seq(MaskedTasks)
<1>1. CASE e # Server \/ sent = <<>>
  BY <1>1, TwoEnds DEF Sent
<1>2. ASSUME NEW f \in Frames, sent = <<f>>, e = Server PROVE strand'[Server] \in Seq(MaskedTasks)
  <2>1. sent # <<>> /\ sent[1] = f /\ f \in MaskedFrames
    BY <1>2 DEF MaskedAnswer, MaskedFrames
  <2>2. Enqueue(f) \in MaskedTasks
    BY <2>1 DEF Enqueue, MaskedTasks, Tasks
  <2>3. strand'[Server] = Append(strand[Server], Enqueue(f))
    BY <1>2, <2>1 DEF Sent
  <2> QED
    BY <2>2, <2>3
<1> QED
  BY <1>1, <1>2 DEF Sent

LEMMA StrandMasked ==
  ASSUME TInv, Masked, NEW e \in Ends, StrandStep(e)
  PROVE  Masked'
<1> DEFINE s == strand[Server]
           q == queue[Server]
<1>1. /\ s \in Seq(MaskedTasks) /\ q \in Seq(MaskedFrames)
      /\ DOMAIN strand = Ends /\ DOMAIN queue = Ends
  BY DEF Masked, TInv, WInv, Queues
<1>2. UNCHANGED <<reader, wire>>
  BY DEF StrandStep
<1>3. \E more : strand' = [strand EXCEPT ![e] = Tail(@) \o more]
  BY DEF StrandStep, EnqueueFrame, send_from_queue, WriteHandler, StrandAfter
<1>4. queue' = queue \/ \E rest : queue' = [queue EXCEPT ![e] = rest]
  BY DEF StrandStep, EnqueueFrame, send_from_queue, WriteHandler
<1>5. CASE e # Server
  <2>1. strand'[Server] = s /\ queue'[Server] = q
    BY <1>1, <1>3, <1>4, <1>5, TwoEnds
  <2> QED
    BY <1>1, <1>2, <2>1 DEF Masked, Receiving
<1>6. CASE e = Server
  <2>1. s # <<>>
    BY <1>6 DEF StrandStep, EnqueueFrame, send_from_queue, WriteHandler, NextTask
  <2>2. Tail(s) \in Seq(MaskedTasks) /\ Head(s) \in MaskedTasks
    BY <1>1, <2>1
  <2>3. Write \in MaskedTasks
    BY DEF Write, MaskedTasks, Tasks
  <2>4. ASSUME NEW more \in {<<>>, <<Write>>}, StrandAfter(Server, more)
        PROVE  strand'[Server] \in Seq(MaskedTasks)
    <3>1. <<>> \in Seq(MaskedTasks) /\ <<Write>> \in Seq(MaskedTasks)
      BY <2>3
    <3>2. strand'[Server] = Tail(s) \o more
      BY <1>1, <2>4, TwoEnds DEF StrandAfter
    <3>3. more \in Seq(MaskedTasks)
      BY <3>1
    <3>4. Tail(s) \o more \in Seq(MaskedTasks)
      BY <2>2, <3>3, ConcatProperties
    <3> QED
      BY <3>2, <3>4
  <2>5. strand'[Server] \in Seq(MaskedTasks)
    BY <1>6, <2>4 DEF StrandStep, EnqueueFrame, send_from_queue, WriteHandler
  <2>6. CASE EnqueueFrame(e)
    <3>1. queue' = [queue EXCEPT ![Server] = Append(@, Head(s).frame)] /\ Head(s).do = "enqueue"
      BY <1>6, <2>6 DEF EnqueueFrame, NextTask
    <3>2. queue'[Server] = Append(q, Head(s).frame) /\ Head(s).frame \in MaskedFrames
      BY <1>1, <2>2, <3>1, TwoEnds DEF MaskedTasks
    <3>3. queue'[Server] \in Seq(MaskedFrames)
      BY <1>1, <3>2
    <3> QED
      BY <1>1, <1>2, <2>5, <3>3 DEF Masked, Receiving
  <2>7. CASE ~EnqueueFrame(e)
    <3>1. \/ queue' = queue \/ queue' = [queue EXCEPT ![Server] = <<>>]
          \/ queue' = [queue EXCEPT ![Server] = Tail(@)] /\ Len(q) > 0
      <4>1. queue[e] # <<>> \/ Handlers(strand[e]) = {}
        BY OneHandler
      <4>2. WriteHandler(e) => queue[e] # <<>>
        <5>1. strand[e] \in Seq(Tasks)
          BY OneHandler
        <5>2. WriteHandler(e) => Head(strand[e]).do = "wrote" /\ strand[e] # <<>>
          BY DEF WriteHandler, NextTask
        <5>3. WriteHandler(e) => 1 \in DOMAIN strand[e] /\ strand[e][1].do = "wrote"
          BY <5>1, <5>2
        <5>4. WriteHandler(e) => Busy(strand[e]) # {}
          BY <5>3 DEF Busy
        <5> QED
          BY <5>4, OneHandler
      <4>3. q # <<>> => Len(q) > 0
        BY <1>1
      <4> QED
        BY <1>6, <2>7, <4>2, <4>3 DEF StrandStep, send_from_queue, WriteHandler
    <3>2. queue'[Server] = q \/ queue'[Server] = <<>> \/ (queue'[Server] = Tail(q) /\ Len(q) > 0)
      BY <1>1, <3>1, TwoEnds
    <3>3. <<>> \in Seq(MaskedFrames) /\ (Len(q) > 0 => Tail(q) \in Seq(MaskedFrames))
      <4>1. Len(q) > 0 => q # <<>>
        BY <1>1
      <4> QED
        BY <1>1, <4>1, HeadTailProperties
    <3>4. queue'[Server] \in Seq(MaskedFrames)
      BY <1>1, <3>2, <3>3
    <3> QED
      BY <1>1, <1>2, <2>5, <3>4 DEF Masked, Receiving
  <2> QED
    BY <2>6, <2>7
<1> QED
  BY <1>5, <1>6

LEMMA WriteMasked ==
  ASSUME TInv, \A d \in Ends : Sending(d), Masked, NEW e \in Ends, WriteCompletes(e)
  PROVE  Masked'
<1>1. PICK w \in [frame : Frames, part : Kinds(e)] :
        /\ w.frame = Head(queue[e]) /\ queue[e] # <<>>
        /\ UNCHANGED <<reader, queue, closed>>
        /\ \A d \in Ends \ {e} : strand'[d] = strand[d] /\ wire'[d] = wire[d]
        /\ IF sock[e] = "open" THEN wire'[e] = wire[e] \o Written(w) ELSE UNCHANGED wire
  BY WriteEffect
<1>2. PICK x \in writing[e] : strand' = [strand EXCEPT ![e] = Append(@, Wrote(x.part, sock[e] = "open"))]
  BY DEF WriteCompletes, Post
<1>3. /\ strand[Server] \in Seq(MaskedTasks) /\ queue[Server] \in Seq(MaskedFrames)
      /\ DOMAIN strand = Ends /\ x.part \in Parts
  BY DEF Masked, TInv, WInv, Queues, WsTypeOK
<1>4. CASE e # Server
  <2>1. strand'[Server] = strand[Server] /\ wire'[Server] = wire[Server]
    BY <1>1, <1>4, TwoEnds
  <2> QED
    BY <1>1, <2>1 DEF Masked, Receiving
<1>5. CASE e = Server
  <2>1. Wrote(x.part, sock[e] = "open") \in MaskedTasks
    BY <1>3 DEF Wrote, MaskedTasks, Tasks
  <2>2. strand'[Server] = Append(strand[Server], Wrote(x.part, sock[e] = "open"))
    BY <1>2, <1>3, <1>5
  <2>3. strand'[Server] \in Seq(MaskedTasks)
    BY <1>3, <2>1, <2>2
  <2>4. w.frame \in MaskedFrames /\ w.part \in {"header", "content"}
    BY <1>1, <1>3, <1>5 DEF Kinds
  <2>5. w \in MaskedPieces /\ Written(w) = <<w>>
    BY <1>1, <2>4 DEF MaskedPieces, MaskedFrames, Pieces, Written
  <2>6. ASSUME wire[Server] \in Seq(MaskedPieces) PROVE wire'[Server] \in Seq(MaskedPieces)
    <3>1. wire'[Server] = wire[Server] \/ wire'[Server] = wire[Server] \o <<w>>
      BY <1>1, <1>5, <2>5
    <3>2. <<w>> \in Seq(MaskedPieces)
      BY <2>5
    <3>3. wire[Server] \o <<w>> \in Seq(MaskedPieces)
      BY <2>6, <3>2, ConcatProperties
    <3> QED
      BY <2>6, <3>1, <3>3
  <2> QED
    BY <1>1, <1>3, <2>3, <2>6 DEF Masked, Receiving
<1> QED
  BY <1>4, <1>5

LEMMA NextMasked ==
  ASSUME TInv, TInv', \A d \in Ends : Sending(d), Masked, [WsNext]_wsVars
  PROVE  Masked'
<1>0. strand[Server] \in Seq(MaskedTasks) /\ queue[Server] \in Seq(MaskedFrames)
  BY DEF Masked
<1>1. ASSUME NEW e \in Ends, ReadFrame(e) PROVE Masked'
  <2>1. /\ wire[Peer(e)] # <<>> /\ wire'[Peer(e)] = Tail(wire[Peer(e)]) /\ wire'[e] = wire[e]
        /\ UNCHANGED queue /\ reader'[Peer(e)] = reader[Peer(e)]
        /\ \E sent : Answers(e, sent) /\ MaskedAnswer(e, sent)
    BY <1>1, ReadEffect
  <2>2. strand'[Server] \in Seq(MaskedTasks)
    BY <1>0, <2>1, MaskedSent DEF Answers
  <2>3. reader[e] \in {"header", "content"}
    BY <1>1 DEF ReadFrame, ReadHeader, ReadContent
  <2>4. Receiving(Client)' => Receiving(Client)
    BY <2>1, <2>3, TwoEnds DEF Receiving
  <2>5. Receiving(Client) => wire'[Server] \in Seq(MaskedPieces)
    <3>1. CASE e = Server
      BY <2>1, <3>1, TwoEnds DEF Masked
    <3>2. CASE e = Client
      <4>1. wire[Server] # <<>> /\ wire'[Server] = Tail(wire[Server])
        BY <2>1, <3>2, TwoEnds
      <4>2. wire[Server] \in Seq(MaskedPieces) => Tail(wire[Server]) \in Seq(MaskedPieces)
        BY <4>1, HeadTailProperties
      <4> QED
        BY <4>1, <4>2 DEF Masked
    <3> QED
      BY <3>1, <3>2, TwoEnds
  <2> QED
    BY <1>0, <2>1, <2>2, <2>4, <2>5 DEF Masked
<1>2. CASE IdleTimeout \/ ClientSends \/ ClientCloses
  <2>1. UNCHANGED <<reader, wire, queue>>
    BY <1>2, ProgramEffect
  <2>2. PICK e \in Ends : \E sent : Answers(e, sent) /\ MaskedAnswer(e, sent)
    BY <1>2, ProgramEffect
  <2>3. strand'[Server] \in Seq(MaskedTasks)
    BY <1>0, <2>2, MaskedSent DEF Answers
  <2> QED
    BY <2>1, <2>3 DEF Masked, Receiving
<1>3. CASE HandshakeStep
  <2>1. Silent(Server)' /\ (Receiving(Client)' => wire'[Server] = <<>>)
    BY <1>3, HandshakeEffect, TwoEnds
  <2>2. <<>> \in Seq(MaskedTasks) /\ <<>> \in Seq(MaskedFrames) /\ <<>> \in Seq(MaskedPieces)
    OBVIOUS
  <2> QED
    BY <2>1, <2>2 DEF Silent, Masked
<1>4. CASE Quiet
  <2>1. Receiving(Client)' => Receiving(Client)
    BY <1>4, QuietReaders, TwoEnds
  <2> QED
    BY <1>4, <2>1 DEF Masked, Quiet
<1>5. CASE ShutdownThrows
  <2>1. Crash
    BY <1>5 DEF ShutdownThrows
  <2>2. /\ strand'[Server] = <<>> /\ queue'[Server] = <<>> /\ wire' = wire
        /\ reader'[Client] = reader[Client]
    BY <2>1, TwoEnds DEF Crash, Reads, TInv, WsTypeOK
  <2> QED
    BY <2>2 DEF Masked, Receiving
<1>6. CASE UNCHANGED wsVars
  BY <1>4, <1>6 DEF wsVars, Quiet
<1> QED
  BY <1>1, <1>2, <1>3, <1>4, <1>5, <1>6, StrandMasked, WriteMasked, QuietSteps DEF WsNext, EndStep

\* The client writes the header and the content of a frame at once.
Pairs ==
  Receiving(Server) =>
    \A i \in 1..(Len(wire[Client]) - 1) :
      (i + Ahead(Client)) % 2 = 1 => wire[Client][i].frame = wire[Client][i + 1].frame

LEMMA SamePairs ==
  ASSUME Pairs, wire'[Client] = wire[Client],
         Receiving(Server)' => reader'[Server] = reader[Server]
  PROVE  Pairs'
BY TwoEnds DEF Pairs, Receiving, Ahead

LEMMA WritePairs ==
  ASSUME TInv, \A d \in Ends : Sending(d), Pairs, NEW e \in Ends, WriteCompletes(e)
  PROVE  Pairs'
<1>1. PICK w \in [frame : Frames, part : Kinds(e)] :
        /\ writing[e] = {w} /\ Handlers(strand[e]) = {}
        /\ UNCHANGED reader /\ \A d \in Ends \ {e} : wire'[d] = wire[d]
        /\ IF sock[e] = "open" THEN wire'[e] = wire[e] \o Written(w) ELSE UNCHANGED wire
  BY WriteEffect
<1>2. CASE wire'[Client] = wire[Client]
  BY <1>1, <1>2, SamePairs
<1>3. CASE wire'[Client] # wire[Client]
  <2> DEFINE old == wire[Client]
             new == wire'[Client]
             h == [frame |-> w.frame, part |-> "header"]
             c == [frame |-> w.frame, part |-> "content"]
  <2>1. e = Client /\ w.part = "all" /\ new = old \o <<h, c>>
    BY <1>1, <1>3, TwoEnds DEF Kinds, Written
  <2> SUFFICES ASSUME Receiving(Server), NEW i \in 1..(Len(new) - 1), (i + Ahead(Client)) % 2 = 1
               PROVE  new[i].frame = new[i + 1].frame
    BY <1>1, TwoEnds DEF Pairs, Receiving, Ahead
  <2>2. old \in Seq(Pieces) /\ Len(old) \in Nat /\ h \in Pieces /\ c \in Pieces
    BY TwoEnds, LenProperties DEF Receiving, TInv, Handshake, Pieces
  <2>3. /\ Len(new) = Len(old) + 2 /\ \A k \in 1..Len(old) : new[k] = old[k]
        /\ new[Len(old) + 1] = h /\ new[Len(old) + 2] = c
    <3>1. <<h, c>> \in Seq(Pieces) /\ Len(<<h, c>>) = 2 /\ <<h, c>>[1] = h /\ <<h, c>>[2] = c
      BY <2>2
    <3> QED
      BY <2>1, <2>2, <3>1, ConcatProperties
  <2>4. ~HalfWritten(Client)
    BY <1>1, <2>1 DEF HalfWritten
  <2>5. Ahead(Client) \in {0, 1} /\ (Len(old) + Ahead(Client)) % 2 # 1
    BY <2>4, TwoEnds DEF Sending, Ahead
  <2>6. i # Len(old)
    BY <2>5
  <2>7. CASE i = Len(old) + 1
    <3>1. new[i] = h /\ new[i + 1] = c
      <4>1. i + 1 = Len(old) + 2
        BY <2>2, <2>7
      <4> QED
        BY <2>3, <2>7, <4>1
    <3>2. h.frame = c.frame
      OBVIOUS
    <3> QED
      BY <3>1, <3>2
  <2>8. CASE i \in 1..(Len(old) - 1)
    <3>1. old[i].frame = old[i + 1].frame
      BY <2>8 DEF Pairs
    <3>2. i \in 1..Len(old) /\ i + 1 \in 1..Len(old)
      BY <2>2, <2>8
    <3>3. new[i] = old[i] /\ new[i + 1] = old[i + 1]
      BY <2>3, <3>2
    <3> QED
      BY <3>1, <3>3
  <2>9. i \in 1..(Len(old) + 1)
    BY <2>2, <2>3
  <2>10. i \in 1..(Len(old) - 1) \/ i = Len(old) + 1
    BY <2>2, <2>6, <2>9
  <2> QED
    BY <2>7, <2>8, <2>10
<1> QED
  BY <1>2, <1>3

LEMMA ReadPairs ==
  ASSUME TInv, Pairs, NEW e \in Ends, ReadFrame(e)
  PROVE  Pairs'
<1>1. /\ wire[Peer(e)] \in Seq(Pieces) /\ wire[Peer(e)] # <<>>
      /\ wire'[Peer(e)] = Tail(wire[Peer(e)]) /\ wire'[e] = wire[e]
      /\ reader'[Peer(e)] = reader[Peer(e)]
      /\ \/ reader[e] = "header" /\ reader'[e] = "content"
         \/ reader'[e] = "stopped"
         \/ reader[e] = "content" /\ reader'[e] = "header"
  BY ReadEffect
<1>2. CASE e = Client
  BY <1>1, <1>2, SamePairs, TwoEnds
<1>3. CASE e = Server
  <2> DEFINE old == wire[Client]
             new == wire'[Client]
  <2>1. old \in Seq(Pieces) /\ old # <<>> /\ new = Tail(old)
    BY <1>1, <1>3, TwoEnds
  <2>2. Len(old) \in Nat \ {0} /\ Len(new) = Len(old) - 1
        /\ \A i \in 1..(Len(old) - 1) : new[i] = old[i + 1]
    BY <2>1, EmptySeq, HeadTailProperties
  <2> SUFFICES ASSUME Receiving(Server)', NEW i \in 1..(Len(new) - 1), (i + Ahead(Client)') % 2 = 1
               PROVE  new[i].frame = new[i + 1].frame
    BY DEF Pairs
  <2>3. Receiving(Server) /\ ((i + 1) + Ahead(Client)) % 2 = 1
    <3>1. CASE reader[Server] = "header" /\ reader'[Server] = "content"
      <4>1. Ahead(Client) = 0 /\ Ahead(Client)' = 1 /\ Receiving(Server)
        BY <3>1, TwoEnds DEF Ahead, Receiving
      <4> QED
        BY <2>2, <4>1
    <3>2. CASE reader[Server] = "content" /\ reader'[Server] = "header"
      <4>1. Ahead(Client) = 1 /\ Ahead(Client)' = 0 /\ Receiving(Server)
        BY <3>2, TwoEnds DEF Ahead, Receiving
      <4>2. i \in Int /\ (i + 0) % 2 = 1
        BY <4>1
      <4>3. ((i + 1) + 1) % 2 = (i + 0) % 2
        BY <4>2
      <4> QED
        BY <4>1, <4>2, <4>3
    <3> QED
      BY <1>1, <1>3, <3>1, <3>2 DEF Receiving
  <2>4. i + 1 \in 1..(Len(old) - 1) /\ i \in 1..(Len(old) - 1)
    BY <2>2
  <2>5. old[i + 1].frame = old[(i + 1) + 1].frame
    BY <2>3, <2>4 DEF Pairs
  <2> QED
    BY <2>2, <2>4, <2>5
<1> QED
  BY <1>2, <1>3, TwoEnds

LEMMA NextPairs ==
  ASSUME TInv, TInv', \A d \in Ends : Sending(d), Pairs, [WsNext]_wsVars
  PROVE  Pairs'
<1>1. ASSUME NEW e \in Ends, StrandStep(e) PROVE Pairs'
  BY <1>1, SamePairs DEF StrandStep
<1>2. CASE IdleTimeout \/ ClientSends \/ ClientCloses
  BY <1>2, ProgramEffect, SamePairs
<1>3. CASE HandshakeStep
  <2>1. Receiving(Server)' => wire'[Client] = <<>>
    BY <1>3, HandshakeEffect, TwoEnds
  <2>2. Len(<<>>) = 0
    OBVIOUS
  <2> QED
    BY <2>1, <2>2 DEF Pairs
<1>4. CASE Quiet
  BY <1>4, QuietReaders, SamePairs, TwoEnds DEF Quiet
<1>5. CASE ShutdownThrows
  <2>1. reader'[Server] = "stopped"
    BY <1>5, TwoEnds DEF ShutdownThrows, Crash, Reads, TInv, WsTypeOK
  <2> QED
    BY <2>1 DEF Pairs, Receiving
<1>6. CASE UNCHANGED wsVars
  BY <1>4, <1>6 DEF wsVars, Quiet
<1> QED
  BY <1>1, <1>2, <1>3, <1>4, <1>5, <1>6, WritePairs, ReadPairs, QuietSteps DEF WsNext, EndStep

\* A socket breaks by a cut, and one that is closed without a cut has nothing left to do.
SocketOf(e) ==
  /\ sock[e] = "none" => reader[Server] = "none"
  /\ sock[e] = "reset" => cut
  /\ sock[e] = "closed" /\ ~cut => Unused(e)

\* What an end does, that has something to do, changes nothing of the other.
LEMMA ActorSockets ==
  ASSUME \A d \in Ends : SocketOf(d), NEW a \in Ends, ~Unused(a), UNCHANGED <<sock, cut>>,
         \A d \in Ends \ {a} : /\ reader'[d] = reader[d] /\ strand'[d] = strand[d]
                               /\ writing'[d] = writing[d]
                               /\ d = Server => UNCHANGED timers,
         reader[Server] = "none" => reader'[Server] = "none"
  PROVE  \A d \in Ends : SocketOf(d)'
<1>1. SocketOf(a)'
  BY DEF SocketOf
<1>2. ASSUME NEW d \in Ends \ {a} PROVE SocketOf(d)'
  <2>1. Unused(d) => Unused(d)'
    BY <1>2 DEF Unused, timers
  <2> QED
    BY <2>1 DEF SocketOf
<1> QED
  BY <1>1, <1>2

LEMMA CrashSockets ==
  ASSUME TInv, \A d \in Ends : SocketOf(d), reader[Server] # "none", Crash
  PROVE  \A d \in Ends : SocketOf(d)'
<1>1. /\ reader'[Server] = "stopped" /\ reader'[Client] = reader[Client]
      /\ sock'[Server] = "closed" /\ sock'[Client] = sock[Client]
      /\ strand'[Server] = <<>> /\ strand'[Client] = strand[Client]
      /\ writing'[Server] = {} /\ writing'[Client] = writing[Client]
      /\ requestTimer' = "off" /\ idleTimer' = "off" /\ cut' = cut
  BY TwoEnds DEF Crash, Reads, TInv, WsTypeOK, WInv, Queues
<1>2. SocketOf(Server)'
  BY <1>1 DEF SocketOf, Unused
<1>3. SocketOf(Client)'
  <2>1. Unused(Client) => Unused(Client)'
    BY <1>1, TwoEnds DEF Unused
  <2> QED
    BY <1>1, <2>1, TwoEnds DEF SocketOf
<1> QED
  BY <1>2, <1>3, TwoEnds

LEMMA NextSockets ==
  ASSUME TInv, \A d \in Ends : Sending(d), \A d \in Ends : SocketOf(d), [WsNext]_wsVars
  PROVE  \A d \in Ends : SocketOf(d)'
<1> DEFINE Goal == \A d \in Ends : SocketOf(d)'
<1>0. /\ DOMAIN reader = Ends /\ DOMAIN strand = Ends /\ DOMAIN writing = Ends /\ DOMAIN sock = Ends
  BY DEF TInv, WsTypeOK, WInv, Queues
<1>1. ASSUME NEW e \in Ends, StrandStep(e) PROVE Goal
  <2>1. ~Unused(e) /\ UNCHANGED <<reader, sock, cut, timers>>
    BY <1>1 DEF StrandStep, EnqueueFrame, send_from_queue, WriteHandler, NextTask, Unused
  <2>2. \A d \in Ends \ {e} : strand'[d] = strand[d] /\ writing'[d] = writing[d]
    BY <1>0, <1>1 DEF StrandStep, EnqueueFrame, send_from_queue, WriteHandler, StrandAfter, StartsWrite
  <2> QED
    BY <2>1, <2>2, ActorSockets
<1>2. ASSUME NEW e \in Ends, WriteCompletes(e) PROVE Goal
  <2>1. /\ ~Unused(e) /\ UNCHANGED <<reader, timers>>
        /\ \A d \in Ends \ {e} : /\ strand'[d] = strand[d] /\ writing'[d] = writing[d]
                                 /\ sock'[d] = sock[d]
    BY <1>2, WriteEffect DEF WriteCompletes, Unused
  <2>2. \/ UNCHANGED <<sock, cut>>
        \/ sock[e] = "open" /\ sock'[e] = "open" /\ (cut => cut')
        \/ sock[e] = "open" /\ sock'[e] = "reset" /\ cut'
    <3>1. IF sock[e] = "open"
          THEN /\ sock'[e] = IF sock[Peer(e)] = "closed" THEN "reset" ELSE sock[e]
               /\ cut' = (cut \/ sock[Peer(e)] = "closed")
          ELSE UNCHANGED <<wire, sock, cut>>
      BY <1>2, WriteEffect
    <3> QED
      BY <3>1
  <2>3. SocketOf(e)'
    BY <2>1, <2>2 DEF SocketOf
  <2>4. ASSUME NEW d \in Ends \ {e} PROVE SocketOf(d)'
    <3>1. Unused(d) => Unused(d)'
      BY <2>1 DEF Unused, timers
    <3> QED
      BY <2>1, <2>2, <3>1 DEF SocketOf
  <2> QED
    BY <2>3, <2>4
<1>3. ASSUME NEW e \in Ends, ReadFrame(e) PROVE Goal
  <2>1. /\ reader'[Peer(e)] = reader[Peer(e)] /\ UNCHANGED <<sock, writing, cut>> /\ Opened
        /\ \E sent : Answers(e, sent)
    BY <1>3, ReadEffect
  <2>2. strand'[Peer(e)] = strand[Peer(e)]
    BY <2>1, TwoEnds DEF Answers, Sent
  <2>3. ~Unused(e) /\ reader[Server] # "none"
    BY <1>3, <2>1, TwoEnds DEF ReadFrame, ReadHeader, ReadContent, Unused, Opened
  <2>4. e = Client => UNCHANGED timers
    BY <1>3, TwoEnds DEF ReadFrame, ReadHeader, ReadContent, Ended, GoesOn, timers
  <2> QED
    BY <2>1, <2>2, <2>3, <2>4, ActorSockets, TwoEnds
<1>4. ASSUME NEW e \in Ends, Error(e) PROVE Goal
  <2>1. /\ ~Unused(e) /\ UNCHANGED <<sock, cut, strand, writing>> /\ (e = Server => reader[e] # "none")
        /\ Reads(e, "stopped") /\ (e = Client => UNCHANGED timers)
    BY <1>4, TwoEnds DEF Error, Ended, Unused, sending, timers
  <2> QED
    BY <1>0, <2>1, ActorSockets, TwoEnds DEF Reads
<1>5. ASSUME NEW e \in Ends, Release(e) PROVE Goal
  <2> DEFINE abrupt == wire[Peer(e)] # <<>> /\ sock[Peer(e)] = "open"
  <2>1. /\ Unused(e) /\ sock[e] \in {"open", "reset"} /\ UNCHANGED <<reader, strand, writing, timers>>
        /\ sock'[e] = "closed" /\ sock'[Peer(e)] = IF abrupt THEN "reset" ELSE sock[Peer(e)]
        /\ cut' = (cut \/ abrupt)
    BY <1>0, <1>5, TwoEnds DEF Release, sending
  <2>2. \A d \in Ends : Unused(d) => Unused(d)'
    BY <2>1 DEF Unused, timers
  <2>3. SocketOf(e)'
    BY <2>1, <2>2 DEF SocketOf
  <2>4. SocketOf(Peer(e))'
    BY <2>1, <2>2, TwoEnds DEF SocketOf
  <2> QED
    BY <2>3, <2>4, TwoEnds
<1>6. CASE RequestTimerDue \/ IdleTimerDue
  <2>1. ~Unused(Server) /\ UNCHANGED <<reader, strand, writing, sock, cut>>
    BY <1>6, TwoEnds DEF RequestTimerDue, IdleTimerDue, Unused, sending
  <2> QED
    BY <2>1, ActorSockets, TwoEnds
<1>7. CASE RequestTimeout
  <2>1. /\ cut' /\ UNCHANGED reader /\ sock'[Server] = "closed"
        /\ sock'[Client] = "none" => sock[Client] = "none"
    BY <1>7, TwoEnds DEF RequestTimeout
  <2> QED
    BY <2>1, TwoEnds DEF SocketOf
<1>8. CASE ShutdownThrows
  <2>1. Crash /\ requestTimer = "due"
    BY <1>8 DEF ShutdownThrows
  <2>2. reader[Server] # "none"
    BY <2>1, TwoEnds DEF TInv, Handshake, Opened, Opening
  <2> QED
    BY <2>1, <2>2, CrashSockets
<1>9. CASE IdleTimeout
  <2>1. /\ UNCHANGED <<reader, writing, sock, cut>> /\ ~Unused(Server)
        /\ strand'[Client] = strand[Client]
    BY <1>0, <1>9, TwoEnds DEF IdleTimeout, Unused, send_close, send, Post
  <2> QED
    BY <2>1, ActorSockets, TwoEnds
<1>10. CASE ClientSends \/ ClientCloses
  <2>1. /\ UNCHANGED <<reader, writing, sock, cut, timers>> /\ ~Unused(Client)
        /\ strand'[Server] = strand[Server]
    BY <1>0, <1>10, TwoEnds DEF ClientSends, ClientCloses, Unused, send_close, send, Post
  <2> QED
    BY <2>1, ActorSockets, TwoEnds
<1>11. CASE CutOff
  BY <1>11 DEF CutOff, SocketOf
<1>12. CASE Connect
  BY <1>12 DEF Connect, SocketOf
<1>13. CASE ConnectFails \/ SendRequest \/ ReadResponse
  <2>1. /\ ~Unused(Client) /\ UNCHANGED <<sock, cut, strand, writing, timers>>
        /\ \E what : Reads(Client, what)
    BY <1>13 DEF ConnectFails, SendRequest, ReadResponse, Unused, sending
  <2> QED
    BY <1>0, <2>1, ActorSockets, TwoEnds DEF Reads
<1>14. CASE ReadRequest \/ DropRequest \/ Open
  <2>1. /\ ~Unused(Server) /\ UNCHANGED <<sock, cut, strand, writing>> /\ reader[Server] # "none"
        /\ \E what : Reads(Server, what)
    BY <1>14 DEF ReadRequest, DropRequest, Open, Unused, sending
  <2> QED
    BY <1>0, <2>1, ActorSockets, TwoEnds DEF Reads
<1>15. CASE ErrorBeforeOpen
  BY <1>15, CrashSockets DEF ErrorBeforeOpen
<1>16. CASE UNCHANGED wsVars
  BY <1>16 DEF wsVars, SocketOf, Unused, sending, timers
<1> QED
  BY <1>1, <1>2, <1>3, <1>4, <1>5, <1>6, <1>7, <1>8, <1>9, <1>10, <1>11, <1>12, <1>13, <1>14,
     <1>15, <1>16 DEF WsNext, EndStep, HandshakeStep

-----------------------------------------------------------------------------
(* The connection implements a pair of channels *)

CInv ==
  /\ TInv /\ Masked /\ Pairs
  /\ \A e \in Ends : Sending(e) /\ SocketOf(e)

LEMMA InitConnection == WsInit => CInv
<1> SUFFICES ASSUME WsInit PROVE CInv
  OBVIOUS
<1>1. TInv
  BY InitHandshake
<1>2. \A e \in Ends : Silent(e) /\ ~Receiving(e)
  BY DEF WsInit, Silent, Receiving
<1>3. ASSUME NEW e \in Ends PROVE Sending(e)
  <2>1. Handlers(strand[e]) = {} /\ writing[e] = {}
    BY <1>2, EmptySequence DEF Silent, Handlers
  <2> QED
    BY <1>2, <2>1, TwoEnds DEF Sending
<1>4. ASSUME NEW e \in Ends PROVE SocketOf(e)
  BY TwoEnds DEF WsInit, SocketOf
<1>5. Masked
  <2>1. <<>> \in Seq(MaskedTasks) /\ <<>> \in Seq(MaskedFrames)
    OBVIOUS
  <2> QED
    BY <1>2, <2>1, TwoEnds DEF Masked, Silent
<1>6. Pairs
  BY <1>2, TwoEnds DEF Pairs
<1> QED
  BY <1>1, <1>3, <1>4, <1>5, <1>6 DEF CInv

LEMMA NextConnection == CInv /\ [WsNext]_wsVars => CInv'
<1> SUFFICES ASSUME CInv, [WsNext]_wsVars PROVE CInv'
  OBVIOUS
<1>1. TInv'
  BY NextKeepsTypes, NextWriters DEF CInv, TInv
<1> QED
  BY <1>1, NextSending, NextMasked, NextPairs, NextSockets DEF CInv

-----------------------------------------------------------------------------
(* What is in flight *)

LEMMA NothingOnWire ==
  ASSUME NEW w, Len(w) \in {0, 1}
  PROVE  Contents(w, 0) = <<>>
<1>1. PICK k \in Nat : k = (Len(w) + 0) \div 2 /\ (Len(w) + 0 = 2 * k \/ Len(w) + 0 = 2 * k + 1)
  BY Halves
<1>2. k = 0
  <2> DEFINE n == Len(w) + 0
  <2>1. n = 0 \/ n = 1
    OBVIOUS
  <2>2. n = 2 * k \/ n = 2 * k + 1
    BY <1>1
  <2> HIDE DEF n
  <2> QED
    BY <2>1, <2>2
<1> QED
  BY <1>1, <1>2 DEF Contents

LEMMA WroteHeadHandlers ==
  ASSUME NEW e \in Ends
  PROVE  WroteHead(e) <=>
           \E x \in Handlers(strand[e]) : x.do = "wrote" /\ x.ok /\ x.part # "header"
BY DEF WroteHead, Handlers, Busy

LEMMA SilentWaits ==
  ASSUME NEW e \in Ends
  PROVE  /\ Silent(e) => Waiting(e) = <<>>
         /\ Silent(e)' => Waiting(e)' = <<>>
<1>1. <<>> \in Seq(Tasks) /\ <<>> \in Seq(Frames) /\ Busy(<<>>) = {} /\ DOMAIN <<>> = {} /\ Len(<<>>) = 0
  BY EmptySequence, EmptySeq
<1>2. Posted(<<>>) = <<>>
  <2>1. Posted(<<>>) \in Seq(Frames) /\ Len(Posted(<<>>)) = 0
    BY <1>1, PostedType DEF OneBusy
  <2> QED
    BY <2>1, EmptySeq
<1>3. <<>> \o <<>> = <<>>
  BY <1>1, ConcatEmptySeq
<1>4. Silent(e) => ~WroteHead(e) /\ queue[e] = <<>> /\ strand[e] = <<>>
  BY <1>1 DEF Silent, WroteHead
<1>5. Silent(e)' => ~WroteHead(e)' /\ queue'[e] = <<>> /\ strand'[e] = <<>>
  BY <1>1 DEF Silent, WroteHead
<1> QED
  BY <1>2, <1>3, <1>4, <1>5 DEF Waiting

LEMMA WaitingType ==
  ASSUME TInv, NEW e \in Ends
  PROVE  /\ Waiting(e) \in Seq(Frames)
         /\ queue[e] \in Seq(Frames) /\ Posted(strand[e]) \in Seq(Frames)
         /\ WroteHead(e) => queue[e] # <<>>
<1>1. queue[e] \in Seq(Frames) /\ Posted(strand[e]) \in Seq(Frames)
  BY OneHandler, PostedType
<1>2. WroteHead(e) => queue[e] # <<>>
  BY WroteHeadHandlers, OneHandler
<1>3. CASE WroteHead(e)
  <2>1. Tail(queue[e]) \in Seq(Frames)
    BY <1>1, <1>2, <1>3, HeadTailProperties
  <2> QED
    BY <1>1, <1>2, <1>3, <2>1, ConcatProperties DEF Waiting
<1>4. CASE ~WroteHead(e)
  BY <1>1, <1>4, ConcatProperties DEF Waiting
<1> QED
  BY <1>3, <1>4

\* Nothing is, during the handshake.
LEMMA OpeningFlight ==
  ASSUME Opening, NEW e \in Ends
  PROVE  OnWire(e) = <<>> /\ Waiting(e) = <<>> /\ InFlight(e) = <<>>
<1>1. Silent(e) /\ Ahead(e) = 0
  BY TwoEnds DEF Opening, Ahead
<1>2. Len(wire[e]) \in {0, 1}
  <2>1. \A r : Len(<<r>>) = 1 /\ Len(<<>>) = 0
    OBVIOUS
  <2>2. wire[e] = <<>> \/ \E r : wire[e] = <<r>>
    BY TwoEnds DEF Opening
  <2> QED
    BY <2>1, <2>2
<1>3. OnWire(e) = <<>> /\ Waiting(e) = <<>>
  BY <1>1, <1>2, NothingOnWire, SilentWaits DEF OnWire
<1> QED
  BY <1>3, EmptySeq, ConcatEmptySeq DEF InFlight

\* Something is in flight only to an end that reads frames.
LEMMA InFlightType ==
  ASSUME TInv, NEW e \in Ends
  PROVE  /\ InFlight(e) \in Seq(Frames) /\ Waiting(e) \in Seq(Frames)
         /\ ~Receiving(Peer(e)) => InFlight(e) = <<>>
         /\ Receiving(Peer(e)) => wire[e] \in Seq(Pieces) /\ Ahead(e) \in {0, 1}
         /\ reader[Peer(e)] # "stopped" =>
              /\ OnWire(e) \in Seq(Frames)
              /\ InFlight(e) = IF sock[e] = "open" THEN OnWire(e) \o Waiting(e) ELSE OnWire(e)
<1>0. Waiting(e) \in Seq(Frames)
  BY WaitingType
<1>1. CASE Receiving(Peer(e))
  <2>1. wire[e] \in Seq(Pieces) /\ Ahead(e) \in {0, 1}
    BY <1>1, TwoEnds DEF Receiving, TInv, Handshake, Ahead
  <2>2. OnWire(e) \in Seq(Frames)
    BY <2>1, ContentsType DEF OnWire
  <2>3. InFlight(e) = IF sock[e] = "open" THEN OnWire(e) \o Waiting(e) ELSE OnWire(e)
    BY <1>1 DEF InFlight, Receiving
  <2> QED
    BY <1>0, <1>1, <2>1, <2>2, <2>3, ConcatProperties
<1>2. CASE reader[Peer(e)] = "stopped"
  BY <1>0, <1>2, EmptySeq DEF InFlight, Receiving
<1>3. CASE ~Receiving(Peer(e)) /\ reader[Peer(e)] # "stopped"
  <2>1. Opening
    BY <1>3, TwoEnds DEF Opened, TInv, Handshake, Receiving
  <2>2. OnWire(e) = <<>> /\ Waiting(e) = <<>> /\ InFlight(e) = <<>>
    BY <2>1, OpeningFlight
  <2> QED
    BY <1>3, <2>2, EmptySeq, ConcatEmptySeq
<1> QED
  BY <1>1, <1>2, <1>3

\* What does not change leaves what is in flight as it is.
LEMMA SameWaiting ==
  ASSUME NEW e \in Ends, queue'[e] = queue[e], Handlers(strand'[e]) = Handlers(strand[e])
  PROVE  WroteHead(e)' = WroteHead(e)
<1>1. WroteHead(e) <=>
        \E x \in Handlers(strand[e]) : x.do = "wrote" /\ x.ok /\ x.part # "header"
  BY DEF WroteHead, Handlers, Busy
<1>2. WroteHead(e)' <=>
        \E x \in Handlers(strand'[e]) : x.do = "wrote" /\ x.ok /\ x.part # "header"
  BY DEF WroteHead, Handlers, Busy
<1>3. WroteHead(e) \in BOOLEAN /\ WroteHead(e)' \in BOOLEAN
  BY DEF WroteHead
<1> QED
  BY <1>1, <1>2, <1>3

LEMMA SameInFlight ==
  ASSUME NEW e \in Ends, reader'[Peer(e)] = reader[Peer(e)], wire'[e] = wire[e],
         sock'[e] = sock[e], queue'[e] = queue[e], strand'[e] = strand[e]
  PROVE  InFlight(e)' = InFlight(e)
<1>1. OnWire(e)' = OnWire(e)
  BY DEF OnWire, Ahead
<1>2. Waiting(e)' = Waiting(e)
  BY DEF Waiting, WroteHead
<1> QED
  BY <1>1, <1>2 DEF InFlight

-----------------------------------------------------------------------------
(* The steps of the channels *)

\* The channels that the connection shows.
Flights == [e \in Ends |-> InFlight(e)]
Over == [e \in Ends |-> reader[Peer(e)] = "stopped"]

LEMMA Stutters ==
  ASSUME \A d \in Ends : InFlight(d)' = InFlight(d),
         \A d \in Ends : (reader'[d] = "stopped") = (reader[d] = "stopped"),
         UNCHANGED <<closed, cut>>
  PROVE  UNCHANGED Channel!channelVars
<1>1. Flights' = Flights
  BY DEF Flights
<1>2. Over' = Over
  BY TwoEnds DEF Over
<1> QED
  BY <1>1, <1>2 DEF Channel!channelVars, Flights, Over

LEMMA GivesUp ==
  ASSUME TInv, NEW e \in Ends, reader'[e] = "stopped",
         \A d \in Ends \ {e} : /\ (reader'[d] = "stopped") = (reader[d] = "stopped")
                               /\ InFlight(e)' = InFlight(e),
         cut' \/ InFlight(Peer(e)) = <<>>, cut => cut', closed' = closed
  PROVE  Channel!GiveUp(Peer(e))
<1> DEFINE p == Peer(e)
<1>1. p \in Ends /\ p # e /\ Ends = {p, e} /\ Peer(p) = e
  BY TwoEnds
<1>2. Flights' = [Flights EXCEPT ![p] = <<>>]
  <2>1. InFlight(p)' = <<>>
    BY <1>1 DEF InFlight
  <2>2. InFlight(e)' = InFlight(e)
    BY <1>1
  <2> QED
    BY <1>1, <2>1, <2>2 DEF Flights
<1>3. Over' = [Over EXCEPT ![p] = TRUE]
  <2>1. Over'[p] = TRUE /\ Over'[e] = Over[e]
    BY <1>1 DEF Over
  <2> QED
    BY <1>1, <2>1 DEF Over
<1>4. cut' \/ Flights[p] = <<>>
  BY <1>1 DEF Flights
<1> QED
  BY <1>2, <1>3, <1>4 DEF Channel!GiveUp, Flights, Over

LEMMA Cuts ==
  ASSUME cut' = TRUE, UNCHANGED closed,
         \A d \in Ends : (reader'[d] = "stopped") = (reader[d] = "stopped"),
         \A d \in Ends : IsPrefix(InFlight(d)', InFlight(d))
  PROVE  Channel!Cut
<1>1. Over' = Over
  BY TwoEnds DEF Over
<1>2. \A d \in Ends : IsPrefix(Flights'[d], Flights[d])
  BY DEF Flights
<1> QED
  BY <1>1, <1>2 DEF Channel!Cut, Channel!IsPrefix, IsPrefix, Flights, Over

LEMMA PrefixOfConcat ==
  ASSUME NEW s \in Seq(Frames), NEW t \in Seq(Frames)
  PROVE  IsPrefix(s, s) /\ IsPrefix(s, s \o t)
<1>1. Len(s) \in Nat /\ Len(t) \in Nat /\ Len(s \o t) = Len(s) + Len(t)
  BY LenProperties, ConcatProperties
<1>2. SubSeq(s \o t, 1, Len(s)) = SubSeq(s, 1, Len(s))
  <2>1. CASE Len(s) = 0
    BY <2>1, SubSeqEmpty
  <2>2. CASE Len(s) # 0
    <3>1. 1 \in 1..Len(s) /\ Len(s) \in 1..Len(s)
      BY <1>1, <2>2
    <3> QED
      BY <3>1, SubSeqOfConcat1
  <2> QED
    BY <2>1, <2>2
<1> QED
  BY <1>1, <1>2 DEF IsPrefix

\* What is sent joins what is in flight, unless the socket is broken: then there was a cut.
LEMMA AddedInFlight ==
  ASSUME CInv, NEW e \in Ends, NEW sent, Answers(e, sent), Opened, ~Unused(e),
         reader'[Peer(e)] = reader[Peer(e)], wire'[e] = wire[e],
         UNCHANGED <<sock, queue, writing, cut>>
  PROVE  InFlight(e)' \in Channel!Added(e, sent)
<1>1. TInv /\ SocketOf(e) /\ Sent(e, sent)
  BY DEF CInv, Answers
<1>2. CASE reader[Peer(e)] = "stopped"
  <2>1. InFlight(e)' = <<>>
    BY <1>2 DEF InFlight
  <2> QED
    BY <1>2, <2>1 DEF Channel!Added
<1>3. CASE reader[Peer(e)] # "stopped"
  <2>2. /\ OnWire(e) \in Seq(Frames) /\ Waiting(e) \in Seq(Frames)
        /\ InFlight(e) = IF sock[e] = "open" THEN OnWire(e) \o Waiting(e) ELSE OnWire(e)
    BY <1>1, <1>3, InFlightType
  <2>3. OnWire(e)' = OnWire(e)
    BY DEF OnWire, Ahead
  <2>4. sent \in Seq(Frames)
    <3>1. <<>> \in Seq(Frames) /\ \A f \in Frames : <<f>> \in Seq(Frames)
      OBVIOUS
    <3> QED
      BY <1>1, <3>1 DEF Sent
  <2>0. ASSUME NEW a \in Seq(Frames), NEW b \in Seq(Frames)
        PROVE  (a \o b) \o sent = a \o (b \o sent)
    BY <2>4, ConcatAssociative
  <2>5. Waiting(e)' = Waiting(e) \o sent
    <3>1. Handlers(strand'[e]) = Handlers(strand[e]) /\ Posted(strand'[e]) = Posted(strand[e]) \o sent
      BY <1>1, SentHandlers
    <3>2. WroteHead(e)' = WroteHead(e)
      BY <3>1, SameWaiting
    <3> DEFINE q == IF WroteHead(e) THEN Tail(queue[e]) ELSE queue[e]
    <3>3. q \in Seq(Frames) /\ Posted(strand[e]) \in Seq(Frames)
      BY <1>1, WaitingType, HeadTailProperties
    <3>4. Waiting(e)' = q \o (Posted(strand[e]) \o sent)
      BY <3>1, <3>2 DEF Waiting
    <3>5. Waiting(e) = q \o Posted(strand[e])
      BY DEF Waiting
    <3> QED
      BY <2>0, <3>3, <3>4, <3>5
  <2>6. InFlight(e)' = IF sock[e] = "open" THEN OnWire(e)' \o Waiting(e)' ELSE OnWire(e)'
    BY <1>3 DEF InFlight
  <2>7. CASE sock[e] = "open"
    <3>1. InFlight(e)' = InFlight(e) \o sent
      BY <2>0, <2>2, <2>3, <2>5, <2>6, <2>7
    <3> QED
      BY <1>3, <3>1 DEF Channel!Added
  <2>8. CASE sock[e] # "open"
    <3>1. cut
      <4>1. sock[e] \in {"none", "reset", "closed"} /\ reader[Server] # "none"
        BY <1>1, <2>8, TwoEnds DEF TInv, WsTypeOK, Opened
      <4> QED
        BY <1>1, <4>1 DEF SocketOf
    <3>2. InFlight(e)' = InFlight(e)
      BY <2>2, <2>3, <2>6, <2>8
    <3> QED
      BY <1>3, <3>1, <3>2 DEF Channel!Added
  <2> QED
    BY <2>7, <2>8
<1> QED
  BY <1>2, <1>3

LEMMA ProgramMaps ==
  ASSUME CInv, IdleTimeout \/ ClientSends \/ ClientCloses
  PROVE  Channel!Next \/ UNCHANGED Channel!channelVars
<1>1. TInv /\ Opened /\ UNCHANGED <<reader, wire, sock, queue, writing, cut>>
  BY ProgramEffect DEF CInv
<1>2. PICK e \in Ends : \E sent :
        /\ Answers(e, sent) /\ ~Unused(e)
        /\ sent = <<>> => UNCHANGED <<closed, strand>>
  BY <1>1, ProgramEffect
<1>3. PICK sent : /\ Answers(e, sent)
                  /\ sent = <<>> => UNCHANGED <<closed, strand>>
  BY <1>2
<1>4. CASE sent = <<>>
  <2>1. \A d \in Ends : InFlight(d)' = InFlight(d)
    BY <1>1, <1>3, <1>4, SameInFlight
  <2> QED
    BY <1>1, <1>3, <1>4, <2>1, Stutters
<1>5. CASE sent # <<>>
  <2>1. InFlight(e)' \in Channel!Added(e, sent)
    BY <1>1, <1>2, <1>3, AddedInFlight
  <2>2. ASSUME NEW d \in Ends \ {e} PROVE InFlight(d)' = InFlight(d)
    <3>1. strand'[d] = strand[d]
      BY <1>3 DEF Answers, Sent
    <3> QED
      BY <1>1, <3>1, SameInFlight
  <2>3. Flights' = [Flights EXCEPT ![e] = InFlight(e)']
    BY <2>2 DEF Flights
  <2>4. Over' = Over
    BY <1>1 DEF Over
  <2>5. sent \in {<<f>> : f \in Frames} /\ Channel!Sends(e, sent)
    BY <1>3, <1>5 DEF Answers, Sent
  <2>6. Channel!Send(e)
    <3>1. Flights' \in {[Flights EXCEPT ![e] = q] : q \in Channel!Added(e, sent)}
      BY <2>1, <2>3
    <3>2. UNCHANGED <<Over, cut>>
      BY <1>1, <2>4
    <3> QED
      BY <2>5, <3>1, <3>2 DEF Channel!Send, Flights, Over
  <2> QED
    BY <2>6 DEF Channel!Next
<1> QED
  BY <1>4, <1>5

\* A handler of a strand moves a frame towards the wire: nothing is seen of that.
LEMMA StrandMaps ==
  ASSUME CInv, NEW e \in Ends, StrandStep(e)
  PROVE  UNCHANGED Channel!channelVars
<1> DEFINE s == strand[e]
           q == queue[e]
           P == Posted(s)
           Wrotes(x) == x.do = "wrote" /\ x.ok /\ x.part # "header"
<1>0. TInv /\ Sending(e) /\ UNCHANGED <<reader, wire, sock, closed, cut>>
  BY DEF CInv, StrandStep
<1>1. /\ DOMAIN queue = Ends /\ DOMAIN strand = Ends /\ s # <<>>
      /\ q \in Seq(Frames) /\ P \in Seq(Frames)
      /\ (\E x \in Handlers(s) : Wrotes(x)) => q # <<>>
      /\ WroteHead(e) <=> \E x \in Handlers(s) : Wrotes(x)
      /\ Handlers(s) # {} => q # <<>>
      /\ q = <<>> => Handlers(s) = {}
      /\ Handlers(s) = {} <=> Busy(s) = {}
  BY <1>0, WaitingType, WroteHeadHandlers, OneHandler
     DEF TInv, WInv, Queues, StrandStep, EnqueueFrame, send_from_queue, WriteHandler, NextTask
<1>2. WroteHead(e)' <=> \E x \in Handlers(strand'[e]) : Wrotes(x)
  BY DEF WroteHead, Handlers, Busy
<1>3. Write.do = "write"
  BY DEF Write
<1>4. ASSUME EnqueueFrame(e) PROVE Waiting(e)' = Waiting(e)
  <2> DEFINE f == Head(s).frame
             more == IF q = <<>> THEN <<Write>> ELSE <<>>
             added == IF more = <<>> THEN {} ELSE {Write}
  <2>1. StrandAfter(e, more) /\ Head(s).do = "enqueue" /\ queue'[e] = Append(q, f)
    BY <1>1, <1>4 DEF EnqueueFrame, NextTask
  <2>2. /\ Handlers(strand'[e]) = Handlers(s) \cup added /\ P = <<f>> \o Posted(strand'[e])
        /\ Head(s) \in Tasks
    <3>1. more # <<>> => Busy(s) = {}
      BY <1>1
    <3>2. more \in {<<>>, <<Write>>}
      OBVIOUS
    <3> QED
      BY <1>0, <1>1, <2>1, <3>1, <3>2, StrandEffect
  <2>3. WroteHead(e)' <=> WroteHead(e)
    BY <1>1, <1>2, <1>3, <2>2
  <2>4. f \in Frames /\ <<f>> \in Seq(Frames)
    BY <2>1, <2>2 DEF Tasks, Write
  <2>5. Posted(strand'[e]) \in Seq(Frames)
    <3>1. WsTypeOK' /\ TInv'
      BY NextConnection DEF CInv, TInv, WsNext, EndStep
    <3>2. strand'[e] \in Seq(Tasks) /\ OneBusy(strand'[e])
      BY <3>1, <1>0 DEF WsTypeOK, TInv, WInv, OneWriterOf, OneBusy
    <3> QED
      BY <3>2, PostedType
  <2>6. ASSUME NEW a \in Seq(Frames)
        PROVE  Append(a, f) \o Posted(strand'[e]) = a \o P
    BY <2>2, <2>4, <2>5, AppendIsConcat, ConcatAssociative
  <2>7. WroteHead(e) => Tail(q) \in Seq(Frames) /\ Tail(Append(q, f)) = Append(Tail(q), f)
    BY <1>1, <2>4, HeadTailProperties, HeadTailAppend
  <2>8. Waiting(e)' = (IF WroteHead(e)' THEN Tail(queue'[e]) ELSE queue'[e]) \o Posted(strand'[e])
    BY DEF Waiting
  <2>9. Waiting(e) = (IF WroteHead(e) THEN Tail(q) ELSE q) \o P
    BY DEF Waiting
  <2>10. CASE WroteHead(e)
    BY <2>1, <2>3, <2>6, <2>7, <2>8, <2>9, <2>10
  <2>11. CASE ~WroteHead(e)
    BY <1>1, <2>1, <2>3, <2>6, <2>8, <2>9, <2>11
  <2> QED
    BY <2>10, <2>11
<1>5. ASSUME send_from_queue(e) PROVE Waiting(e)' = Waiting(e)
  <2>1. StrandAfter(e, <<>>) /\ Head(s).do = "write" /\ queue'[e] = q
    BY <1>5 DEF send_from_queue, NextTask
  <2>2. /\ Handlers(s) = {Head(s)} /\ Handlers(strand'[e]) = {} /\ Posted(strand'[e]) = P
    BY <1>0, <1>1, <2>1, StrandEffect
  <2>3. ~WroteHead(e) /\ ~WroteHead(e)'
    BY <1>1, <1>2, <2>1, <2>2
  <2> QED
    BY <2>1, <2>2, <2>3 DEF Waiting
<1>6. ASSUME WriteHandler(e), sock[e] = "open" PROVE Waiting(e)' = Waiting(e)
  <2>1. PICK more \in {<<>>, <<Write>>} : StrandAfter(e, more)
    BY <1>6 DEF WriteHandler
  <2>2. Head(s).do = "wrote"
    BY <1>6 DEF WriteHandler, NextTask
  <2>3. /\ Handlers(s) = {Head(s)} /\ Posted(strand'[e]) = P
        /\ Handlers(strand'[e]) = IF more = <<>> THEN {} ELSE {Write}
    BY <1>0, <1>1, <2>1, <2>2, StrandEffect
  <2>4. Head(s).ok
    BY <1>0, <1>6, <2>2, <2>3 DEF Sending
  <2>5. ~WroteHead(e)' /\ (WroteHead(e) <=> Head(s).part # "header")
    BY <1>1, <1>2, <1>3, <2>2, <2>3, <2>4
  <2>6. queue'[e] = IF Head(s).part = "header" THEN q ELSE Tail(q)
    BY <1>1, <1>6, <2>4 DEF WriteHandler
  <2> QED
    BY <2>3, <2>5, <2>6 DEF Waiting
<1>7. sock[e] = "open" => Waiting(e)' = Waiting(e)
  BY <1>4, <1>5, <1>6 DEF StrandStep
<1>8. OnWire(e)' = OnWire(e)
  BY <1>0 DEF OnWire, Ahead
<1>9. InFlight(e)' = InFlight(e)
  BY <1>0, <1>7, <1>8 DEF InFlight
<1>10. ASSUME NEW d \in Ends \ {e} PROVE InFlight(d)' = InFlight(d)
  <2>1. queue'[d] = queue[d] /\ strand'[d] = strand[d]
    BY <1>1 DEF StrandStep, EnqueueFrame, send_from_queue, WriteHandler, StrandAfter
  <2> QED
    BY <1>0, <2>1, SameInFlight
<1> QED
  BY <1>0, <1>9, <1>10, Stutters

LEMMA HeadAndTail ==
  ASSUME NEW q \in Seq(Frames), q # <<>>
  PROVE  /\ Head(q) \in Frames /\ Tail(q) \in Seq(Frames) /\ q = <<Head(q)>> \o Tail(q)
<1>1. /\ Head(q) \in Frames /\ Tail(q) \in Seq(Frames) /\ Len(Tail(q)) = Len(q) - 1
      /\ Len(q) \in Nat \ {0} /\ Head(q) = q[1]
      /\ \A i \in 1..(Len(q) - 1) : Tail(q)[i] = q[i + 1]
  BY HeadTailProperties, EmptySeq
<1> DEFINE h == <<Head(q)>>
           r == h \o Tail(q)
<1>2. h \in Seq(Frames) /\ Len(h) = 1 /\ h[1] = Head(q)
  BY <1>1
<1>3. /\ r \in Seq(Frames) /\ Len(r) = Len(q)
      /\ \A i \in 1..Len(q) : r[i] = IF i <= 1 THEN h[i] ELSE Tail(q)[i - 1]
  <2>1. Len(h) + Len(Tail(q)) = Len(q)
    BY <1>1, <1>2
  <2> QED
    BY <1>1, <1>2, <2>1, ConcatProperties
<1>4. \A i \in 1..Len(q) : r[i] = q[i]
  <2> TAKE i \in 1..Len(q)
  <2>1. CASE i = 1
    BY <1>1, <1>2, <1>3, <2>1
  <2>2. CASE i # 1
    <3>1. i - 1 \in 1..(Len(q) - 1) /\ (i - 1) + 1 = i /\ ~(i <= 1)
      BY <1>1, <2>2
    <3> QED
      BY <1>1, <1>3, <3>1
  <2> QED
    BY <2>1, <2>2
<1>5. r = q
  BY <1>3, <1>4, SeqEqual
<1> QED
  BY <1>1, <1>5

\* A frame goes from the queue to the wire when it is written; a write to a socket that
\* the other end has closed cuts the connection.
LEMMA WriteMaps ==
  ASSUME CInv, NEW e \in Ends, WriteCompletes(e)
  PROVE  Channel!Next \/ UNCHANGED Channel!channelVars
<1> DEFINE q == queue[e]
           P == Posted(strand[e])
           Goal == Channel!Next \/ UNCHANGED Channel!channelVars
<1>0. TInv /\ Sending(e) /\ \A d \in Ends : Sending(d)
  BY DEF CInv
<1>1. PICK w \in [frame : Frames, part : Kinds(e)] :
           LET done == Wrote(w.part, sock[e] = "open") IN
           /\ writing[e] = {w} /\ w.frame = Head(queue[e]) /\ queue[e] # <<>>
           /\ writing'[e] = {} /\ Handlers(strand[e]) = {} /\ Handlers(strand'[e]) = {done}
           /\ Posted(strand'[e]) = Posted(strand[e])
           /\ UNCHANGED <<reader, queue, closed>>
           /\ \A d \in Ends \ {e} : /\ strand'[d] = strand[d] /\ writing'[d] = writing[d]
                                    /\ wire'[d] = wire[d] /\ sock'[d] = sock[d]
           /\ IF sock[e] = "open"
              THEN /\ wire'[e] = wire[e] \o Written(w)
                   /\ sock'[e] = IF sock[Peer(e)] = "closed" THEN "reset" ELSE sock[e]
                   /\ cut' = (cut \/ sock[Peer(e)] = "closed")
              ELSE UNCHANGED <<wire, sock, cut>>
  BY <1>0, WriteEffect
<1>2. \A d \in Ends \ {e} : InFlight(d)' = InFlight(d) /\ InFlight(d) \in Seq(Frames)
  BY <1>0, <1>1, SameInFlight, InFlightType
<1>3. ASSUME cut' = cut, InFlight(e)' = InFlight(e) PROVE Goal
  BY <1>1, <1>2, <1>3, Stutters
<1>4. ASSUME cut' = TRUE, IsPrefix(InFlight(e)', InFlight(e)) PROVE Goal
  <2>1. \A d \in Ends : IsPrefix(InFlight(d)', InFlight(d))
    BY <1>2, <1>4, PrefixOfConcat, EmptySeq
  <2>2. Channel!Cut
    BY <1>1, <1>4, <2>1, Cuts
  <2> QED
    BY <2>2 DEF Channel!Next
<1>5. CASE sock[e] # "open"
  <2>1. UNCHANGED <<wire, sock, cut, reader>>
    BY <1>1, <1>5
  <2>2. OnWire(e)' = OnWire(e)
    BY <2>1 DEF OnWire, Ahead
  <2>3. InFlight(e)' = InFlight(e)
    BY <1>5, <2>1, <2>2 DEF InFlight
  <2> QED
    BY <1>3, <2>1, <2>3
<1>6. ASSUME sock[e] = "open", InFlight(e)' = <<>>, InFlight(e) = <<>> PROVE Goal
  <2>1. cut' = cut \/ cut' = TRUE
    <3>1. cut \in BOOLEAN
      BY <1>0 DEF TInv, WsTypeOK
    <3> QED
      BY <1>1, <1>6, <3>1
  <2>2. IsPrefix(InFlight(e)', InFlight(e))
    BY <1>6, PrefixOfConcat, EmptySeq
  <2> QED
    BY <1>3, <1>4, <1>6, <2>1, <2>2
<1>7. CASE sock[e] = "open" /\ ~Receiving(Peer(e))
  <2>1. reader[Peer(e)] = "stopped"
    BY <1>0, <1>7, SendersAreOpen, TwoEnds DEF Opened, Receiving
  <2> QED
    BY <1>1, <1>6, <1>7, <2>1 DEF InFlight
<1>8. CASE sock[e] = "open" /\ Receiving(Peer(e))
  <2> DEFINE f == w.frame
             a == Ahead(e)
             W == wire[e]
             C == OnWire(e)
  <2>1. /\ W \in Seq(Pieces) /\ a \in {0, 1} /\ C \in Seq(Frames)
        /\ InFlight(e) = C \o Waiting(e)
    BY <1>0, <1>8, InFlightType DEF Receiving
  <2>2. /\ q \in Seq(Frames) /\ P \in Seq(Frames) /\ q # <<>> /\ f = Head(q)
    BY <1>0, <1>1, WaitingType
  <2>3. f \in Frames /\ Tail(q) \in Seq(Frames) /\ q = <<f>> \o Tail(q) /\ <<f>> \in Seq(Frames)
    BY <2>2, HeadAndTail
  <2>4. ~WroteHead(e) /\ Waiting(e) = q \o P
    BY <1>1, WroteHeadHandlers DEF Waiting
  <2>5. WroteHead(e)' <=> w.part # "header"
    <3> DEFINE done == Wrote(w.part, sock[e] = "open")
    <3>1. done.do = "wrote" /\ done.ok /\ done.part = w.part
      BY <1>8 DEF Wrote
    <3>2. WroteHead(e)' <=>
            \E x \in Handlers(strand'[e]) : x.do = "wrote" /\ x.ok /\ x.part # "header"
      BY DEF WroteHead, Handlers, Busy
    <3> QED
      BY <1>1, <3>1, <3>2
  <2>6. Waiting(e)' = (IF w.part = "header" THEN q ELSE Tail(q)) \o P
    BY <1>1, <2>5 DEF Waiting
  <2>7. (Len(W) + a) % 2 = 1 <=> w.part = "content"
    <3>1. (Len(W) + a) % 2 = 1 <=> HalfWritten(e)
      BY <1>0, <1>8 DEF Sending
    <3>2. HalfWritten(e) <=> w.part = "content"
      BY <1>1 DEF HalfWritten
    <3> QED
      BY <3>1, <3>2
  <2>8. (Len(W) + a) % 2 \in {0, 1}
    <3>1. Len(W) + a \in Nat
      BY <2>1, LenProperties
    <3> QED
      BY <3>1
  <2>9. OnWire(e)' = Contents(wire'[e], a)
    BY <1>1 DEF OnWire, Ahead
  <2>10. C = Contents(W, a)
    BY DEF OnWire
  <2>11. w.part \in {"header", "content", "all"}
    BY DEF Kinds
  <2>12. OnWire(e)' = IF w.part = "header" THEN C ELSE C \o <<f>>
    <3>1. CASE w.part = "all"
      <4> DEFINE h == [frame |-> f, part |-> "header"]
                 c == [frame |-> f, part |-> "content"]
      <4>1. h \in Pieces /\ c \in Pieces /\ c.frame = f
        BY <2>3 DEF Pieces
      <4>2. wire'[e] = W \o <<h, c>> /\ (Len(W) + a) % 2 = 0
        BY <1>1, <1>8, <2>7, <2>8, <3>1 DEF Written
      <4>3. Contents(W \o <<h, c>>, a) = Contents(W, a) \o <<c.frame>>
        BY <2>1, <4>1, <4>2, FrameWritten
      <4> QED
        BY <2>9, <2>10, <3>1, <4>1, <4>2, <4>3
    <3>2. CASE w.part # "all"
      <4>1. w \in Pieces /\ wire'[e] = W \o <<w>>
        BY <1>1, <1>8, <2>11, <3>2 DEF Pieces, Written
      <4>2. CASE w.part = "header"
        <5>1. (Len(W) + a) % 2 = 0
          BY <2>7, <2>8, <4>2
        <5>2. Contents(W \o <<w>>, a) = Contents(W, a)
          BY <2>1, <4>1, <5>1, HeaderWritten
        <5> QED
          BY <2>9, <2>10, <4>1, <4>2, <5>2
      <4>3. CASE w.part = "content"
        <5>1. (Len(W) + a) % 2 = 1
          BY <2>7, <4>3
        <5>2. Contents(W \o <<w>>, a) = Contents(W, a) \o <<w.frame>>
          BY <2>1, <4>1, <5>1, ContentWritten
        <5> QED
          BY <2>9, <2>10, <4>1, <4>3, <5>2
      <4> QED
        BY <2>11, <3>2, <4>2, <4>3
    <3> QED
      BY <3>1, <3>2
  <2>13. OnWire(e)' \in Seq(Frames) /\ Waiting(e)' \in Seq(Frames)
    BY <2>1, <2>2, <2>3, <2>6, <2>12, ConcatProperties
  <2>14. OnWire(e)' \o Waiting(e)' = C \o Waiting(e)
    <3>1. CASE w.part = "header"
      BY <2>4, <2>6, <2>12, <3>1
    <3>2. CASE w.part # "header"
      <4>1. Tail(q) \o P \in Seq(Frames)
        BY <2>2, <2>3, ConcatProperties
      <4>0. \A x, y, z \in Seq(Frames) : (x \o y) \o z = x \o (y \o z)
        BY ConcatAssociative
      <4>5. C \in Seq(Frames) /\ <<f>> \in Seq(Frames) /\ Tail(q) \in Seq(Frames) /\ P \in Seq(Frames)
        BY <2>1, <2>2, <2>3
      <4>2. (C \o <<f>>) \o (Tail(q) \o P) = C \o (<<f>> \o (Tail(q) \o P))
        <5> DEFINE R == Tail(q) \o P
                   F == <<f>>
        <5>1. C \in Seq(Frames) /\ F \in Seq(Frames) /\ R \in Seq(Frames)
          BY <4>1, <4>5
        <5> HIDE DEF R, F
        <5>2. (C \o F) \o R = C \o (F \o R)
          BY <5>1, ConcatAssociative
        <5> QED
          BY <5>2 DEF R, F
      <4>3. (<<f>> \o Tail(q)) \o P = <<f>> \o (Tail(q) \o P)
        BY <4>0, <4>5
      <4>4. (<<f>> \o Tail(q)) \o P = q \o P
        BY <2>3
      <4> QED
        BY <2>4, <2>6, <2>12, <3>2, <4>2, <4>3, <4>4
    <3> QED
      BY <3>1, <3>2
  <2>15. InFlight(e)' = IF sock'[e] = "open" THEN OnWire(e)' \o Waiting(e)' ELSE OnWire(e)'
    BY <1>1, <1>8 DEF InFlight, Receiving
  <2>16. CASE sock[Peer(e)] # "closed"
    <3>1. sock'[e] = "open"
      BY <1>1, <1>8, <2>16
    <3>2. cut' = cut
      <4>1. cut \in BOOLEAN
        BY <1>0 DEF TInv, WsTypeOK
      <4> QED
        BY <1>1, <1>8, <2>16, <4>1
    <3>3. InFlight(e)' = InFlight(e)
      BY <2>1, <2>14, <2>15, <3>1
    <3> QED
      BY <1>3, <3>2, <3>3
  <2>17. CASE sock[Peer(e)] = "closed"
    <3>1. sock'[e] = "reset" /\ cut' = TRUE
      BY <1>1, <1>8, <2>17
    <3>2. InFlight(e)' = OnWire(e)'
      BY <2>15, <3>1
    <3>3. IsPrefix(OnWire(e)', OnWire(e)' \o Waiting(e)')
      BY <2>13, PrefixOfConcat
    <3> QED
      BY <1>4, <2>1, <2>14, <3>1, <3>2, <3>3
  <2> QED
    BY <2>16, <2>17
<1> QED
  BY <1>5, <1>7, <1>8

LEMMA HandshakeMaps ==
  ASSUME CInv, TInv', HandshakeStep
  PROVE  Channel!Next \/ UNCHANGED Channel!channelVars
<1>1. /\ TInv /\ Opening /\ UNCHANGED <<closed, cut>>
      /\ \A d \in Ends : /\ Silent(d)' /\ Ahead(d)' = 0
                         /\ reader'[Peer(d)] = "stopped" \/ Len(wire'[d]) \in {0, 1}
  BY HandshakeEffect DEF CInv
<1>2. PICK e \in Ends :
        /\ reader[e] # "stopped"
        /\ \A d \in Ends \ {e} : reader'[d] = "stopped" <=> reader[d] = "stopped"
  BY <1>1, HandshakeEffect
<1>3. ASSUME NEW d \in Ends PROVE InFlight(d) = <<>> /\ InFlight(d)' = <<>>
  <2>1. InFlight(d) = <<>>
    BY <1>1, OpeningFlight
  <2>2. CASE reader'[Peer(d)] = "stopped"
    BY <2>1, <2>2 DEF InFlight
  <2>3. CASE Len(wire'[d]) \in {0, 1}
    <3>1. OnWire(d)' = <<>> /\ Waiting(d)' = <<>>
      BY <1>1, <2>3, NothingOnWire, SilentWaits DEF OnWire
    <3>2. InFlight(d)' = <<>>
      BY <3>1, EmptySeq, ConcatEmptySeq DEF InFlight
    <3> QED
      BY <2>1, <3>2
  <2> QED
    BY <1>1, <2>2, <2>3
<1>4. CASE reader'[e] = "stopped"
  <2>1. Channel!GiveUp(Peer(e))
    BY <1>1, <1>2, <1>3, <1>4, GivesUp, TwoEnds
  <2> QED
    BY <2>1, TwoEnds DEF Channel!Next
<1>5. CASE reader'[e] # "stopped"
  <2>1. \A d \in Ends : (reader'[d] = "stopped") = (reader[d] = "stopped")
    BY <1>2, <1>5
  <2> QED
    BY <1>1, <1>3, <2>1, Stutters
<1> QED
  BY <1>4, <1>5

LEMMA HeadOfConcat ==
  ASSUME NEW s \in Seq(Frames), NEW t \in Seq(Frames), s # <<>>
  PROVE  s \o t # <<>> /\ Head(s \o t) = Head(s) /\ Tail(s \o t) = Tail(s) \o t
<1> DEFINE u == s \o t
           v == Tail(s) \o t
<1>1. /\ Len(s) \in Nat \ {0} /\ Len(t) \in Nat /\ Tail(s) \in Seq(Frames)
      /\ Len(Tail(s)) = Len(s) - 1 /\ Head(s) = s[1]
      /\ \A i \in 1..(Len(s) - 1) : Tail(s)[i] = s[i + 1]
  BY EmptySeq, LenProperties, HeadTailProperties
<1>2. /\ u \in Seq(Frames) /\ Len(u) = Len(s) + Len(t)
      /\ \A i \in 1..(Len(s) + Len(t)) : u[i] = IF i <= Len(s) THEN s[i] ELSE t[i - Len(s)]
  BY ConcatProperties
<1>3. /\ v \in Seq(Frames) /\ Len(v) = (Len(s) - 1) + Len(t)
      /\ \A i \in 1..((Len(s) - 1) + Len(t)) :
           v[i] = IF i <= Len(s) - 1 THEN Tail(s)[i] ELSE t[i - (Len(s) - 1)]
  BY <1>1, ConcatProperties
<1>4. u # <<>> /\ Head(u) = s[1]
  <2>1. Len(u) # 0
    BY <1>1, <1>2
  <2>2. u # <<>>
    BY <2>1, EmptySeq
  <2>3. Head(u) = u[1] /\ 1 \in 1..(Len(s) + Len(t)) /\ 1 <= Len(s)
    BY <1>1, <1>2, <2>2
  <2> QED
    BY <1>2, <2>2, <2>3
<1>5. /\ Tail(u) \in Seq(Frames) /\ Len(Tail(u)) = Len(u) - 1
      /\ \A i \in 1..(Len(u) - 1) : Tail(u)[i] = u[i + 1]
  BY <1>2, <1>4, HeadTailProperties
<1>6. ASSUME NEW i \in 1..Len(v) PROVE Tail(u)[i] = v[i]
  <2>1. i \in 1..(Len(u) - 1) /\ i + 1 \in 1..(Len(s) + Len(t))
        /\ i \in 1..((Len(s) - 1) + Len(t))
    BY <1>1, <1>2, <1>3
  <2>2. CASE i <= Len(s) - 1
    <3>1. i \in 1..(Len(s) - 1) /\ i + 1 <= Len(s)
      BY <1>1, <2>2
    <3> QED
      BY <1>1, <1>2, <1>3, <1>5, <2>1, <2>2, <3>1
  <2>3. CASE ~(i <= Len(s) - 1)
    <3>1. ~(i + 1 <= Len(s)) /\ (i + 1) - Len(s) = i - (Len(s) - 1)
      BY <1>1, <2>1, <2>3
    <3> QED
      BY <1>2, <1>3, <1>5, <2>1, <2>3, <3>1
  <2> QED
    BY <2>2, <2>3
<1>7. Len(Tail(u)) = Len(v)
  BY <1>1, <1>2, <1>3, <1>5
<1>8. Tail(u) = v
  BY <1>3, <1>5, <1>6, <1>7, SeqEqual
<1> QED
  BY <1>1, <1>4, <1>8

\* A frame whose header makes the server stop is whole on the wire.
LEMMA HeaderStops ==
  ASSUME CInv, wire[Client] # <<>>, reader[Server] = "header"
  PROVE  OnWire(Client) # <<>> /\ Head(OnWire(Client)) = Head(wire[Client]).frame
<1> DEFINE w == wire[Client]
<1>1. /\ TInv /\ Receiving(Server) /\ Ahead(Client) = 0 /\ w \in Seq(Pieces)
      /\ Sending(Client) /\ Pairs
  BY TwoEnds DEF CInv, Receiving, Ahead, TInv, Handshake
<1>2. Len(w) \in Nat \ {0} /\ Head(w) = w[1]
  BY <1>1, EmptySeq
<1>3. ~HalfWritten(Client)
  <2>1. ASSUME NEW x \in writing[Client] PROVE x.part # "content"
    BY <1>1, <2>1, TwoEnds DEF Sending, Kinds
  <2>2. Wrote("header", TRUE) \notin Handlers(strand[Client])
    <3>1. Wrote("header", TRUE).do = "wrote" /\ Wrote("header", TRUE).part = "header"
      BY DEF Wrote
    <3>2. "header" \notin Kinds(Client)
      BY TwoEnds DEF Kinds
    <3> QED
      BY <1>1, <3>1, <3>2 DEF Sending
  <2> QED
    BY <2>1, <2>2 DEF HalfWritten
<1>4. (Len(w) + 0) % 2 # 1
  BY <1>1, <1>3, TwoEnds DEF Sending
<1>5. PICK k \in Nat : /\ k = (Len(w) + 0) \div 2
                       /\ \/ Len(w) + 0 = 2 * k
                          \/ Len(w) + 0 = 2 * k + 1 /\ (Len(w) + 0) % 2 = 1
  BY <1>2, Halves
<1>6. k # 0 /\ Len(w) = 2 * k
  <2> DEFINE n == Len(w) + 0
  <2>1. n = Len(w) /\ n \in Nat \ {0}
    BY <1>2
  <2>2. n = 2 * k
    BY <1>4, <1>5
  <2> HIDE DEF n
  <2> QED
    BY <2>1, <2>2
<1>7. OnWire(Client) \in Seq(Frames) /\ Len(OnWire(Client)) = k
  BY <1>1, <1>5, ContentsType DEF OnWire
<1>8. OnWire(Client) # <<>> /\ Head(OnWire(Client)) = OnWire(Client)[1]
  BY <1>6, <1>7, EmptySeq
<1>9. OnWire(Client)[1] = w[2].frame
  <2>1. 1 \in 1..k /\ 2 * 1 - 0 = 2
    BY <1>6
  <2> QED
    BY <1>1, <1>5, <2>1 DEF OnWire, Contents
<1>10. w[1].frame = w[2].frame
  <2>1. 1 \in 1..(Len(w) - 1) /\ (1 + 0) % 2 = 1 /\ 1 + 1 = 2
    BY <1>6
  <2> QED
    BY <1>1, <2>1 DEF Pairs
<1> QED
  BY <1>2, <1>8, <1>9, <1>10

\* The content of a frame is read, or the header of one that is not masked: the frame
\* is delivered.  Another header is read: nothing is seen of that.
LEMMA ReadMaps ==
  ASSUME CInv, NEW e \in Ends, ReadFrame(e)
  PROVE  Channel!Next \/ UNCHANGED Channel!channelVars
<1> DEFINE p == Peer(e)
           f == Incoming(e).frame
           w == wire[p]
           Goal == Channel!Next \/ UNCHANGED Channel!channelVars
<1>1. /\ TInv /\ Opened /\ w \in Seq(Pieces) /\ w # <<>> /\ f \in Frames
      /\ wire'[p] = Tail(w) /\ wire'[e] = wire[e] /\ reader'[p] = reader[p]
      /\ UNCHANGED <<sock, queue, writing, cut>>
  BY ReadEffect DEF CInv
<1>2. PICK sent :
        /\ Answers(e, sent)
        /\ \/ /\ reader[e] = "header" /\ f.op # "unmasked" /\ reader'[e] = "content"
              /\ UNCHANGED <<closed, strand>>
           \/ reader[e] = "header" /\ f.op = "unmasked" /\ reader'[e] = "stopped"
           \/ /\ reader[e] = "content" /\ f.op # "unmasked"
              /\ reader'[e] = IF f.op = "close" THEN "stopped" ELSE "header"
  BY ReadEffect DEF CInv
<1>3. /\ p \in Ends /\ p # e /\ Ends = {e, p} /\ Peer(p) = e /\ f = Head(w).frame
      /\ reader[e] # "stopped" /\ ~Unused(e)
  BY <1>2, TwoEnds DEF Incoming, Unused
<1>4. /\ OnWire(p) \in Seq(Frames) /\ Waiting(p) \in Seq(Frames)
      /\ InFlight(p) = IF sock[p] = "open" THEN OnWire(p) \o Waiting(p) ELSE OnWire(p)
  BY <1>1, <1>3, InFlightType
<1>5. strand'[p] = strand[p]
  BY <1>2, <1>3 DEF Answers, Sent
<1>6. Waiting(p)' = Waiting(p)
  BY <1>1, <1>5 DEF Waiting, WroteHead
<1>7. InFlight(p)' = IF reader'[e] = "stopped" THEN <<>>
                     ELSE IF sock[p] = "open" THEN OnWire(p)' \o Waiting(p)' ELSE OnWire(p)'
  BY <1>1, <1>3 DEF InFlight
<1>8. ASSUME reader[e] = "header", f.op # "unmasked", reader'[e] = "content",
             UNCHANGED <<closed, strand>>
      PROVE  Goal
  <2>1. OnWire(p) = Contents(w, 0) /\ OnWire(p)' = Contents(Tail(w), 1)
    BY <1>1, <1>3, <1>8 DEF OnWire, Ahead
  <2>2. OnWire(p)' = OnWire(p)
    BY <1>1, <2>1, HeaderRead
  <2>3. InFlight(p)' = InFlight(p)
    BY <1>4, <1>6, <1>7, <1>8, <2>2
  <2>4. InFlight(e)' = InFlight(e)
    BY <1>1, <1>8, SameInFlight
  <2>5. \A d \in Ends : (reader'[d] = "stopped") = (reader[d] = "stopped")
    BY <1>1, <1>3, <1>8
  <2> QED
    BY <1>1, <1>3, <1>8, <2>3, <2>4, <2>5, Stutters
<1>9. ASSUME NEW last \in BOOLEAN, last <=> f.op \in {"close", "unmasked"},
             (reader'[e] = "stopped") = last, OnWire(p) # <<>>, Head(OnWire(p)) = f,
             ~last => OnWire(p)' = Tail(OnWire(p))
      PROVE  Goal
  <2>1. InFlight(p) # <<>> /\ Head(InFlight(p)) = f
    BY <1>4, <1>9, HeadOfConcat
  <2>2. InFlight(p)' = IF last THEN <<>> ELSE Tail(InFlight(p))
    BY <1>4, <1>6, <1>7, <1>9, HeadOfConcat
  <2>3. InFlight(e)' \in Channel!Added(e, sent)
    BY <1>1, <1>2, <1>3, AddedInFlight
  <2>4. Flights' = [Flights EXCEPT ![p] = IF last THEN <<>> ELSE Tail(@), ![e] = InFlight(e)']
    <3>1. Flights[p] = InFlight(p)
      BY <1>3 DEF Flights
    <3> QED
      BY <1>3, <2>2, <3>1 DEF Flights
  <2>5. Over' = [Over EXCEPT ![p] = last] /\ ~Over[p]
    <3>1. Over[p] = FALSE /\ Over'[p] = last /\ Over'[e] = Over[e]
      BY <1>1, <1>3, <1>9 DEF Over
    <3> QED
      BY <1>3, <3>1 DEF Over
  <2>6. sent \in {<<>>} \cup {<<g>> : g \in Frames} /\ Channel!Sends(e, sent)
    BY <1>2 DEF Answers, Sent
  <2>7. Flights[p] # <<>> /\ last = Channel!Final(Head(Flights[p]))
    BY <1>3, <1>9, <2>1 DEF Flights, Channel!Final
  <2>8. Channel!Deliver(p, e)
    <3> DEFINE L == Channel!Final(Head(Flights[p]))
    <3>1. Flights' \in {[Flights EXCEPT ![p] = IF L THEN <<>> ELSE Tail(@), ![e] = q] :
                      q \in Channel!Added(e, sent)}
      BY <2>3, <2>4, <2>7
    <3>2. Over' = [Over EXCEPT ![p] = L]
      BY <2>5, <2>7
    <3>3. \E x \in {<<>>} \cup {<<g>> : g \in Frames} :
            /\ Channel!Sends(e, x)
            /\ Flights' \in {[Flights EXCEPT ![p] = IF L THEN <<>> ELSE Tail(@), ![e] = q] :
                           q \in Channel!Added(e, x)}
      BY <2>6, <3>1
    <3>4. ~Over[p] /\ Flights[p] # <<>> /\ UNCHANGED cut
      BY <1>1, <2>5, <2>7
    <3> QED
      BY <3>2, <3>3, <3>4 DEF Channel!Deliver, Flights, Over
  <2> QED
    BY <1>3, <2>8 DEF Channel!Next
<1>10. ASSUME reader[e] = "header", f.op = "unmasked", reader'[e] = "stopped" PROVE Goal
  <2>1. e = Server
    <3>1. ASSUME e = Client PROVE FALSE
      <4>1. w \in Seq(MaskedPieces)
        BY <1>10, <3>1, TwoEnds DEF CInv, Masked, Receiving
      <4>2. Head(w) \in MaskedPieces
        BY <1>1, <4>1, HeadTailProperties
      <4> QED
        BY <1>3, <1>10, <4>2 DEF MaskedPieces, MaskedFrames
    <3> QED
      BY <3>1, TwoEnds
  <2>2. OnWire(p) # <<>> /\ Head(OnWire(p)) = f
    BY <1>1, <1>3, <1>10, <2>1, HeaderStops, TwoEnds
  <2> QED
    BY <1>9, <1>10, <2>2
<1>11. ASSUME reader[e] = "content", f.op # "unmasked",
              reader'[e] = IF f.op = "close" THEN "stopped" ELSE "header"
       PROVE  Goal
  <2>1. OnWire(p) = Contents(w, 1)
    BY <1>3, <1>11 DEF OnWire, Ahead
  <2>2. f.op # "close" => OnWire(p)' = Contents(Tail(w), 0)
    BY <1>1, <1>3, <1>11 DEF OnWire, Ahead
  <2>3. /\ OnWire(p) # <<>> /\ Head(OnWire(p)) = f
        /\ Contents(Tail(w), 0) = Tail(OnWire(p))
    BY <1>1, <1>3, <2>1, ContentRead
  <2>4. CASE f.op = "close"
    BY <1>9, <1>11, <2>3, <2>4
  <2>5. CASE f.op # "close"
    BY <1>9, <1>11, <2>2, <2>3, <2>5
  <2> QED
    BY <2>4, <2>5
<1> QED
  BY <1>2, <1>8, <1>10, <1>11

\* Reading fails after a cut, or when everything has arrived.
LEMMA ErrorMaps ==
  ASSUME CInv, NEW e \in Ends, Error(e)
  PROVE  Channel!Next
<1> DEFINE p == Peer(e)
<1>1. /\ TInv /\ SocketOf(e) /\ reader[e] \notin {"none", "connecting", "stopped"} /\ Reads(e, "stopped")
      /\ UNCHANGED <<wire, sock, strand, queue, writing, closed, cut>>
  BY TwoEnds DEF CInv, Error, Ended, sending
<1>2. /\ p \in Ends /\ p # e /\ Ends = {e, p} /\ Peer(p) = e
      /\ reader'[e] = "stopped" /\ reader'[p] = reader[p]
  BY <1>1, TwoEnds DEF Reads, TInv, WsTypeOK
<1>3. InFlight(e)' = InFlight(e)
  BY <1>1, <1>2, SameInFlight
<1>4. cut \/ InFlight(p) = <<>>
  <2>1. CASE ~Receiving(e)
    BY <1>1, <1>2, <2>1, InFlightType
  <2>2. CASE Receiving(e)
    <3>1. ReadFails(e)
      BY <2>2, TwoEnds DEF Error, Receiving
    <3>2. sock[e] \in {"reset", "closed"} => cut
      BY <1>1 DEF SocketOf, Unused
    <3>3. CASE wire[p] = <<>> /\ sock[p] = "closed"
      <4>1. /\ wire[p] \in Seq(Pieces) /\ Ahead(p) \in {0, 1} /\ InFlight(p) = OnWire(p)
        BY <1>1, <1>2, <2>2, <3>3, InFlightType DEF Receiving
      <4>2. (0 + Ahead(p)) \div 2 = 0
        BY <4>1
      <4>3. OnWire(p) \in Seq(Frames) /\ Len(OnWire(p)) = 0
        BY <3>3, <4>1, <4>2, ContentsType, EmptySeq DEF OnWire
      <4> QED
        BY <4>1, <4>3, EmptySeq
    <3> QED
      BY <3>1, <3>2, <3>3 DEF ReadFails
  <2> QED
    BY <2>1, <2>2
<1>5. Channel!GiveUp(p)
  BY <1>1, <1>2, <1>3, <1>4, GivesUp
<1> QED
  BY <1>2, <1>5 DEF Channel!Next

LEMMA ShutdownMaps ==
  ASSUME CInv, ShutdownThrows
  PROVE  Channel!Next
<1>1. TInv /\ SocketOf(Server) /\ Crash /\ sock[Server] = "reset"
  BY TwoEnds DEF CInv, ShutdownThrows
<1>2. cut /\ cut' = cut /\ closed' = closed
  BY <1>1 DEF SocketOf, Crash
<1>3. /\ reader'[Server] = "stopped" /\ reader'[Client] = reader[Client] /\ wire' = wire
      /\ sock'[Server] = "closed"
  BY <1>1, TwoEnds DEF Crash, Reads, TInv, WsTypeOK
<1>4. OnWire(Server)' = OnWire(Server)
  BY <1>3, TwoEnds DEF OnWire, Ahead
<1>5. InFlight(Server)' = InFlight(Server)
  BY <1>1, <1>3, <1>4, TwoEnds DEF InFlight
<1>6. Channel!GiveUp(Peer(Server))
  BY <1>1, <1>2, <1>3, <1>5, GivesUp, TwoEnds
<1> QED
  BY <1>6, TwoEnds DEF Channel!Next

\* What is on the wire can still be read after a cut; what is not, is lost.
LEMMA CutMaps ==
  ASSUME CInv, RequestTimeout \/ CutOff
  PROVE  Channel!Next
<1>1. /\ TInv /\ cut' = TRUE /\ UNCHANGED <<reader, wire, strand, queue, closed>>
      /\ \A d \in Ends : sock'[d] = "open" => sock[d] = "open"
  BY DEF CInv, RequestTimeout, CutOff, sending
<1>2. ASSUME NEW d \in Ends PROVE IsPrefix(InFlight(d)', InFlight(d))
  <2>1. OnWire(d)' = OnWire(d) /\ Waiting(d)' = Waiting(d)
    BY <1>1 DEF OnWire, Ahead, Waiting, WroteHead
  <2>2. InFlight(d) \in Seq(Frames) /\ Waiting(d) \in Seq(Frames)
    BY <1>1, InFlightType
  <2>3. CASE reader[Peer(d)] = "stopped"
    <3>1. InFlight(d) = <<>> /\ InFlight(d)' = <<>>
      BY <1>1, <2>3 DEF InFlight
    <3> QED
      BY <3>1, PrefixOfConcat, EmptySeq
  <2>4. CASE reader[Peer(d)] # "stopped"
    <3>1. /\ OnWire(d) \in Seq(Frames)
          /\ InFlight(d) = IF sock[d] = "open" THEN OnWire(d) \o Waiting(d) ELSE OnWire(d)
      BY <1>1, <2>4, InFlightType
    <3>2. InFlight(d)' = IF sock'[d] = "open" THEN OnWire(d) \o Waiting(d) ELSE OnWire(d)
      BY <1>1, <2>1, <2>4 DEF InFlight
    <3>3. InFlight(d)' = InFlight(d) \/ (InFlight(d)' = OnWire(d) /\ InFlight(d) = OnWire(d) \o Waiting(d))
      BY <1>1, <3>1, <3>2
    <3> QED
      BY <2>2, <3>1, <3>3, PrefixOfConcat, EmptySeq
  <2> QED
    BY <2>3, <2>4
<1>3. Channel!Cut
  BY <1>1, <1>2, Cuts
<1> QED
  BY <1>3 DEF Channel!Next

\* An end that closes its socket has nothing left to send, and nobody reads there.
LEMMA ReleaseMaps ==
  ASSUME CInv, NEW e \in Ends, Release(e)
  PROVE  Channel!Next \/ UNCHANGED Channel!channelVars
<1> DEFINE p == Peer(e)
           abrupt == wire[p] # <<>> /\ sock[p] = "open"
<1>1. /\ TInv /\ Unused(e) /\ cut' = (cut \/ abrupt)
      /\ sock' = [sock EXCEPT ![e] = "closed", ![p] = IF abrupt THEN "reset" ELSE @]
      /\ UNCHANGED <<reader, wire, strand, queue, writing, closed>>
  BY DEF CInv, Release, sending
<1>2. p \in Ends /\ p # e /\ Ends = {e, p} /\ Peer(p) = e /\ sock'[e] = "closed"
  BY <1>1, TwoEnds DEF TInv, WsTypeOK
<1>3. Silent(e)
  <2>1. OneWriterOf(e) /\ Busy(strand[e]) = {} /\ strand[e] = <<>> /\ writing[e] = {}
    BY <1>1, EmptySequence DEF TInv, WInv, Unused
  <2> QED
    BY <2>1 DEF OneWriterOf, Silent
<1>4. InFlight(p)' = InFlight(p) /\ InFlight(p) = <<>>
  BY <1>1, <1>2 DEF InFlight, Unused
<1>5. InFlight(e)' = InFlight(e)
  <2>1. CASE reader[p] = "stopped"
    BY <1>1, <2>1 DEF InFlight
  <2>2. CASE reader[p] # "stopped"
    <3>1. Waiting(e) = <<>>
      BY <1>3, SilentWaits
    <3>2. /\ OnWire(e) \in Seq(Frames)
          /\ InFlight(e) = IF sock[e] = "open" THEN OnWire(e) \o Waiting(e) ELSE OnWire(e)
      BY <1>1, <2>2, InFlightType
    <3>3. OnWire(e)' = OnWire(e)
      BY <1>1 DEF OnWire, Ahead
    <3>4. InFlight(e)' = OnWire(e)
      BY <1>1, <1>2, <2>2, <3>3 DEF InFlight
    <3>5. OnWire(e) \o <<>> = OnWire(e)
      BY <3>2, ConcatEmptySeq
    <3> QED
      BY <3>1, <3>2, <3>4, <3>5
  <2> QED
    BY <2>1, <2>2
<1>6. \A d \in Ends : InFlight(d)' = InFlight(d) /\ InFlight(d) \in Seq(Frames)
  BY <1>1, <1>2, <1>4, <1>5, InFlightType
<1>7. CASE cut' = cut
  BY <1>1, <1>6, <1>7, Stutters
<1>8. CASE cut' # cut
  <2>1. cut' = TRUE
    BY <1>1, <1>8 DEF TInv, WsTypeOK
  <2>2. \A d \in Ends : IsPrefix(InFlight(d)', InFlight(d))
    BY <1>6, PrefixOfConcat, EmptySeq
  <2>3. Channel!Cut
    BY <1>1, <2>1, <2>2, Cuts
  <2> QED
    BY <2>3 DEF Channel!Next
<1> QED
  BY <1>7, <1>8

LEMMA NextMaps ==
  CInv /\ CInv' /\ [WsNext]_wsVars => [Channel!Next]_Channel!channelVars
<1> SUFFICES ASSUME CInv, CInv', [WsNext]_wsVars
             PROVE  Channel!Next \/ UNCHANGED Channel!channelVars
  OBVIOUS
<1>1. CASE HandshakeStep
  BY <1>1, HandshakeMaps DEF CInv
<1>2. ASSUME NEW e \in Ends, EndStep(e) PROVE Channel!Next \/ UNCHANGED Channel!channelVars
  BY <1>2, StrandMaps, WriteMaps, ReadMaps, ErrorMaps, ReleaseMaps DEF EndStep
<1>3. CASE RequestTimerDue \/ IdleTimerDue \/ UNCHANGED wsVars
  <2>1. UNCHANGED <<reader, wire, sock, strand, queue, closed, cut>>
    BY <1>3 DEF RequestTimerDue, IdleTimerDue, wsVars, sending
  <2>2. \A d \in Ends : InFlight(d)' = InFlight(d)
    BY <2>1, SameInFlight
  <2> QED
    BY <2>1, <2>2, Stutters
<1>4. CASE RequestTimeout \/ CutOff
  BY <1>4, CutMaps
<1>5. CASE ShutdownThrows
  BY <1>5, ShutdownMaps
<1>6. CASE IdleTimeout \/ ClientSends \/ ClientCloses
  BY <1>6, ProgramMaps
<1> QED
  BY <1>1, <1>2, <1>3, <1>4, <1>5, <1>6 DEF WsNext

\* A connection implements a pair of channels, whatever is sent, closed, timed out or cut:
\* frames arrive whole, once and in the order of the calls of send, and one is lost only
\* when the connection was cut or closed.
THEOREM ConnectionIsChannel == WsSpec => ImplementsFrameChannel
<1>1. WsInit => Channel!Init
  <2> SUFFICES ASSUME WsInit PROVE Channel!Init
    OBVIOUS
  <2>1. TInv
    BY InitHandshake
  <2>2. ASSUME NEW e \in Ends PROVE ~Receiving(e) /\ reader[e] # "stopped" /\ closed[e] = FALSE
    BY DEF WsInit, Receiving
  <2>3. \A e \in Ends : InFlight(e) = <<>> /\ reader[Peer(e)] # "stopped"
    BY <2>1, <2>2, InFlightType, TwoEnds
  <2>4. closed = [e \in Ends |-> FALSE] /\ cut = FALSE
    BY DEF WsInit
  <2> QED
    BY <2>3, <2>4 DEF Channel!Init
<1> QED
  BY <1>1, InitConnection, NextConnection, NextMaps, PTL
     DEF WsSpec, ImplementsFrameChannel, Channel!Spec
=============================================================================
