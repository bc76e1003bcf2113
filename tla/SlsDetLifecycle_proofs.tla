----------------------- MODULE SlsDetLifecycle_proofs -----------------------
(***************************************************************************)
(* Proofs about the end of a driver, for any queue capacity and any number *)
(* of cells: a string answer points to the string it was made for, and an  *)
(* end that overlaps with no request uses nothing after its end and leaves *)
(* nothing behind.                                                         *)
(***************************************************************************)
EXTENDS SlsDetLifecycle, SequenceTheorems, TLAPS

-----------------------------------------------------------------------------
(* Type correctness *)

Kinds == {"string", "plain", "Exit"}
Asked == [kind : Kinds, tag : Serials]
Reply == [kind : Kinds, tag : Serials, cell : Cells \cup {NoCell}]

Call == [pc : {"idle", "flush", "wait", "done"}, kind : {"string", "plain"}, tag : Serials,
         ret : Reply]

Worker == [pc : {"loop", "receive", "test", "construct", "hostname", "shutdown", "retest",
                 "library", "reply", "ended"},
           req : Asked, rep : Reply]

QueueTypes ==
  requestQ \in Seq(Asked) /\ replyQ \in Seq(Reply) /\ pending \in Nat /\ call \in Call

WorkerTypes ==
  /\ worker \in Worker
  /\ cache \in Cells \cup {NoCell} /\ text \in [Cells -> Serials \cup {Freed}]

ObjectTypes ==
  ptr \in {"NULL", "set"} /\ object \in {"none", "live", "deleted"} /\ shm \in BOOLEAN

EndTypes ==
  /\ down \in [Enders -> {"out", "test", "delete", "null", "free"}]
  /\ exit \in {"idle", "shutdown", "handlers", "ended"}
  /\ owner \in {"none", "port", "running", "stopReply", "timedWait", "wait", "driver",
                "destroyed", "done"}
  /\ running \in BOOLEAN /\ overlapped \in BOOLEAN /\ troubled \in BOOLEAN
  /\ mishap \in {"none", "useAfterDelete", "doubleDelete", "lostObject", "queueDestroyed"}

LifecycleTypeOK == QueueTypes /\ WorkerTypes /\ ObjectTypes /\ EndTypes

\* A caller that waits is owed an answer.
Owing == call.pc = "wait" => pending > 0

LEMMA BareType ==
  ASSUME NEW kind \in Kinds, NEW tag \in Serials
  PROVE  Bare(kind, tag) \in Reply
BY DEF Bare, Reply

\* request() and flush() keep the types, and _pending natural
\* (slsDetDriver.cpp:541-589).
LEMMA CallerTypes ==
  ASSUME LifecycleTypeOK, Owing, CallerStep
  PROVE  LifecycleTypeOK'
<1> USE DEF LifecycleTypeOK, QueueTypes
<1>1. UNCHANGED <<worker, objectVars, stringVars, down, exit, owner, running, troubled, mishap>>
  BY DEF CallerStep, RequestBegin, FlushReceive, SendRequest, Send, ReceiveReply, RequestTimeout,
     RequestReturn, endVars
<1>2. overlapped' \in BOOLEAN
  BY DEF CallerStep, RequestBegin, FlushReceive, SendRequest, Send, ReceiveReply, RequestTimeout,
     RequestReturn, endVars, EndTypes
<1>3. WorkerTypes' /\ ObjectTypes' /\ EndTypes'
  BY <1>1, <1>2 DEF WorkerTypes, ObjectTypes, EndTypes, objectVars, stringVars
<1>4. QueueTypes'
  <2>1. CASE RequestBegin
    BY <2>1 DEF RequestBegin, Call
  <2>2. CASE FlushReceive
    BY <2>2 DEF FlushReceive
  <2>3. CASE SendRequest
    <3>1. [kind |-> call.kind, tag |-> call.tag] \in Asked
      BY DEF Call, Asked, Kinds
    <3>2. call' \in Call
      BY <2>3 DEF SendRequest, Send, Call
    <3> QED BY <2>3, <3>1, <3>2 DEF SendRequest, Send
  <2>4. CASE ReceiveReply
    <3>1. Head(replyQ) \in Reply /\ Tail(replyQ) \in Seq(Reply)
      BY <2>4 DEF ReceiveReply
    <3>2. call' \in Call
      BY <2>4, <3>1 DEF ReceiveReply, Call
    <3>3. pending' \in Nat
      BY <2>4 DEF ReceiveReply, Owing
    <3> QED BY <2>4, <3>1, <3>2, <3>3 DEF ReceiveReply
  <2>5. CASE RequestTimeout
    <3>1. Bare("plain", call.tag) \in Reply
      BY BareType DEF Call, Kinds
    <3>2. call' \in Call
      BY <2>5, <3>1 DEF RequestTimeout, Call
    <3> QED BY <2>5, <3>2 DEF RequestTimeout
  <2>6. CASE RequestReturn
    BY <2>6 DEF RequestReturn, Call
  <2> QED BY <2>1, <2>2, <2>3, <2>4, <2>5, <2>6 DEF CallerStep
<1> QED BY <1>3, <1>4

\* run(), initialize(), process() and cacheStr() keep the types
\* (slsDetDriver.cpp:602-826).
LEMMA WorkerStepTypes ==
  ASSUME LifecycleTypeOK, WorkerStep
  PROVE  LifecycleTypeOK'
<1> USE DEF LifecycleTypeOK, WorkerTypes, ObjectTypes
<1>1. ASSUME NEW pc \in {"loop", "receive", "test", "construct", "hostname", "shutdown", "retest",
                         "library", "reply", "ended"}, Goto(pc)
      PROVE  worker' \in Worker
  BY <1>1 DEF Goto, Worker
<1>2. ASSUME NEW rep \in Reply, AnswerWith(rep) PROVE worker' \in Worker
  BY <1>2 DEF AnswerWith, Worker
<1>3. worker.req \in Asked /\ worker.rep \in Reply /\ worker.req.tag \in Serials
  BY DEF Worker, Asked
<1>4. Bare("plain", worker.req.tag) \in Reply
  BY <1>3, BareType DEF Kinds
<1>5. CASE WorkerLoop
  <2>1. worker' \in Worker
    BY <1>1, <1>5 DEF WorkerLoop
  <2> QED BY <1>5, <2>1 DEF WorkerLoop, queueVars, objectVars, stringVars, endVars, QueueTypes, EndTypes
<1>6. CASE WorkerReceive
  <2>1. Head(requestQ) \in Asked /\ Tail(requestQ) \in Seq(Asked)
    BY <1>6 DEF WorkerReceive, QueueTypes
  <2>2. worker' \in Worker
    BY <1>6, <2>1 DEF WorkerReceive, Worker
  <2> QED BY <1>6, <2>1, <2>2 DEF WorkerReceive, objectVars, stringVars, endVars, QueueTypes, EndTypes
<1>7. CASE WorkerTest
  <2>1. worker' \in Worker
    BY <1>1, <1>7 DEF WorkerTest
  <2> QED BY <1>7, <2>1 DEF WorkerTest, queueVars, objectVars, stringVars, endVars, QueueTypes, EndTypes
<1>8. CASE WorkerConstruct
  <2>1. worker' \in Worker
    BY <1>1, <1>8 DEF WorkerConstruct
  <2>2. ptr' \in {"NULL", "set"} /\ object' \in {"none", "live", "deleted"} /\ shm' \in BOOLEAN
    BY <1>8 DEF WorkerConstruct, objectVars
  <2>3. UNCHANGED <<queueVars, stringVars, endVars, troubled, mishap>>
    BY <1>8 DEF WorkerConstruct
  <2> QED BY <2>1, <2>2, <2>3 DEF queueVars, stringVars, endVars, QueueTypes, EndTypes
<1>9. CASE WorkerHostname
  <2>1. worker' \in Worker
    BY <1>1, <1>9 DEF WorkerHostname
  <2>2. down' \in [Enders -> {"out", "test", "delete", "null", "free"}]
    BY <1>9 DEF WorkerHostname, EndTypes
  <2> QED BY <1>9, <2>1, <2>2 DEF WorkerHostname, queueVars, objectVars, stringVars, QueueTypes, EndTypes
<1>10. CASE WorkerShutdownReturns
  <2>1. worker' \in Worker
    BY <1>1, <1>10 DEF WorkerShutdownReturns
  <2> QED BY <1>10, <2>1 DEF WorkerShutdownReturns, queueVars, objectVars, stringVars, endVars, QueueTypes, EndTypes
<1>11. CASE WorkerRetest
  <2>1. worker' \in Worker
    BY <1>1, <1>2, <1>4, <1>11 DEF WorkerRetest
  <2>2. mishap' \in {mishap, "useAfterDelete"}
    BY <1>11 DEF WorkerRetest, Hurt
  <2> QED BY <1>11, <2>1, <2>2 DEF WorkerRetest, queueVars, objectVars, stringVars, endVars, QueueTypes, EndTypes
<1>12. CASE WorkerProcess
  <2>1. /\ worker' \in Worker /\ cache' \in Cells \cup {NoCell}
        /\ text' \in [Cells -> Serials \cup {Freed}]
    <3>1. CASE AnswerWith(Bare("plain", worker.req.tag)) /\ UNCHANGED stringVars
      BY <1>2, <1>4, <3>1 DEF stringVars
    <3> DEFINE freed == [c \in Cells |-> IF c = cache THEN Freed ELSE text[c]]
    <3>2. ASSUME NEW c \in Cells,
                 text' = [freed EXCEPT ![c] = worker.req.tag], cache' = c,
                 AnswerWith([kind |-> "string", tag |-> worker.req.tag, cell |-> c])
          PROVE  /\ worker' \in Worker /\ cache' \in Cells \cup {NoCell}
                 /\ text' \in [Cells -> Serials \cup {Freed}]
      <4>1. [kind |-> "string", tag |-> worker.req.tag, cell |-> c] \in Reply
        BY <1>3 DEF Reply, Kinds
      <4>2. freed \in [Cells -> Serials \cup {Freed}]
        OBVIOUS
      <4> HIDE DEF freed
      <4> QED BY <1>2, <1>3, <3>2, <4>1, <4>2
    <3> QED BY <1>12, <3>1, <3>2 DEF WorkerProcess
  <2> QED BY <1>12, <2>1 DEF WorkerProcess, queueVars, objectVars, endVars, QueueTypes, EndTypes
<1>13. CASE WorkerReply
  <2>1. worker' \in Worker
    BY <1>1, <1>13 DEF WorkerReply
  <2>2. replyQ' \in Seq(Reply)
    BY <1>3, <1>13 DEF WorkerReply, QueueTypes
  <2> QED BY <1>13, <2>1, <2>2 DEF WorkerReply, objectVars, stringVars, endVars, QueueTypes, EndTypes
<1>14. CASE WorkerOnDestroyedQueue
  BY <1>14 DEF WorkerOnDestroyedQueue, Hurt, queueVars, objectVars, stringVars, endVars, QueueTypes, EndTypes
<1> QED BY <1>5, <1>6, <1>7, <1>8, <1>9, <1>10, <1>11, <1>12, <1>13, <1>14 DEF WorkerStep

\* shutdown() keeps the types (slsDetDriver.cpp:828-836).
LEMMA ShutdownTypes ==
  ASSUME LifecycleTypeOK, NEW t \in Enders,
         ShutdownTest(t) \/ ShutdownDelete(t) \/ ShutdownNull(t) \/ ShutdownFree(t)
  PROVE  LifecycleTypeOK'
<1> USE DEF LifecycleTypeOK
<1>1. /\ UNCHANGED <<queueVars, worker, stringVars, exit, owner, running, overlapped, troubled>>
      /\ \E pc \in {"out", "delete", "null", "free"} : DownGoto(t, pc)
  BY DEF ShutdownTest, ShutdownDelete, ShutdownNull, ShutdownFree
<1>2. down' \in [Enders -> {"out", "test", "delete", "null", "free"}]
  BY <1>1 DEF DownGoto, EndTypes
<1>3. ObjectTypes'
  BY DEF ShutdownTest, ShutdownDelete, ShutdownNull, ShutdownFree, objectVars, ObjectTypes
<1>4. mishap' \in {mishap, "useAfterDelete", "doubleDelete", "lostObject"}
  BY DEF ShutdownTest, ShutdownDelete, ShutdownNull, ShutdownFree, Hurt, ObjectTypes
<1> QED BY <1>1, <1>2, <1>3, <1>4 DEF QueueTypes, WorkerTypes, EndTypes, queueVars, stringVars

\* The exit handler and the destructors keep the types (slsDetDriver.cpp:38-53,
\* drvAsynSlsDetPort.cpp:221-235).
LEMMA EndStepTypes ==
  ASSUME LifecycleTypeOK, ExitStep \/ OwnerStep
  PROVE  LifecycleTypeOK'
<1> USE DEF LifecycleTypeOK
<1>1. UNCHANGED <<pending, call, worker, objectVars, stringVars, troubled, mishap>>
  BY DEF ExitStep, ExitBegin, ExitShutdownReturns, ProcessEnds, OwnerStep, OwnerBegin,
     OwnerStopsRunning, OwnerStopReply, OwnerStopRequest, OwnerWaited, OwnerDestroysQueues,
     OwnerJoins, queueVars
<1>2. /\ exit' \in {exit, "shutdown", "handlers", "ended"}
      /\ owner' \in {owner, "port", "running", "stopReply", "timedWait", "wait", "driver",
                     "destroyed", "done"}
      /\ running' \in {running, FALSE}
  BY DEF ExitStep, ExitBegin, ExitShutdownReturns, ProcessEnds, OwnerStep, OwnerBegin,
     OwnerStopsRunning, OwnerStopReply, OwnerStopRequest, OwnerWaited, OwnerDestroysQueues,
     OwnerJoins, OwnerGoto
<1>3. overlapped' \in BOOLEAN
  <2>1. CASE ExitBegin \/ OwnerBegin
    <3>1. overlapped' = (pending > 0)
      BY <2>1 DEF ExitBegin, OwnerBegin
    <3> QED BY <3>1
  <2>2. CASE ~(ExitBegin \/ OwnerBegin)
    <3>1. overlapped' = overlapped
      BY <2>2 DEF ExitStep, ExitShutdownReturns, ProcessEnds, OwnerStep, OwnerStopsRunning,
         OwnerStopReply, OwnerStopRequest, OwnerWaited, OwnerDestroysQueues, OwnerJoins
    <3> QED BY <3>1 DEF EndTypes
  <2> QED BY <2>1, <2>2
<1>4. down' \in [Enders -> {"out", "test", "delete", "null", "free"}]
  <2>1. down' = down \/ \E t \in Enders : DownGoto(t, "test")
    BY DEF ExitStep, ExitBegin, ExitShutdownReturns, ProcessEnds, OwnerStep, OwnerBegin,
       OwnerStopsRunning, OwnerStopReply, OwnerStopRequest, OwnerWaited, OwnerDestroysQueues,
       OwnerJoins, Enders
  <2> QED BY <2>1 DEF DownGoto, EndTypes
<1>5. requestQ' \in Seq(Asked) /\ replyQ' \in Seq(Reply)
  <2>1. UNCHANGED <<requestQ, replyQ>> \/ OwnerStopReply \/ OwnerStopRequest
    BY DEF ExitStep, ExitBegin, ExitShutdownReturns, ProcessEnds, OwnerStep, OwnerBegin,
       OwnerStopsRunning, OwnerWaited, OwnerDestroysQueues, OwnerJoins, queueVars
  <2>2. call.tag \in Serials
    BY DEF QueueTypes, Call
  <2>3. /\ Bare("Exit", call.tag) \in Reply /\ [kind |-> "Exit", tag |-> call.tag] \in Asked
        /\ requestQ \in Seq(Asked) /\ replyQ \in Seq(Reply)
    BY <2>2, BareType DEF Kinds, Asked, QueueTypes
  <2>4. CASE UNCHANGED <<requestQ, replyQ>>
    BY <2>3, <2>4
  <2>5. CASE OwnerStopReply
    BY <2>3, <2>5 DEF OwnerStopReply
  <2>6. CASE OwnerStopRequest
    BY <2>3, <2>6 DEF OwnerStopRequest
  <2> QED BY <2>1, <2>4, <2>5, <2>6
<1>6. QueueTypes'
  BY <1>1, <1>5 DEF QueueTypes
<1>7. WorkerTypes' /\ ObjectTypes'
  BY <1>1 DEF WorkerTypes, ObjectTypes, objectVars, stringVars
<1>8. running' \in BOOLEAN
  BY <1>2 DEF EndTypes
<1>9. /\ exit' \in {"idle", "shutdown", "handlers", "ended"}
      /\ owner' \in {"none", "port", "running", "stopReply", "timedWait", "wait", "driver",
                     "destroyed", "done"}
  BY <1>2 DEF EndTypes
<1>10. EndTypes'
  BY <1>1, <1>3, <1>4, <1>8, <1>9 DEF EndTypes
<1> QED
  BY <1>6, <1>7, <1>10

LEMMA TypesInductive == LifecycleTypeOK /\ Owing /\ [Next]_vars => LifecycleTypeOK'
<1> SUFFICES ASSUME LifecycleTypeOK, Owing, [Next]_vars PROVE LifecycleTypeOK'
  OBVIOUS
<1>1. CASE UNCHANGED vars
  BY <1>1 DEF vars, queueVars, objectVars, stringVars, endVars, LifecycleTypeOK, QueueTypes,
     WorkerTypes, ObjectTypes, EndTypes
<1>2. CASE Trouble
  BY <1>2 DEF Trouble, queueVars, objectVars, stringVars, endVars, LifecycleTypeOK, QueueTypes,
     WorkerTypes, ObjectTypes, EndTypes
<1>3. CASE ShutdownStep
  BY <1>3, ShutdownTypes DEF ShutdownStep
<1> QED BY <1>1, <1>2, <1>3, CallerTypes, WorkerStepTypes, EndStepTypes DEF Next

LEMMA InitiallyTyped == Init => LifecycleTypeOK
<1> SUFFICES ASSUME Init PROVE LifecycleTypeOK
  OBVIOUS
<1>1. PICK s \in Serials :
        /\ call = [pc |-> "idle", kind |-> "plain", tag |-> s, ret |-> Bare("plain", s)]
        /\ worker = [pc |-> "loop", req |-> [kind |-> "plain", tag |-> s], rep |-> Bare("plain", s)]
  BY DEF Init
<1>2. Bare("plain", s) \in Reply /\ [kind |-> "plain", tag |-> s] \in Asked
  BY BareType DEF Kinds, Asked
<1>3. call \in Call /\ worker \in Worker
  BY <1>1, <1>2 DEF Call, Worker
<1>4. QueueTypes /\ WorkerTypes
  BY <1>3 DEF Init, QueueTypes, WorkerTypes
<1>5. ObjectTypes
  BY DEF Init, ObjectTypes
<1>6. EndTypes
  BY DEF Init, EndTypes
<1> QED BY <1>4, <1>5, <1>6 DEF LifecycleTypeOK

-----------------------------------------------------------------------------
(* The strings *)

\* The worker has no request.
Unasked == worker.pc \in {"loop", "receive", "ended"}

InFlight == Len(requestQ) + Len(replyQ) + (IF Unasked THEN 0 ELSE 1)

\* Until stop() puts its own messages into the queues _pending is exact.
Counted == owner \in {"none", "port", "running"} => pending = InFlight /\ pending <= 1

\* Only a port that nobody deletes has a caller.
CallerOwns == call.pc # "idle" => owner = "none"

\* The string of an answer is the one made for its request.
Holds(rep) == rep.kind = "string" => rep.cell \in Cells /\ text[rep.cell] = rep.tag

HeldAtWorker == worker.pc = "reply" => worker.rep.tag = worker.req.tag /\ Holds(worker.rep)

\* What is in flight while the caller waits is for the caller.
HeldOnTheWay ==
  call.pc = "wait" =>
    /\ pending = 1
    /\ requestQ # <<>> => Head(requestQ).tag = call.tag
    /\ ~Unasked => worker.req.tag = call.tag
    /\ replyQ # <<>> => Head(replyQ).tag = call.tag /\ Holds(Head(replyQ))

\* A string that the caller has got is not owed any more: no request is left that
\* could free it.
HeldAtCaller ==
  call.pc = "done" /\ call.ret.kind = "string" =>
    pending = 0 /\ call.ret.tag = call.tag /\ Holds(call.ret)

StringInv == Counted /\ CallerOwns /\ HeldAtWorker /\ HeldOnTheWay /\ HeldAtCaller

\* While the cells stay, so does what answers point to.
LEMMA HoldsStays == UNCHANGED text => \A rep : Holds(rep)' <=> Holds(rep)
BY DEF Holds

LEMMA AskedFacts ==
  ASSUME NEW q \in Seq(Asked), NEW x \in Asked
  PROVE  /\ Len(q) \in Nat /\ (q = <<>> <=> Len(q) = 0)
         /\ Len(Append(q, x)) = Len(q) + 1 /\ (q = <<>> => Head(Append(q, x)) = x)
         /\ q # <<>> => Len(Tail(q)) = Len(q) - 1 /\ Tail(q) \in Seq(Asked) /\ Head(q) \in Asked
BY EmptySeq, AppendProperties, HeadTailProperties

LEMMA ReplyFacts ==
  ASSUME NEW q \in Seq(Reply), NEW x \in Reply
  PROVE  /\ Len(q) \in Nat /\ (q = <<>> <=> Len(q) = 0)
         /\ Len(Append(q, x)) = Len(q) + 1 /\ (q = <<>> => Head(Append(q, x)) = x)
         /\ q # <<>> => Len(Tail(q)) = Len(q) - 1 /\ Tail(q) \in Seq(Reply) /\ Head(q) \in Reply
BY EmptySeq, AppendProperties, HeadTailProperties

\* With nothing owed nothing is in flight, with one answer owed just one thing is.
LEMMA FlightFacts ==
  ASSUME LifecycleTypeOK, StringInv, owner \in {"none", "port", "running"}
  PROVE  /\ pending = 0 => requestQ = <<>> /\ replyQ = <<>> /\ Unasked
         /\ ~Unasked => requestQ = <<>> /\ replyQ = <<>> /\ pending = 1
         /\ requestQ # <<>> => Tail(requestQ) = <<>> /\ replyQ = <<>> /\ Unasked /\ pending = 1
         /\ replyQ # <<>> => Tail(replyQ) = <<>> /\ requestQ = <<>> /\ Unasked /\ pending = 1
<1>1. requestQ \in Seq(Asked) /\ replyQ \in Seq(Reply) /\ pending \in Nat
  BY DEF LifecycleTypeOK, QueueTypes
<1> DEFINE m == Len(requestQ)
           n == Len(replyQ)
           k == IF Unasked THEN 0 ELSE 1
<1>2. pending = m + n + k /\ pending <= 1
  BY DEF StringInv, Counted, InFlight
<1>3. m \in Nat /\ n \in Nat /\ k \in {0, 1} /\ (Unasked <=> k = 0)
  BY <1>1
<1>4. /\ requestQ = <<>> <=> m = 0
      /\ replyQ = <<>> <=> n = 0
      /\ requestQ # <<>> => Len(Tail(requestQ)) = m - 1 /\ Tail(requestQ) \in Seq(Asked)
      /\ replyQ # <<>> => Len(Tail(replyQ)) = n - 1 /\ Tail(replyQ) \in Seq(Reply)
  BY <1>1, EmptySeq, HeadTailProperties
<1>5. /\ \A q \in Seq(Asked) : Len(q) = 0 => q = <<>>
      /\ \A q \in Seq(Reply) : Len(q) = 0 => q = <<>>
  BY EmptySeq
<1> HIDE DEF m, n, k
<1>6. /\ pending = 0 => m = 0 /\ n = 0 /\ k = 0
      /\ k = 1 => m = 0 /\ n = 0 /\ pending = 1
      /\ m # 0 => m - 1 = 0 /\ n = 0 /\ k = 0 /\ pending = 1
      /\ n # 0 => n - 1 = 0 /\ m = 0 /\ k = 0 /\ pending = 1
  BY <1>1, <1>2, <1>3
<1> QED BY <1>3, <1>4, <1>5, <1>6

\* request() and flush() (slsDetDriver.cpp:541-589).
LEMMA CallerStrings ==
  ASSUME LifecycleTypeOK, StringInv, CallerStep
  PROVE  StringInv'
<1> USE DEF StringInv, HeldAtWorker, HeldOnTheWay, HeldAtCaller, CallerOwns
<1>1. UNCHANGED <<worker, text, owner>>
  BY DEF CallerStep, RequestBegin, FlushReceive, SendRequest, Send, ReceiveReply, RequestTimeout,
     RequestReturn, stringVars, endVars
<1>2. /\ \A rep : Holds(rep)' <=> Holds(rep)
      /\ Unasked' <=> Unasked
      /\ HeldAtWorker'
  BY <1>1, HoldsStays DEF Unasked
<1>3. /\ requestQ \in Seq(Asked) /\ replyQ \in Seq(Reply) /\ pending \in Nat /\ call \in Call
      /\ Len(requestQ) \in Nat /\ Len(replyQ) \in Nat
  BY DEF LifecycleTypeOK, QueueTypes
<1>4. UNCHANGED <<requestQ, replyQ, pending>> => Counted'
  BY <1>1, <1>2 DEF Counted, InFlight
<1>5. CASE RequestBegin
  BY <1>1, <1>2, <1>3, <1>4, <1>5 DEF RequestBegin, Call
<1>6. CASE FlushReceive
  <2>1. replyQ # <<>> /\ call.pc = "flush" /\ owner = "none" /\ call' = call
    BY <1>6 DEF FlushReceive
  <2>2. pending = 1 /\ requestQ = <<>> /\ Tail(replyQ) = <<>> /\ Unasked
    BY <2>1, FlightFacts
  <2>3. requestQ' = <<>> /\ replyQ' = <<>> /\ pending' = 0
    BY <1>6, <2>2 DEF FlushReceive
  <2>4. Counted'
    BY <1>2, <2>2, <2>3 DEF Counted, InFlight
  <2> QED BY <1>1, <1>2, <2>1, <2>4
<1>7. CASE SendRequest
  <2> DEFINE x == [kind |-> call.kind, tag |-> call.tag]
  <2>1. /\ call.pc = "flush" /\ pending = 0 /\ owner = "none"
        /\ requestQ' = Append(requestQ, x) /\ pending' = pending + 1 /\ replyQ' = replyQ
        /\ call'.pc = "wait" /\ call'.tag = call.tag
    BY <1>3, <1>7 DEF SendRequest, Send, Call
  <2>2. requestQ = <<>> /\ replyQ = <<>> /\ Unasked
    BY <2>1, FlightFacts
  <2>3. x \in Asked
    BY <1>3 DEF Asked, Call, Kinds
  <2>4. Len(requestQ') = 1 /\ Head(requestQ') = x
    BY <1>3, <2>1, <2>2, <2>3, AskedFacts
  <2>5. Counted'
    BY <1>2, <2>1, <2>2, <2>4 DEF Counted, InFlight
  <2> QED BY <1>1, <1>2, <2>1, <2>2, <2>4, <2>5
<1>8. CASE ReceiveReply
  <2>1. /\ replyQ # <<>> /\ call.pc = "wait" /\ owner = "none"
        /\ call'.pc = "done" /\ call'.ret = Head(replyQ) /\ call'.tag = call.tag
    BY <1>3, <1>8 DEF ReceiveReply, Call
  <2>2. pending = 1 /\ requestQ = <<>> /\ Tail(replyQ) = <<>> /\ Unasked
    BY <2>1, FlightFacts
  <2>3. requestQ' = <<>> /\ replyQ' = <<>> /\ pending' = 0
    BY <1>8, <2>2 DEF ReceiveReply
  <2>4. Counted'
    BY <1>2, <2>2, <2>3 DEF Counted, InFlight
  <2> QED BY <1>1, <1>2, <2>1, <2>3, <2>4
<1>9. CASE RequestTimeout
  <2>1. call'.pc = "done" /\ call'.ret.kind = "plain" /\ call.pc # "idle"
    BY <1>3, <1>9 DEF RequestTimeout, Call, Bare
  <2> QED BY <1>1, <1>2, <1>4, <1>9, <2>1 DEF RequestTimeout
<1>10. CASE RequestReturn
  <2>1. call'.pc = "idle"
    BY <1>3, <1>10 DEF RequestReturn, Call
  <2> QED BY <1>1, <1>2, <1>4, <1>10, <2>1 DEF RequestReturn
<1> QED BY <1>5, <1>6, <1>7, <1>8, <1>9, <1>10 DEF CallerStep

\* run(), process() and cacheStr(): a string is freed only for the next one, and
\* that one is asked for by a later call (slsDetDriver.cpp:634-642, 768-826).
LEMMA WorkerStrings ==
  ASSUME LifecycleTypeOK, StringInv, WorkerStep
  PROVE  StringInv'
<1> USE DEF StringInv, HeldAtWorker, HeldOnTheWay, HeldAtCaller, CallerOwns
<1>1. UNCHANGED <<pending, call, owner>>
  BY DEF WorkerStep, WorkerLoop, WorkerReceive, WorkerTest, WorkerConstruct, WorkerHostname,
     WorkerShutdownReturns, WorkerRetest, WorkerProcess, WorkerReply, WorkerOnDestroyedQueue,
     queueVars, endVars
<1>2. /\ requestQ \in Seq(Asked) /\ replyQ \in Seq(Reply) /\ pending \in Nat /\ call \in Call
      /\ worker \in Worker
  BY DEF LifecycleTypeOK, QueueTypes, WorkerTypes
<1>3. /\ call.pc = "wait" => owner = "none"
      /\ call.pc = "done" => owner = "none"
  OBVIOUS
  \* A step that goes on without touching queues and strings.
<1>4. ASSUME UNCHANGED <<requestQ, replyQ, text>>, Unasked' <=> Unasked,
             ~Unasked => worker'.req = worker.req,
             worker'.pc = "reply" => worker' = worker \/ worker'.rep = Bare("plain", worker'.req.tag)
      PROVE  StringInv'
  <2>1. \A rep : Holds(rep)' <=> Holds(rep)
    BY <1>4, HoldsStays
  <2>2. Counted'
    BY <1>1, <1>4 DEF Counted, InFlight
  <2>3. HeldAtWorker'
    BY <1>4, <2>1 DEF Bare, Holds
  <2> QED BY <1>1, <1>4, <2>1, <2>2, <2>3
<1>5. CASE WorkerLoop \/ WorkerTest \/ WorkerConstruct \/ WorkerHostname \/ WorkerShutdownReturns
  <2>1. PICK pc \in {"receive", "ended", "construct", "retest", "hostname", "shutdown"} :
          /\ Goto(pc)
          /\ pc \in {"receive", "ended"} <=> Unasked
    BY <1>5 DEF WorkerLoop, WorkerTest, WorkerConstruct, WorkerHostname, WorkerShutdownReturns, At,
       Unasked
  <2>2. worker'.pc = pc /\ worker'.req = worker.req
    BY <1>2, <2>1 DEF Goto, Worker
  <2>3. UNCHANGED <<requestQ, replyQ, text>>
    BY <1>5 DEF WorkerLoop, WorkerTest, WorkerConstruct, WorkerHostname, WorkerShutdownReturns,
       queueVars, stringVars
  <2> QED BY <1>4, <2>1, <2>2, <2>3 DEF Unasked
<1>6. CASE WorkerReceive
  <2>1. /\ requestQ # <<>> /\ worker.pc = "receive" /\ UNCHANGED <<replyQ, text>>
        /\ worker'.pc = "test" /\ worker'.req = Head(requestQ) /\ requestQ' = Tail(requestQ)
    BY <1>2, <1>6 DEF WorkerReceive, At, Worker, stringVars
  <2>2. \A rep : Holds(rep)' <=> Holds(rep)
    BY <2>1, HoldsStays
  <2>3. ~Unasked'
    BY <2>1 DEF Unasked
  <2>4. owner \in {"none", "port", "running"} =>
          requestQ' = <<>> /\ replyQ' = <<>> /\ pending = 1
    BY <2>1, FlightFacts
  <2>5. Counted'
    BY <1>1, <2>3, <2>4 DEF Counted, InFlight
  <2> QED BY <1>1, <1>3, <2>1, <2>2, <2>3, <2>4, <2>5
<1>7. CASE WorkerRetest
  <2>1. /\ worker.pc = "retest" /\ UNCHANGED <<requestQ, replyQ, text>>
        /\ \/ worker' = worker
           \/ AnswerWith(Bare("plain", worker.req.tag))
           \/ Goto("library")
    BY <1>7 DEF WorkerRetest, At, queueVars, stringVars
  <2>2. CASE worker' = worker
    BY <1>4, <2>1, <2>2 DEF Unasked
  <2>3. CASE AnswerWith(Bare("plain", worker.req.tag))
    <3>1. /\ worker'.pc = "reply" /\ worker'.req = worker.req
          /\ worker'.rep = Bare("plain", worker.req.tag)
      BY <1>2, <2>3 DEF AnswerWith, Worker
    <3> QED BY <1>4, <2>1, <3>1 DEF Unasked
  <2>4. CASE Goto("library")
    <3>1. worker'.pc = "library" /\ worker'.req = worker.req
      BY <1>2, <2>4 DEF Goto, Worker
    <3> QED BY <1>4, <2>1, <3>1 DEF Unasked
  <2> QED BY <2>1, <2>2, <2>3, <2>4
<1>8. CASE WorkerProcess
  <2>1. worker.pc = "library" /\ UNCHANGED <<requestQ, replyQ>> /\ ~Unasked
    BY <1>8 DEF WorkerProcess, At, queueVars, Unasked
  <2>2. CASE AnswerWith(Bare("plain", worker.req.tag)) /\ UNCHANGED stringVars
    <3>1. /\ worker'.pc = "reply" /\ worker'.req = worker.req /\ UNCHANGED text
          /\ worker'.rep = Bare("plain", worker.req.tag)
      BY <1>2, <2>2 DEF AnswerWith, Worker, stringVars
    <3> QED BY <1>4, <2>1, <3>1 DEF Unasked
  <2> DEFINE freed == [c \in Cells |-> IF c = cache THEN Freed ELSE text[c]]
  <2>3. ASSUME NEW c \in Cells,
               text' = [freed EXCEPT ![c] = worker.req.tag],
               AnswerWith([kind |-> "string", tag |-> worker.req.tag, cell |-> c])
        PROVE  StringInv'
    <3>1. /\ worker'.pc = "reply" /\ worker'.req = worker.req
          /\ worker'.rep = [kind |-> "string", tag |-> worker.req.tag, cell |-> c]
      BY <1>2, <2>3 DEF AnswerWith, Worker
    <3>2. text'[c] = worker.req.tag
      BY <2>3
    <3>3. HeldAtWorker'
      BY <3>1, <3>2 DEF Holds
    <3>4. owner = "none" => replyQ = <<>> /\ requestQ = <<>> /\ pending = 1
      BY <2>1, FlightFacts
    <3>5. ~Unasked'
      BY <3>1 DEF Unasked
    <3>6. Counted'
      BY <1>1, <2>1, <3>5 DEF Counted, InFlight
    <3>7. HeldOnTheWay' /\ HeldAtCaller'
      BY <1>1, <1>3, <2>1, <3>1, <3>4
    <3> QED BY <1>1, <3>3, <3>6, <3>7
  <2> QED BY <1>8, <2>2, <2>3 DEF WorkerProcess
<1>9. CASE WorkerReply
  <2>1. /\ worker.pc = "reply" /\ UNCHANGED <<requestQ, text>>
        /\ replyQ' = Append(replyQ, worker.rep) /\ worker'.pc = "loop" /\ ~Unasked /\ Unasked'
    BY <1>2, <1>9 DEF WorkerReply, At, Goto, Worker, stringVars, Unasked
  <2>2. worker.rep \in Reply
    BY <1>2 DEF Worker
  <2>3. owner \in {"none", "port", "running"} =>
          /\ requestQ' = <<>> /\ pending = 1
          /\ Len(replyQ') = 1 /\ Head(replyQ') = worker.rep
    <3> SUFFICES ASSUME owner \in {"none", "port", "running"}
                 PROVE  /\ requestQ' = <<>> /\ pending = 1
                        /\ Len(replyQ') = 1 /\ Head(replyQ') = worker.rep
      OBVIOUS
    <3>1. requestQ = <<>> /\ replyQ = <<>> /\ pending = 1
      BY <2>1, FlightFacts
    <3>2. Len(replyQ) = 0
      BY <3>1
    <3> QED BY <1>2, <2>1, <2>2, <3>1, <3>2, ReplyFacts
  <2>4. Counted'
    BY <1>1, <2>1, <2>3 DEF Counted, InFlight
  <2>5. \A rep : Holds(rep)' <=> Holds(rep)
    BY <2>1, HoldsStays
  <2>6. call.pc = "wait" => Head(replyQ').tag = call.tag /\ Holds(worker.rep)
    BY <1>3, <2>1, <2>3
  <2>7. HeldOnTheWay'
    BY <1>1, <1>3, <2>1, <2>3, <2>5, <2>6
  <2>8. HeldAtCaller'
    BY <1>1, <2>5
  <2> QED BY <1>1, <2>1, <2>4, <2>7, <2>8
<1>10. CASE WorkerOnDestroyedQueue
  BY <1>4, <1>10 DEF WorkerOnDestroyedQueue, queueVars, stringVars, Unasked
<1> QED BY <1>5, <1>6, <1>7, <1>8, <1>9, <1>10 DEF WorkerStep

\* The exit handler, the destructors and shutdown() leave calls and cells alone.
LEMMA EndStrings ==
  ASSUME LifecycleTypeOK, StringInv,
         ExitStep \/ OwnerStep \/ ShutdownStep \/ Trouble \/ UNCHANGED vars
  PROVE  StringInv'
<1> USE DEF StringInv, HeldAtWorker, HeldOnTheWay, HeldAtCaller, CallerOwns
<1>1. UNCHANGED <<pending, call, worker, text>>
  BY DEF ExitStep, ExitBegin, ExitShutdownReturns, ProcessEnds, OwnerStep, OwnerBegin,
     OwnerStopsRunning, OwnerStopReply, OwnerStopRequest, OwnerWaited, OwnerDestroysQueues,
     OwnerJoins, ShutdownStep, ShutdownTest, ShutdownDelete, ShutdownNull, ShutdownFree, Trouble,
     vars, queueVars, stringVars
<1>2. /\ Unasked' <=> Unasked
      /\ \A rep : Holds(rep)' <=> Holds(rep)
  BY <1>1, HoldsStays DEF Unasked
<1>3. CASE UNCHANGED <<requestQ, replyQ, owner>>
  BY <1>1, <1>2, <1>3 DEF Counted, InFlight
<1>4. CASE call.pc = "idle" /\ owner' \notin {"none", "port", "running"}
  BY <1>1, <1>2, <1>4 DEF Counted
<1>5. CASE /\ call.pc = "idle" /\ owner \in {"none", "port"}
           /\ UNCHANGED <<requestQ, replyQ>>
  BY <1>1, <1>2, <1>5 DEF Counted, InFlight
<1>6. owner # "none" => call.pc = "idle"
  OBVIOUS
<1>7. CASE OwnerStep
  <2>1. CASE OwnerBegin \/ OwnerStopsRunning
    BY <1>5, <1>6, <2>1 DEF OwnerBegin, OwnerStopsRunning, OwnerGoto, queueVars
  <2>2. CASE ~(OwnerBegin \/ OwnerStopsRunning)
    <3>1. owner # "none" /\ owner' \notin {"none", "port", "running"}
      BY <1>7, <2>2 DEF OwnerStep, OwnerStopReply, OwnerStopRequest, OwnerWaited,
         OwnerDestroysQueues, OwnerJoins, OwnerGoto
    <3> QED BY <1>4, <1>6, <3>1
  <2> QED BY <2>1, <2>2
<1>8. CASE ExitStep \/ ShutdownStep \/ Trouble \/ UNCHANGED vars
  BY <1>3, <1>8 DEF ExitStep, ExitBegin, ExitShutdownReturns, ProcessEnds, ShutdownStep,
     ShutdownTest, ShutdownDelete, ShutdownNull, ShutdownFree, Trouble, vars, queueVars, endVars
<1> QED BY <1>7, <1>8

LEMMA StringsInductive == LifecycleTypeOK /\ StringInv /\ [Next]_vars => StringInv'
BY CallerStrings, WorkerStrings, EndStrings DEF Next

LEMMA StringInvariant == Spec => [](LifecycleTypeOK /\ StringInv)
<1>1. Init => StringInv
  BY DEF Init, StringInv, Counted, InFlight, Unasked, CallerOwns, HeldAtWorker, HeldOnTheWay,
     HeldAtCaller
<1>2. StringInv => Owing
  BY DEF StringInv, HeldOnTheWay, Owing
<1> QED BY <1>1, <1>2, InitiallyTyped, TypesInductive, StringsInductive, PTL DEF Spec

\* Every variable of the end of a driver keeps its type; _pending, unsigned in the
\* code, is never decremented at zero (slsDetDriver.cpp:541-600).
THEOREM LifecycleTypeCorrect == Spec => []LifecycleTypeOK
BY StringInvariant, PTL

\* The string that an answer points to is the one its request asked for until
\* the caller has copied it, for any queues and any timeouts
\* (slsDetDriver.cpp:574-589, 634-642; drvAsynSlsDetPort.cpp:383-456).
THEOREM StringsAreAlive == Spec => []StringIsAlive
<1>1. StringInv => StringIsAlive
  BY DEF StringInv, HeldAtCaller, Holds, StringIsAlive
<1> QED BY <1>1, StringInvariant, PTL

-----------------------------------------------------------------------------
(* A quiet end *)

\* The detector object exists with its shared memory, or neither does.
Whole ==
  \/ ptr = "set" /\ object = "live" /\ shm
  \/ ptr = "NULL" /\ object = "none" /\ ~shm

Gone == ptr = "NULL" /\ object = "none" /\ ~shm

\* What shutdown() finds at each of its steps.
ObjectAt(t) ==
  /\ down[t] = "test" => Whole
  /\ down[t] = "delete" => ptr = "set" /\ object = "live" /\ shm
  /\ down[t] = "null" => ptr = "set" /\ object = "deleted"
  /\ down[t] = "free" => ptr = "NULL" /\ object = "none"

ObjectsOwned ==
  /\ \A t \in Enders : ObjectAt(t)
  /\ (\A t \in Enders : down[t] = "out") => Whole

\* The worker shuts the driver down only inside initialize(), and calls the
\* library only with an object.
WorkerKeeps ==
  /\ down["worker"] # "out" => worker.pc = "shutdown"
  /\ worker.pc = "construct" => ptr = "NULL"
  /\ worker.pc \in {"hostname", "library"} => ptr = "set"

\* While the exit handlers run nothing is owed, and what they shut down stays gone.
ExitKeeps ==
  /\ exit # "idle" => owner = "none" /\ pending = 0
  /\ down["exit"] # "out" => exit = "shutdown"
  /\ exit = "shutdown" /\ down["exit"] = "out" => Gone
  /\ exit \in {"handlers", "ended"} => Gone

\* The destructors wait without a timeout, so that the worker has ended before the
\* driver is shut down for the second time.
OwnerKeeps ==
  /\ owner \in {"none", "port"} => running /\ worker.pc # "ended"
  /\ owner # "none" => pending = 0 /\ owner # "timedWait"
  /\ owner = "stopReply" => Unasked /\ requestQ = <<>>
  /\ down["owner"] # "out" => owner \in {"port", "driver"}
  /\ owner \in {"driver", "destroyed", "done"} => worker.pc = "ended"
  /\ owner = "driver" /\ down["owner"] = "out" => Gone
  /\ owner \in {"destroyed", "done"} => Gone

EndsQuietly == mishap = "none" /\ ObjectsOwned /\ WorkerKeeps /\ ExitKeeps /\ OwnerKeeps

EndInv ==
  /\ exit = "idle" /\ owner = "none" => ~overlapped
  /\ ~overlapped => EndsQuietly

\* Who can be where: only one thread is inside shutdown(), and while the worker
\* has a request no end is under way except the wait for the worker.
LEMMA QuietFacts ==
  ASSUME LifecycleTypeOK, StringInv, EndsQuietly
  PROVE  /\ down["worker"] # "out" => ~Unasked
         /\ ~Unasked => /\ down["exit"] = "out" /\ down["owner"] = "out" /\ exit = "idle"
                        /\ owner \notin {"stopReply", "driver", "destroyed", "done"}
         /\ exit # "idle" => /\ Unasked /\ requestQ = <<>>
                             /\ down["worker"] = "out" /\ down["owner"] = "out"
         /\ down["owner"] # "out" => Unasked /\ down["worker"] = "out" /\ down["exit"] = "out"
         /\ (\A t \in Enders : down[t] = "out") => Whole
<1> USE DEF EndsQuietly
<1>1. down["worker"] # "out" => ~Unasked
  BY DEF WorkerKeeps, Unasked
<1>2. exit # "idle" => owner = "none" /\ Unasked /\ requestQ = <<>>
  BY FlightFacts DEF ExitKeeps
<1>3. owner = "port" => Unasked
  BY FlightFacts DEF OwnerKeeps
<1>4. owner = "driver" => Unasked
  BY DEF OwnerKeeps, Unasked
<1>5. down["owner"] # "out" => owner # "none" /\ Unasked
  BY <1>3, <1>4 DEF OwnerKeeps
<1>6. exit = "idle" => down["exit"] = "out"
  BY DEF ExitKeeps
<1>7. ~Unasked => owner \notin {"stopReply", "driver", "destroyed", "done"}
  BY DEF OwnerKeeps, Unasked
<1>8. (\A t \in Enders : down[t] = "out") => Whole
  BY DEF ObjectsOwned
<1> QED BY <1>1, <1>2, <1>5, <1>6, <1>7, <1>8

\* request() and flush() are no part of an end that no request overlaps with.
LEMMA CallerEndsQuietly ==
  ASSUME LifecycleTypeOK, StringInv, EndsQuietly, CallerStep, ~overlapped'
  PROVE  EndsQuietly'
<1> USE DEF EndsQuietly
<1>1. UNCHANGED <<worker, ptr, object, shm, down, exit, owner, running, mishap>>
  BY DEF CallerStep, RequestBegin, FlushReceive, SendRequest, Send, ReceiveReply, RequestTimeout,
     RequestReturn, endVars, objectVars
<1>2. ObjectsOwned' /\ WorkerKeeps' /\ mishap' = "none"
  BY <1>1 DEF ObjectsOwned, ObjectAt, Whole, WorkerKeeps
<1>3. exit # "idle" => pending' = 0
  <2> SUFFICES ASSUME exit # "idle" PROVE pending' = 0
    OBVIOUS
  <2>1. pending = 0
    BY DEF ExitKeeps
  <2>2. ~SendRequest
    BY DEF SendRequest, Send
  <2>3. ~FlushReceive
    BY <2>1 DEF FlushReceive
  <2>4. ~ReceiveReply
    BY <2>1 DEF ReceiveReply, StringInv, HeldOnTheWay
  <2> QED BY <2>1, <2>2, <2>3, <2>4 DEF CallerStep, RequestBegin, RequestTimeout, RequestReturn
<1>4. ExitKeeps'
  BY <1>1, <1>3 DEF ExitKeeps, Gone
<1>5. owner = "none"
  BY DEF CallerStep, RequestBegin, FlushReceive, SendRequest, Send, ReceiveReply, RequestTimeout,
     RequestReturn, StringInv, CallerOwns
<1>6. OwnerKeeps'
  BY <1>1, <1>5 DEF OwnerKeeps
<1> QED BY <1>2, <1>4, <1>6

\* run() and initialize(): a new object is made only while nobody shuts the
\* driver down, and used only while it is alive (slsDetDriver.cpp:768-826).
LEMMA WorkerEndsQuietly ==
  ASSUME LifecycleTypeOK, StringInv, EndsQuietly, WorkerStep
  PROVE  EndsQuietly'
<1> USE DEF EndsQuietly
<1>1. worker \in Worker /\ down \in [Enders -> {"out", "test", "delete", "null", "free"}]
  BY DEF LifecycleTypeOK, WorkerTypes, EndTypes
<1>2. UNCHANGED <<pending, exit, owner, running>>
  BY DEF WorkerStep, WorkerLoop, WorkerReceive, WorkerTest, WorkerConstruct, WorkerHostname,
     WorkerShutdownReturns, WorkerRetest, WorkerProcess, WorkerReply, WorkerOnDestroyedQueue,
     queueVars, endVars
<1>3. worker.pc # "ended"
  <2>1. ~WorkerOnDestroyedQueue
    BY DEF WorkerOnDestroyedQueue, QueuesGone, OwnerKeeps
  <2> QED BY <2>1 DEF WorkerStep, WorkerLoop, WorkerReceive, WorkerTest, WorkerConstruct,
     WorkerHostname, WorkerShutdownReturns, WorkerRetest, WorkerProcess, WorkerReply, At
<1>4. owner \notin {"driver", "destroyed", "done"}
  BY <1>3 DEF OwnerKeeps
<1>5. ASSUME UNCHANGED <<ptr, object, shm, down>>
      PROVE  ObjectsOwned' /\ ExitKeeps'
  BY <1>2, <1>5 DEF ObjectsOwned, ObjectAt, Whole, ExitKeeps, Gone
<1>6. ASSUME down'["owner"] = down["owner"],
             worker'.pc = "ended" => ~running,
             owner = "stopReply" => Unasked' /\ requestQ' = requestQ
      PROVE  OwnerKeeps'
  BY <1>2, <1>4, <1>6 DEF OwnerKeeps
<1>7. CASE WorkerLoop
  <2>1. /\ UNCHANGED <<requestQ, ptr, object, shm, down, mishap>>
        /\ worker.pc = "loop"
        /\ worker'.pc = IF running THEN "receive" ELSE "ended"
    BY <1>1, <1>7 DEF WorkerLoop, Goto, At, Worker, queueVars, objectVars, endVars
  <2>2. Unasked'
    BY <2>1 DEF Unasked
  <2>3. worker'.pc = "ended" => ~running
    BY <2>1
  <2>4. WorkerKeeps'
    BY <2>1 DEF WorkerKeeps
  <2> QED BY <1>5, <1>6, <2>1, <2>2, <2>3, <2>4
<1>8. CASE WorkerReceive
  <2>1. /\ UNCHANGED <<ptr, object, shm, down, mishap>>
        /\ worker.pc = "receive" /\ worker'.pc = "test" /\ requestQ # <<>>
    BY <1>1, <1>8 DEF WorkerReceive, At, Worker, objectVars, endVars
  <2>2. owner # "stopReply"
    BY <2>1 DEF OwnerKeeps
  <2>3. WorkerKeeps'
    BY <2>1 DEF WorkerKeeps
  <2> QED BY <1>5, <1>6, <2>1, <2>2, <2>3
<1>9. CASE WorkerTest
  <2>1. /\ UNCHANGED <<requestQ, ptr, object, shm, down, mishap>>
        /\ worker.pc = "test"
        /\ worker'.pc = IF ptr = "NULL" THEN "construct" ELSE "retest"
    BY <1>1, <1>9 DEF WorkerTest, Goto, At, Worker, queueVars, objectVars, endVars
  <2>2. owner # "stopReply"
    BY <2>1, QuietFacts DEF Unasked
  <2>3. WorkerKeeps'
    BY <2>1 DEF WorkerKeeps
  <2> QED BY <1>5, <1>6, <2>1, <2>2, <2>3
<1>10. CASE WorkerConstruct
  <2>1. worker.pc = "construct" /\ UNCHANGED <<requestQ, down, mishap>>
    BY <1>10 DEF WorkerConstruct, At, queueVars, endVars
  <2>2. /\ exit = "idle" /\ owner # "stopReply" /\ \A t \in Enders : down[t] = "out"
    BY <2>1, QuietFacts DEF Unasked, WorkerKeeps, Enders
  <2>3. /\ ptr = "NULL" /\ Whole
    BY <2>1, <2>2 DEF WorkerKeeps, ObjectsOwned
  <2>4. \/ ptr' = "set" /\ object' = "live" /\ shm' = TRUE /\ worker'.pc = "hostname"
        \/ UNCHANGED <<ptr, object, shm>> /\ worker'.pc = "retest"
    BY <1>1, <1>10 DEF WorkerConstruct, Goto, Worker, objectVars
  <2>5. Whole'
    BY <2>3, <2>4 DEF Whole
  <2>6. ObjectsOwned'
    BY <2>1, <2>2, <2>5 DEF ObjectsOwned, ObjectAt
  <2>7. ExitKeeps'
    BY <1>2, <2>1, <2>2 DEF ExitKeeps, Enders
  <2>8. WorkerKeeps'
    BY <2>1, <2>2, <2>4 DEF WorkerKeeps, Enders
  <2> QED BY <1>6, <2>1, <2>2, <2>4, <2>6, <2>7, <2>8
<1>11. CASE WorkerHostname
  <2>1. worker.pc = "hostname" /\ UNCHANGED <<requestQ, ptr, object, shm, mishap>>
    BY <1>11 DEF WorkerHostname, At, queueVars, objectVars
  <2>2. /\ exit = "idle" /\ owner # "stopReply" /\ \A t \in Enders : down[t] = "out"
    BY <2>1, QuietFacts DEF Unasked, WorkerKeeps, Enders
  <2>3. Whole /\ Whole'
    BY <2>1, <2>2 DEF ObjectsOwned, Whole
  <2>4. /\ \/ worker'.pc = "retest" /\ down' = down
           \/ worker'.pc = "shutdown" /\ down'["worker"] = "test"
        /\ down'["exit"] = "out" /\ down'["owner"] = "out"
    BY <1>1, <1>11, <2>2 DEF WorkerHostname, Goto, Worker, Enders
  <2>5. ObjectsOwned'
    BY <2>2, <2>3, <2>4 DEF ObjectsOwned, ObjectAt, Enders
  <2>6. ExitKeeps'
    BY <1>2, <2>2, <2>4 DEF ExitKeeps
  <2>7. WorkerKeeps'
    BY <2>2, <2>4 DEF WorkerKeeps, Enders
  <2> QED BY <1>6, <2>1, <2>2, <2>4, <2>5, <2>6, <2>7 DEF Enders
<1>12. CASE WorkerShutdownReturns
  <2>1. /\ UNCHANGED <<requestQ, ptr, object, shm, down, mishap>>
        /\ worker.pc = "shutdown" /\ worker'.pc = "retest" /\ down["worker"] = "out"
    BY <1>1, <1>12 DEF WorkerShutdownReturns, Goto, At, Worker, queueVars, objectVars, endVars
  <2>2. owner # "stopReply"
    BY <2>1, QuietFacts DEF Unasked
  <2>3. WorkerKeeps'
    BY <2>1 DEF WorkerKeeps
  <2> QED BY <1>5, <1>6, <2>1, <2>2, <2>3
<1>13. CASE WorkerRetest
  <2>1. worker.pc = "retest" /\ UNCHANGED <<requestQ, ptr, object, shm, down>>
    BY <1>13 DEF WorkerRetest, At, queueVars, objectVars, endVars
  <2>2. owner # "stopReply" /\ \A t \in Enders : down[t] = "out"
    BY <2>1, QuietFacts DEF Unasked, WorkerKeeps, Enders
  <2>3. object # "deleted"
    BY <2>2 DEF ObjectsOwned, Whole
  <2>4. /\ mishap' = mishap
        /\ \/ worker'.pc = "reply"
           \/ worker'.pc = "library" /\ ptr # "NULL"
    BY <1>1, <1>13, <2>3 DEF WorkerRetest, AnswerWith, Goto, Worker
  <2>5. ptr \in {"NULL", "set"}
    BY DEF LifecycleTypeOK, ObjectTypes
  <2>6. WorkerKeeps'
    BY <2>1, <2>2, <2>4, <2>5 DEF WorkerKeeps, Enders
  <2> QED BY <1>5, <1>6, <2>1, <2>2, <2>4, <2>6
<1>14. CASE WorkerProcess \/ WorkerReply
  <2>1. /\ UNCHANGED <<requestQ, ptr, object, shm, down, mishap>>
        /\ worker.pc \in {"library", "reply"}
        /\ worker'.pc \in {"reply", "loop"}
    <3>1. CASE WorkerProcess
      BY <1>1, <3>1 DEF WorkerProcess, AnswerWith, At, Worker, queueVars, objectVars, endVars
    <3>2. CASE WorkerReply
      BY <1>1, <3>2 DEF WorkerReply, Goto, At, Worker, objectVars, endVars
    <3> QED BY <1>14, <3>1, <3>2
  <2>2. owner # "stopReply"
    BY <2>1, QuietFacts DEF Unasked
  <2>3. WorkerKeeps'
    BY <2>1 DEF WorkerKeeps
  <2> QED BY <1>5, <1>6, <2>1, <2>2, <2>3
<1>15. ~WorkerOnDestroyedQueue
  BY <1>4 DEF WorkerOnDestroyedQueue, QueuesGone
<1> QED
  BY <1>7, <1>8, <1>9, <1>10, <1>11, <1>12, <1>13, <1>14, <1>15 DEF WorkerStep

\* shutdown(): the thread inside it is alone, and the library is not in use; when
\* it comes out the object and its shared memory are gone (slsDetDriver.cpp:828-836).
LEMMA ShutdownEndsQuietly ==
  ASSUME LifecycleTypeOK, StringInv, EndsQuietly, NEW t \in Enders,
         ShutdownTest(t) \/ ShutdownDelete(t) \/ ShutdownNull(t) \/ ShutdownFree(t)
  PROVE  EndsQuietly'
<1> USE DEF EndsQuietly
<1>1. UNCHANGED <<requestQ, pending, worker, exit, owner, running>>
  BY DEF ShutdownTest, ShutdownDelete, ShutdownNull, ShutdownFree, queueVars
<1>2. /\ down[t] # "out" /\ down' = [down EXCEPT ![t] = down'[t]]
      /\ down \in [Enders -> {"out", "test", "delete", "null", "free"}]
      /\ ptr \in {"NULL", "set"}
  BY DEF ShutdownTest, ShutdownDelete, ShutdownNull, ShutdownFree, DownGoto, LifecycleTypeOK,
     EndTypes, ObjectTypes
<1>3. \A u \in Enders \ {t} : down[u] = "out" /\ down'[u] = "out"
  BY <1>2, QuietFacts DEF Enders
<1>4. worker.pc \notin {"construct", "hostname", "library"}
  BY <1>2, QuietFacts DEF WorkerKeeps, Unasked, Enders
<1>5. ObjectAt(t)
  BY DEF ObjectsOwned
<1>6. mishap' = "none" /\ ObjectAt(t)' /\ (down'[t] = "out" => Gone')
  <2>1. CASE ShutdownTest(t)
    BY <1>2, <1>5, <2>1 DEF ShutdownTest, DownGoto, ObjectAt, Whole, Gone, objectVars
  <2>2. CASE ShutdownDelete(t)
    <3>1. ptr = "set" /\ object = "live" /\ down'[t] = "null"
      BY <1>2, <1>5, <2>2 DEF ShutdownDelete, DownGoto, ObjectAt
    <3>2. ~InLibrary
      BY <1>4 DEF InLibrary
    <3>3. ptr' = "set" /\ object' = "deleted" /\ mishap' = "none"
      BY <2>2, <3>1, <3>2 DEF ShutdownDelete
    <3> QED BY <3>1, <3>3 DEF ObjectAt
  <2>3. CASE ShutdownNull(t)
    BY <1>2, <1>5, <2>3 DEF ShutdownNull, DownGoto, ObjectAt
  <2>4. CASE ShutdownFree(t)
    <3>1. /\ ptr' = "NULL" /\ object' = "none" /\ mishap' = "none"
          /\ down'[t] = "out"
      BY <1>2, <1>5, <2>4 DEF ShutdownFree, DownGoto, ObjectAt
    <3>2. shm' = FALSE
      BY <2>4 DEF ShutdownFree
    <3> QED BY <3>1, <3>2 DEF ObjectAt, Gone
  <2> QED BY <2>1, <2>2, <2>3, <2>4
<1>7. ObjectsOwned'
  <2>1. \A u \in Enders : ObjectAt(u)'
    BY <1>3, <1>6 DEF ObjectAt
  <2>2. down'[t] = "out" => Whole'
    BY <1>6 DEF Whole, Gone
  <2> QED BY <2>1, <2>2 DEF ObjectsOwned
<1>8. WorkerKeeps'
  BY <1>1, <1>2, <1>3, <1>4 DEF WorkerKeeps, Enders
<1>9. exit \in {"handlers", "ended"} => t \notin Enders
  BY <1>2, QuietFacts DEF ExitKeeps, Enders
<1>10. ExitKeeps'
  <2>1. exit # "idle" => t = "exit"
    BY <1>2, QuietFacts DEF Enders
  <2>2. down'["exit"] # "out" => exit = "shutdown"
    BY <1>2, <1>3 DEF ExitKeeps, Enders
  <2> QED BY <1>1, <1>6, <1>9, <2>1, <2>2 DEF ExitKeeps
<1>11. OwnerKeeps'
  <2>1. down'["owner"] # "out" => owner \in {"port", "driver"}
    BY <1>2, <1>3 DEF OwnerKeeps, Enders
  <2>2. owner \in {"driver", "destroyed", "done"} => t = "owner" /\ owner = "driver"
    BY <1>2, QuietFacts DEF OwnerKeeps, ExitKeeps, WorkerKeeps, Enders
  <2>3. Unasked' <=> Unasked
    BY <1>1 DEF Unasked
  <2> QED BY <1>1, <1>6, <2>1, <2>2, <2>3 DEF OwnerKeeps
<1> QED BY <1>6, <1>7, <1>8, <1>10, <1>11

\* The exit handler starts while nothing is owed (slsDetDriver.cpp:43-49).
LEMMA ExitEndsQuietly ==
  ASSUME LifecycleTypeOK, StringInv, EndsQuietly, ExitStep, ~overlapped'
  PROVE  EndsQuietly'
<1> USE DEF EndsQuietly
<1>1. UNCHANGED <<requestQ, pending, worker, ptr, object, shm, owner, running, mishap>>
  BY DEF ExitStep, ExitBegin, ExitShutdownReturns, ProcessEnds, queueVars, objectVars
<1>2. down \in [Enders -> {"out", "test", "delete", "null", "free"}] /\ pending \in Nat
  BY DEF LifecycleTypeOK, EndTypes, QueueTypes
<1>3. CASE ExitBegin
  <2>1. /\ exit = "idle" /\ exit' = "shutdown" /\ owner = "none"
        /\ down' = [down EXCEPT !["exit"] = "test"]
    BY <1>3 DEF ExitBegin, DownGoto
  <2>2. overlapped' = (pending > 0)
    BY <1>3 DEF ExitBegin
  <2>3. pending = 0
    <3>1. ~(pending > 0)
      BY <2>2, Zenon
    <3> QED BY <1>2, <3>1
  <2>4. Unasked
    BY <2>1, <2>3, FlightFacts
  <2>5. \A t \in Enders : down[t] = "out"
    BY <2>1, <2>4, QuietFacts DEF ExitKeeps, OwnerKeeps, Enders
  <2>6. /\ down'["exit"] = "test"
        /\ \A t \in Enders \ {"exit"} : down'[t] = "out"
    BY <1>2, <2>1, <2>5 DEF Enders
  <2>7. Whole /\ Whole'
    BY <1>1, <2>5 DEF ObjectsOwned, Whole
  <2>8. ObjectsOwned'
    BY <2>6, <2>7 DEF ObjectsOwned, ObjectAt, Enders
  <2>9. WorkerKeeps' /\ OwnerKeeps'
    BY <1>1, <2>1, <2>6 DEF WorkerKeeps, OwnerKeeps, Enders
  <2>10. ExitKeeps'
    BY <1>1, <2>1, <2>3, <2>6 DEF ExitKeeps
  <2> QED BY <1>1, <2>8, <2>9, <2>10
<1>4. CASE ExitShutdownReturns \/ ProcessEnds
  <2>1. /\ down' = down /\ exit' \in {"handlers", "ended"} /\ down["exit"] = "out"
        /\ exit \in {"shutdown", "handlers"}
    BY <1>4 DEF ExitShutdownReturns, ProcessEnds, ExitKeeps
  <2>2. ObjectsOwned' /\ WorkerKeeps'
    BY <1>1, <2>1 DEF ObjectsOwned, ObjectAt, Whole, WorkerKeeps
  <2>3. Gone /\ Gone'
    BY <1>1, <2>1 DEF ExitKeeps, Gone
  <2>4. ExitKeeps'
    BY <1>1, <2>1, <2>3 DEF ExitKeeps
  <2>5. Unasked' <=> Unasked
    BY <1>1 DEF Unasked
  <2>6. OwnerKeeps'
    BY <1>1, <2>1, <2>5 DEF OwnerKeeps, Gone
  <2> QED BY <1>1, <2>2, <2>4, <2>6
<1> QED BY <1>3, <1>4 DEF ExitStep

\* The destructors: the port shuts the driver down, the driver stops the worker,
\* waits for its end and shuts itself down (drvAsynSlsDetPort.cpp:221-235,
\* slsDetDriver.cpp:38-53).
LEMMA OwnerEndsQuietly ==
  ASSUME LifecycleTypeOK, StringInv, EndsQuietly, OwnerStep, ~overlapped'
  PROVE  EndsQuietly'
<1> USE DEF EndsQuietly
<1>1. UNCHANGED <<pending, worker, ptr, object, shm, exit, mishap>>
  BY DEF OwnerStep, OwnerBegin, OwnerStopsRunning, OwnerStopReply, OwnerStopRequest, OwnerWaited,
     OwnerDestroysQueues, OwnerJoins, queueVars, objectVars
<1>2. /\ down \in [Enders -> {"out", "test", "delete", "null", "free"}] /\ pending \in Nat
      /\ Unasked' <=> Unasked
  BY <1>1 DEF LifecycleTypeOK, EndTypes, QueueTypes, Unasked
<1>3. exit = "idle" /\ down["exit"] = "out"
  <2>1. owner # "none" \/ exit = "idle"
    BY DEF OwnerStep, OwnerBegin, OwnerStopsRunning, OwnerStopReply, OwnerStopRequest, OwnerWaited,
       OwnerDestroysQueues, OwnerJoins, OwnerGoto
  <2> QED BY <2>1 DEF ExitKeeps
<1>4. ASSUME down' = down PROVE ObjectsOwned' /\ WorkerKeeps' /\ ExitKeeps'
  BY <1>1, <1>3, <1>4 DEF ObjectsOwned, ObjectAt, Whole, WorkerKeeps, ExitKeeps
<1>5. ASSUME Unasked, down["owner"] = "out", down' = [down EXCEPT !["owner"] = "test"]
      PROVE  ObjectsOwned' /\ WorkerKeeps' /\ ExitKeeps'
  <2>1. \A t \in Enders : down[t] = "out"
    BY <1>3, <1>5, QuietFacts DEF Enders
  <2>2. /\ down'["owner"] = "test"
        /\ \A t \in Enders \ {"owner"} : down'[t] = "out"
    BY <1>2, <1>5, <2>1 DEF Enders
  <2>3. Whole /\ Whole'
    BY <1>1, <2>1 DEF ObjectsOwned, Whole
  <2>4. ObjectsOwned'
    BY <2>2, <2>3 DEF ObjectsOwned, ObjectAt, Enders
  <2> QED BY <1>1, <1>3, <2>2, <2>4 DEF WorkerKeeps, ExitKeeps, Enders
<1>6. CASE OwnerBegin
  <2>1. /\ owner = "none" /\ owner' = "port" /\ UNCHANGED <<requestQ, running>>
        /\ down' = [down EXCEPT !["owner"] = "test"]
    BY <1>6 DEF OwnerBegin, OwnerGoto, DownGoto, queueVars
  <2>2. overlapped' = (pending > 0)
    BY <1>6 DEF OwnerBegin
  <2>3. pending = 0
    <3>1. ~(pending > 0)
      BY <2>2, Zenon
    <3> QED BY <1>2, <3>1
  <2>4. Unasked /\ down["owner"] = "out"
    BY <2>1, <2>3, FlightFacts DEF OwnerKeeps
  <2>5. OwnerKeeps'
    BY <1>1, <1>2, <2>1, <2>3, <2>4 DEF OwnerKeeps
  <2> QED BY <1>1, <1>5, <2>1, <2>4, <2>5
<1>7. CASE OwnerStopsRunning
  <2>1. owner = "port" /\ owner' = "running" /\ down' = down /\ down["owner"] = "out"
    BY <1>7 DEF OwnerStopsRunning, OwnerGoto
  <2>2. OwnerKeeps'
    BY <1>1, <2>1 DEF OwnerKeeps
  <2> QED BY <1>1, <1>4, <2>1, <2>2
<1>8. CASE OwnerStopReply
  <2>1. owner = "running" /\ owner' = "stopReply" /\ down' = down /\ requestQ' = requestQ
    BY <1>8 DEF OwnerStopReply, OwnerGoto
  <2>2. Unasked /\ requestQ = <<>>
    BY <2>1, FlightFacts DEF OwnerKeeps
  <2>3. OwnerKeeps'
    BY <1>1, <1>2, <2>1, <2>2 DEF OwnerKeeps
  <2> QED BY <1>1, <1>4, <2>1, <2>3
<1>9. CASE OwnerStopRequest
  <2>1. owner = "stopReply" /\ down' = down
    BY <1>9 DEF OwnerStopRequest, OwnerGoto
  <2>2. owner' = IF pending > 0 THEN "timedWait" ELSE "wait"
    BY <1>9 DEF OwnerStopRequest, OwnerGoto
  <2>3. pending = 0
    BY <2>1 DEF OwnerKeeps
  <2>4. owner' = "wait"
    BY <2>2, <2>3
  <2>5. OwnerKeeps'
    BY <1>1, <2>1, <2>3, <2>4 DEF OwnerKeeps
  <2> QED BY <1>1, <1>4, <2>1, <2>5
<1>10. CASE OwnerWaited
  <2>1. /\ owner = "wait" /\ owner' = "driver" /\ worker.pc = "ended"
        /\ down' = [down EXCEPT !["owner"] = "test"]
    BY <1>10 DEF OwnerWaited, At, DownGoto, OwnerKeeps
  <2>2. Unasked /\ down["owner"] = "out"
    BY <2>1 DEF Unasked, OwnerKeeps
  <2>3. down'["owner"] = "test"
    BY <1>2, <2>1 DEF Enders
  <2>4. OwnerKeeps'
    BY <1>1, <2>1, <2>3 DEF OwnerKeeps
  <2> QED BY <1>1, <1>5, <2>1, <2>2, <2>4
<1>11. CASE OwnerDestroysQueues \/ OwnerJoins
  <2>1. /\ owner \in {"driver", "destroyed"} /\ owner' \in {"destroyed", "done"}
        /\ down' = down /\ down["owner"] = "out"
    BY <1>11 DEF OwnerDestroysQueues, OwnerJoins, OwnerGoto, OwnerKeeps
  <2>2. Gone /\ Gone'
    BY <1>1, <1>11 DEF OwnerDestroysQueues, OwnerJoins, OwnerGoto, OwnerKeeps, Gone
  <2>3. OwnerKeeps'
    BY <1>1, <2>1, <2>2 DEF OwnerKeeps
  <2> QED BY <1>1, <1>4, <2>1, <2>3
<1> QED BY <1>6, <1>7, <1>8, <1>9, <1>10, <1>11 DEF OwnerStep

\* Until an end begins there is nothing that a request could overlap with.
LEMMA OverlapBegins ==
  ASSUME exit = "idle" /\ owner = "none" => ~overlapped, [Next]_vars,
         exit' = "idle" /\ owner' = "none"
  PROVE  ~overlapped'
<1>1. CASE CallerStep
  <2>1. UNCHANGED <<exit, owner>>
    BY <1>1 DEF CallerStep, RequestBegin, FlushReceive, SendRequest, Send, ReceiveReply,
       RequestTimeout, RequestReturn, endVars
  <2>2. UNCHANGED overlapped \/ SendRequest
    BY <1>1 DEF CallerStep, RequestBegin, FlushReceive, ReceiveReply, RequestTimeout,
       RequestReturn, endVars
  <2>3. CASE SendRequest
    <3>1. overlapped' = (overlapped \/ exit # "idle")
      BY <2>3 DEF SendRequest, Send
    <3> QED BY <2>1, <3>1
  <2> QED BY <2>1, <2>2, <2>3
<1>2. CASE WorkerStep \/ ShutdownStep \/ Trouble \/ UNCHANGED vars
  <2>1. UNCHANGED <<exit, owner, overlapped>>
    BY <1>2 DEF WorkerStep, WorkerLoop, WorkerReceive, WorkerTest, WorkerConstruct,
       WorkerHostname, WorkerShutdownReturns, WorkerRetest, WorkerProcess, WorkerReply,
       WorkerOnDestroyedQueue, ShutdownStep, ShutdownTest, ShutdownDelete, ShutdownNull,
       ShutdownFree, Trouble, vars, endVars
  <2> QED BY <2>1
<1>3. ~ExitStep
  BY DEF ExitStep, ExitBegin, ExitShutdownReturns, ProcessEnds
<1>4. ~OwnerStep
  BY DEF OwnerStep, OwnerBegin, OwnerStopsRunning, OwnerStopReply, OwnerStopRequest, OwnerWaited,
     OwnerDestroysQueues, OwnerJoins, OwnerGoto
<1> QED BY <1>1, <1>2, <1>3, <1>4 DEF Next

\* What has overlapped stays so, and an end begins where nothing has overlapped yet.
LEMMA QuietSoFar ==
  ASSUME EndInv, [Next]_vars, ~overlapped'
  PROVE  EndsQuietly
<1>1. CASE ExitBegin \/ OwnerBegin
  BY <1>1 DEF ExitBegin, OwnerBegin, OwnerGoto, EndInv
<1>2. CASE SendRequest
  <2>1. overlapped' = (overlapped \/ exit # "idle")
    BY <1>2 DEF SendRequest, Send
  <2> QED BY <2>1 DEF EndInv
<1>3. CASE ~(ExitBegin \/ OwnerBegin \/ SendRequest)
  <2>1. CASE CallerStep
    <3>1. UNCHANGED overlapped
      BY <1>3, <2>1 DEF CallerStep, RequestBegin, FlushReceive, ReceiveReply, RequestTimeout,
         RequestReturn, endVars
    <3> QED BY <3>1 DEF EndInv
  <2>2. CASE WorkerStep \/ ShutdownStep
    <3>1. UNCHANGED overlapped
      BY <2>2 DEF WorkerStep, WorkerLoop, WorkerReceive, WorkerTest, WorkerConstruct,
         WorkerHostname, WorkerShutdownReturns, WorkerRetest, WorkerProcess, WorkerReply,
         WorkerOnDestroyedQueue, ShutdownStep, ShutdownTest, ShutdownDelete, ShutdownNull,
         ShutdownFree, endVars
    <3> QED BY <3>1 DEF EndInv
  <2>3. CASE ExitStep \/ OwnerStep \/ Trouble \/ UNCHANGED vars
    <3>1. UNCHANGED overlapped
      BY <1>3, <2>3 DEF ExitStep, ExitShutdownReturns, ProcessEnds, OwnerStep, OwnerStopsRunning,
         OwnerStopReply, OwnerStopRequest, OwnerWaited, OwnerDestroysQueues, OwnerJoins, Trouble,
         vars, endVars
    <3> QED BY <3>1 DEF EndInv
  <2> QED BY <2>1, <2>2, <2>3 DEF Next
<1> QED BY <1>1, <1>2, <1>3

LEMMA EndInductive == LifecycleTypeOK /\ StringInv /\ EndInv /\ [Next]_vars => EndInv'
<1> SUFFICES ASSUME LifecycleTypeOK, StringInv, EndInv, [Next]_vars PROVE EndInv'
  OBVIOUS
<1>1. exit' = "idle" /\ owner' = "none" => ~overlapped'
  BY OverlapBegins DEF EndInv
<1>2. ASSUME ~overlapped' PROVE EndsQuietly'
  <2>1. EndsQuietly
    BY <1>2, QuietSoFar
  <2>2. CASE Trouble \/ UNCHANGED vars
    BY <2>1, <2>2 DEF Trouble, vars, queueVars, objectVars, endVars, EndsQuietly, ObjectsOwned,
       ObjectAt, Whole, WorkerKeeps, ExitKeeps, OwnerKeeps, Gone, Unasked
  <2>3. CASE ShutdownStep
    BY <2>1, <2>3, ShutdownEndsQuietly DEF ShutdownStep
  <2> QED BY <1>2, <2>1, <2>2, <2>3, CallerEndsQuietly, WorkerEndsQuietly, ExitEndsQuietly,
     OwnerEndsQuietly DEF Next
<1> QED BY <1>1, <1>2 DEF EndInv

LEMMA EndInvariant == Spec => []EndInv
<1>1. Init => EndInv
  <2> SUFFICES ASSUME Init PROVE EndInv
    OBVIOUS
  <2>1. Whole /\ \A t \in Enders : down[t] = "out"
    BY DEF Init, Whole
  <2>2. ObjectsOwned
    BY <2>1 DEF ObjectsOwned, ObjectAt
  <2>3. worker.pc = "loop"
    BY DEF Init
  <2>4. running /\ ~overlapped
    BY DEF Init
  <2>5. WorkerKeeps /\ ExitKeeps /\ OwnerKeeps
    BY <2>1, <2>3, <2>4 DEF Init, WorkerKeeps, ExitKeeps, OwnerKeeps, Enders
  <2> QED BY <2>2, <2>4, <2>5 DEF Init, EndInv, EndsQuietly
<1> QED BY <1>1, StringInvariant, EndInductive, PTL DEF Spec

\* Without a request in flight nothing is used after its end, for any queues and
\* any interleaving of the shutdowns: the object is deleted once, not in use, and
\* the queues are destroyed only after the worker has ended
\* (slsDetDriver.cpp:38-53, 768-836; drvAsynSlsDetPort.cpp:221-235).
THEOREM QuietEndsAreSafe == Spec => []QuietEndIsSafe
<1>1. EndInv => QuietEndIsSafe
  BY DEF EndInv, EndsQuietly, QuietEndIsSafe
<1> QED BY <1>1, EndInvariant, PTL

\* A quiet end leaves neither object nor shared memory, and the destructors no
\* worker, although Exit itself can make the worker construct an object after the
\* port has shut the driver down (slsDetDriver.cpp:38-53, 768-836).
THEOREM QuietEndsAreClean == Spec => []QuietEndIsClean
<1>1. EndInv => QuietEndIsClean
  BY DEF EndInv, EndsQuietly, ExitKeeps, OwnerKeeps, Gone, QuietEndIsClean
<1> QED BY <1>1, EndInvariant, PTL
=============================================================================
