------------------------ MODULE SlsDetDriver_proofs ------------------------
(***************************************************************************)
(* Proofs about SlsDetDriver, for any number of drivers, any queue         *)
(* capacity and any requests: what a handler can answer, that the counter  *)
(* of requests under way is exact, and that an answer is true when         *)
(* request() returns it: from the handler that makes it, through the       *)
(* queue, to the caller, nothing changes the register, the error mask and  *)
(* the detector object it speaks of.                                       *)
(***************************************************************************)
EXTENDS SlsDetDriver, SequenceTheorems, TLAPS

-----------------------------------------------------------------------------
(* What handlers answer, for every request and every value of the library *)

\* A message without payload is a message (slsDetMessage.cpp:72-77).
LEMMA PlainType == \A m \in MessageType : Plain(m) \in Message
BY DEF Plain, Message, DataType

\* A message with a payload is a message (slsDetMessage.cpp:79-84).
LEMMA TypedType ==
  \A m \in MessageType, t \in DataType, v \in Int : Typed(m, t, v) \in Message
BY DEF Typed, Message

\* Every request that process() takes for a setting names one.
LEMMA SettingOfType ==
  ASSUME NEW req, IsSettingCall(req)
  PROVE  SettingOf[req.mtype] \in Settings
BY DEF IsSettingCall, SettingOf, Settings, ReadTypes, WriteInt32Types,
       WriteFloat64Types

\* The argument of the library call is an integer whatever was written
\* (thresholdTemperature, slsDetDriver.cpp:415-419).
LEMMA ArgumentType ==
  ASSUME NEW req \in Message, IsSettingCall(req)
  PROVE  Argument(req) \in Int
<1>1. CASE req.dtype = "None"
  BY <1>1 DEF Argument
<1>2. CASE req.dtype = "Int32"
  BY <1>2 DEF Argument, asInteger, Message
<1>3. CASE req.dtype = "Float64"
  BY <1>3 DEF Argument, asDouble, Message, PerMillidegree
<1>4. QED
  BY <1>1, <1>2, <1>3 DEF IsSettingCall

\* An answer that carries data is a message.
LEMMA DataReplyType ==
  ASSUME NEW t \in DataType, NEW ret \in Int
  PROVE  DataReply(t, ret) \in Message
<1>1. ret * PerMillidegree \in Int
  BY DEF PerMillidegree
<1>2. "Ok" \in MessageType
  BY DEF MessageType, ReplyTypes
<1>3. QED
  BY <1>1, <1>2, TypedType DEF DataReply

\* checkOnline() answers with a message.
LEMMA OnlineReplyType == \A online : OnlineReply(online) \in Message
BY PlainType DEF OnlineReply, MessageType, ReplyTypes

\* The read-only handlers answer with a message.
LEMMA SensorReplyType ==
  ASSUME NEW req, IsSensorRead(req), NEW ret \in Int, NEW mask
  PROVE  SensorReply(req, ret, mask) \in Message
<1>1. SensorType[req.mtype] \in DataType
  BY DEF IsSensorRead, SensorType, DataType
<1>2. Plain("Error") \in Message
  BY PlainType DEF MessageType, ReplyTypes
<1>3. QED
  BY <1>1, <1>2, DataReplyType DEF SensorReply

\* The handlers of the settings answer with a message.
LEMMA SettingReplyType ==
  ASSUME NEW req, NEW ret \in Int, NEW mask
  PROVE  SettingReply(req, ret, mask) \in Message
<1>1. SettingType(SettingOf[req.mtype]) \in DataType
  BY DEF SettingType, DataType
<1>2. \A m \in {"Ok", "Error", "Failed"} : Plain(m) \in Message
  BY PlainType DEF MessageType, ReplyTypes
<1>3. QED
  BY <1>1, <1>2, DataReplyType DEF SettingReply

-----------------------------------------------------------------------------
(* What an answer tells about the request and the error mask *)

\* The type of the data with which process() answers a request when all is well.
AnswerType(req) ==
  CASE IsSensorRead(req) -> SensorType[req.mtype]
    [] IsSettingCall(req) ->
         IF Argument(req) < 0 THEN SettingType(SettingOf[req.mtype]) ELSE "None"
    [] OTHER -> "None"

\* A request is served by one branch of process() only (the switch on the data
\* type and the message type, slsDetDriver.cpp:649-748).
LEMMA BranchesDisjoint ==
  ASSUME NEW req
  PROVE  /\ IsOnlineCheck(req) => ~IsSensorRead(req) /\ ~IsSettingCall(req)
         /\ IsSensorRead(req) => ~IsSettingCall(req)
BY DEF IsOnlineCheck, IsSensorRead, IsSettingCall, SensorType, SettingOf, ReadTypes

\* A setting handler that does not answer Error leaves no error behind: either
\* there was none or it was forgiven and cleared (slsDetDriver.cpp:249-534).
LEMMA SettingReplyKind ==
  ASSUME NEW req, IsSettingCall(req), NEW ret, NEW mask
  PROVE  LET rep == SettingReply(req, ret, mask)
         IN  /\ rep.mtype # "Invalid"
             /\ rep.mtype # "Error" => SettingMask(SettingOf[req.mtype], mask) = {}
             /\ rep.mtype = "Ok" => rep.dtype = AnswerType(req)
<1> DEFINE s == SettingOf[req.mtype]
           rep == SettingReply(req, ret, mask)
<1>1. AnswerType(req) = IF Argument(req) < 0 THEN SettingType(s) ELSE "None"
  BY BranchesDisjoint DEF AnswerType
<1>2. CASE mask = {}
  <2>1. SettingMask(s, mask) = {}
    BY <1>2 DEF SettingMask, Forgiven
  <2>2. CASE Argument(req) < 0
    BY <1>1, <1>2, <2>1, <2>2 DEF SettingReply, DataReply, Typed
  <2>3. CASE ~(Argument(req) < 0)
    <3>1. rep \in {Plain("Ok"), Plain("Failed")}
      BY <1>2, <2>3 DEF SettingReply
    <3> HIDE DEF rep
    <3>2. rep.mtype # "Invalid" /\ rep.dtype = "None"
      BY <3>1 DEF Plain
    <3>3. QED
      BY <1>1, <2>1, <2>3, <3>2 DEF rep
  <2>4. QED
    BY <2>2, <2>3
<1>3. CASE mask # {} /\ Forgiven(s, mask)
  BY <1>3 DEF SettingReply, SettingMask, Plain
<1>4. CASE mask # {} /\ ~Forgiven(s, mask)
  BY <1>4 DEF SettingReply, Plain
<1>5. QED
  BY <1>2, <1>3, <1>4

\* A read-only handler answers Ok only when the mask is clear, and with the type
\* of its quantity (slsDetDriver.cpp:78-247).
LEMMA SensorReplyKind ==
  ASSUME NEW req, IsSensorRead(req), NEW ret, NEW mask
  PROVE  LET rep == SensorReply(req, ret, mask)
         IN  /\ rep.mtype \in {"Ok", "Error"}
             /\ rep.mtype = "Ok" => mask = {} /\ rep.dtype = AnswerType(req)
<1>1. AnswerType(req) = SensorType[req.mtype]
  BY BranchesDisjoint DEF AnswerType
<1>2. QED
  BY <1>1 DEF SensorReply, DataReply, Typed, Plain

-----------------------------------------------------------------------------
(* Type correctness *)

\* A caller that waits is owed an answer.  The counter, which is unsigned in the
\* code, stays natural only because of that.
Owing == \A d \in Drivers : call[d].pc = "wait" => pending[d] > 0

\* The records that a call and a worker start a round with have their type.
LEMMA IdleType ==
  ASSUME NEW tag \in Serials
  PROVE  Idle(tag) \in Call /\ Receiving(tag) \in Thread
<1>1. NoMessage \in Message
  BY PlainType DEF NoMessage, MessageType, ReplyTypes
<1>2. QED
  BY <1>1 DEF Idle, Receiving, Call, Thread, Envelope

\* The steps of request() and flush() keep the types
\* (slsDetDriver.cpp:541-589).
LEMMA CallerTypes ==
  ASSUME DriverTypeOK, Owing, NEW d \in Drivers,
         \/ \E m \in Requests : RequestBegin(d, m)
         \/ CallerStep(d) \/ RequestTimeout(d) \/ RequestReturn(d)
  PROVE  DriverTypeOK'
<1> USE DEF DriverTypeOK
<1>0. /\ requestQ[d] \in Seq(Envelope) /\ replyQ[d] \in Seq(Envelope)
      /\ pending[d] \in Nat /\ call[d] \in Call
  OBVIOUS
<1>1. ASSUME NEW m \in Requests, RequestBegin(d, m) PROVE DriverTypeOK'
  <2>1. PICK tag \in Serials :
          call' = [call EXCEPT ![d] = [Idle(tag) EXCEPT !.pc = "flush", !.req = m]]
    BY <1>1 DEF RequestBegin
  <2>2. \A c \in Call : [c EXCEPT !.pc = "flush", !.req = m] \in Call
    BY RequestsAssumption DEF Call
  <2>3. [Idle(tag) EXCEPT !.pc = "flush", !.req = m] \in Call
    BY <2>2, IdleType
  <2>4. QED
    BY <1>1, <2>1, <2>3 DEF RequestBegin
<1>2. CASE FlushReceive(d)
  BY <1>0, <1>2 DEF FlushReceive
<1>3. CASE SendRequest(d)
  <2>1. [tag |-> call[d].tag, msg |-> call[d].req] \in Envelope
    BY <1>0 DEF Call, Envelope
  <2>2. [call[d] EXCEPT !.pc = "wait"] \in Call
    BY <1>0 DEF Call
  <2>3. QED
    BY <1>0, <1>3, <2>1, <2>2 DEF SendRequest
<1>4. CASE ReceiveReply(d)
  <2>1. Head(replyQ[d]) \in Envelope /\ Tail(replyQ[d]) \in Seq(Envelope)
    BY <1>0, <1>4 DEF ReceiveReply
  <2>2. [call[d] EXCEPT !.pc = "done", !.ret = Head(replyQ[d])] \in Call
    BY <1>0, <2>1 DEF Call
  <2>3. pending' \in [Drivers -> Nat]
    BY <1>0, <1>4 DEF ReceiveReply, Owing
  <2>4. QED
    BY <1>4, <2>1, <2>2, <2>3 DEF ReceiveReply
<1>5. CASE RequestTimeout(d)
  <2>1. [tag |-> call[d].tag, msg |-> Plain("Timeout")] \in Envelope
    BY <1>0, PlainType DEF Call, Envelope, MessageType, ReplyTypes
  <2>2. [call[d] EXCEPT !.pc = "done",
                        !.ret = [tag |-> call[d].tag, msg |-> Plain("Timeout")]] \in Call
    BY <1>0, <2>1 DEF Call
  <2>3. QED
    BY <1>5, <2>2 DEF RequestTimeout, FlushTimeout, ReplyTimeout, GiveUp
<1>6. CASE RequestReturn(d)
  <2>1. Idle(call[d].tag) \in Call
    BY <1>0, IdleType DEF Call
  <2>2. QED
    BY <1>6, <2>1 DEF RequestReturn
<1>7. QED
  BY <1>1, <1>2, <1>3, <1>4, <1>5, <1>6 DEF CallerStep

\* The steps of run(), initialize() and process() keep the types
\* (slsDetDriver.cpp:602-826).
LEMMA WorkerTypes ==
  ASSUME DriverTypeOK, NEW d \in Drivers, WorkerStep(d)
  PROVE  DriverTypeOK'
<1> USE DEF DriverTypeOK
<1> DEFINE req == thread[d].env.msg
<1>0. /\ requestQ[d] \in Seq(Envelope) /\ replyQ[d] \in Seq(Envelope)
      /\ thread[d] \in Thread /\ req \in Message
      /\ errMask[d] \in SUBSET ErrorBits /\ hw[d] \in [Settings -> Int]
  BY DEF Thread, Envelope
<1>1. ASSUME NEW rep \in Message, Answered(d, rep)
      PROVE  thread' \in [Drivers -> Thread]
  <2>1. [thread[d] EXCEPT !.pc = "reply", !.rep = rep] \in Thread
    BY <1>0 DEF Thread
  <2>2. QED
    BY <1>1, <2>1 DEF Answered
<1>2. \A arg \in Int : Complaints(d, arg) \subseteq SUBSET ErrorBits
  BY DEF Complaints, ErrorBits, POS
<1>3. CASE WorkerReceive(d)
  <2>1. Head(requestQ[d]) \in Envelope /\ Tail(requestQ[d]) \in Seq(Envelope)
    BY <1>0, <1>3 DEF WorkerReceive
  <2>2. \A pc \in {"initialize", "process"} :
          [thread[d] EXCEPT !.pc = pc, !.env = Head(requestQ[d])] \in Thread
    BY <1>0, <2>1 DEF Thread
  <2>3. QED
    BY <1>3, <2>1, <2>2 DEF WorkerReceive
<1>4. CASE WorkerInitialize(d)
  <2>1. PICK outcome \in InitOutcomes, errs \in SUBSET ErrorBits :
          /\ det' = [det EXCEPT ![d] = DetAfter(outcome)]
          /\ errMask' = [errMask EXCEPT ![d] = errs]
          /\ thread' =
               IF DetAfter(outcome) = "NULL"
               THEN [thread EXCEPT ![d].pc = "reply", ![d].rep = Plain("Error")]
               ELSE [thread EXCEPT ![d].pc = "process"]
    BY <1>4, InitAssumption DEF WorkerInitialize
  <2>2. DetAfter(outcome) \in {"NULL", "partial", "ready"}
    BY InitAssumption DEF DetAfter, AllInitOutcomes
  <2>3. /\ [thread[d] EXCEPT !.pc = "reply", !.rep = Plain("Error")] \in Thread
        /\ [thread[d] EXCEPT !.pc = "process"] \in Thread
    BY <1>0, PlainType DEF Thread, MessageType, ReplyTypes
  <2>4. QED
    BY <1>4, <2>1, <2>2, <2>3 DEF WorkerInitialize
<1>5. CASE ProcessOnlineCheck(d)
  <2>1. errMask' \in [Drivers -> SUBSET ErrorBits]
    BY <1>0, <1>5 DEF ProcessOnlineCheck
  <2>2. thread' \in [Drivers -> Thread]
    BY <1>1, <1>5, OnlineReplyType DEF ProcessOnlineCheck
  <2>3. QED
    BY <1>5, <2>1, <2>2 DEF ProcessOnlineCheck, Answered
<1>6. CASE ProcessSensorRead(d)
  <2>1. PICK errs \in Complaints(d, -1), ret \in Readings :
          /\ errMask' = [errMask EXCEPT ![d] = errMask[d] \cup errs]
          /\ Answered(d, SensorReply(req, ret, errMask[d] \cup errs))
    BY <1>6 DEF ProcessSensorRead
  <2>2. SensorReply(req, ret, errMask[d] \cup errs) \in Message
    BY <1>6, ReadingsAssumption, SensorReplyType DEF ProcessSensorRead
  <2>3. errMask' \in [Drivers -> SUBSET ErrorBits]
    BY <1>0, <1>2, <2>1
  <2>4. QED
    BY <1>1, <1>6, <2>1, <2>2, <2>3 DEF ProcessSensorRead, Answered
<1>7. CASE ProcessSetting(d)
  <2> DEFINE s == SettingOf[req.mtype]
             arg == Argument(req)
  <2>1. s \in Settings /\ arg \in Int
    BY <1>0, <1>7, SettingOfType, ArgumentType DEF ProcessSetting
  <2>2. PICK reg \in Landed(d, s, arg), errs \in Complaints(d, arg) :
          /\ hw' = [hw EXCEPT ![d][s] = reg]
          /\ errMask' = [errMask EXCEPT ![d] = SettingMask(s, errMask[d] \cup errs)]
          /\ Answered(d, SettingReply(req, Returned(d, reg), errMask[d] \cup errs))
    BY <1>7 DEF ProcessSetting
  <2> HIDE DEF s, arg
  <2>3. reg \in Int /\ Returned(d, reg) \in Int
    BY <1>0, <2>1, <2>2 DEF Landed, Returned
  <2>4. hw' \in [Drivers -> [Settings -> Int]]
    BY <1>0, <2>1, <2>2, <2>3
  <2>5. errMask' \in [Drivers -> SUBSET ErrorBits]
    BY <1>0, <1>2, <2>1, <2>2 DEF SettingMask
  <2>6. thread' \in [Drivers -> Thread]
    BY <1>1, <2>2, <2>3, SettingReplyType
  <2>7. QED
    BY <2>2, <2>4, <2>5, <2>6 DEF Answered
<1>8. CASE ProcessUnsupported(d)
  <2>1. thread' \in [Drivers -> Thread]
    BY <1>1, <1>8, PlainType DEF ProcessUnsupported, MessageType, ReplyTypes
  <2>2. QED
    BY <1>8, <2>1 DEF ProcessUnsupported, Answered
<1>9. CASE WorkerReply(d)
  <2>1. [tag |-> thread[d].env.tag, msg |-> thread[d].rep] \in Envelope
    BY <1>0 DEF Thread, Envelope
  <2>2. Receiving(thread[d].env.tag) \in Thread
    BY <1>0, IdleType DEF Thread, Envelope
  <2>3. QED
    BY <1>0, <1>9, <2>1, <2>2 DEF WorkerReply
<1>10. QED
  BY <1>3, <1>4, <1>5, <1>6, <1>7, <1>8, <1>9 DEF WorkerStep

\* Only SendRequest makes a caller wait, and it counts the answer.
LEMMA OwingStep == DriverTypeOK /\ Owing /\ [DriverNext]_driverVars => Owing'
<1> SUFFICES ASSUME DriverTypeOK, Owing, [DriverNext]_driverVars, NEW e \in Drivers,
                    call'[e].pc = "wait"
             PROVE  pending'[e] > 0
  BY DEF Owing
<1> USE DEF DriverTypeOK, Call
<1>0. pending[e] \in Nat /\ call[e] \in Call
  OBVIOUS
<1>1. CASE UNCHANGED driverVars
  BY <1>1 DEF Owing, driverVars
<1>2. ASSUME NEW d \in Drivers, NEW m \in Requests, RequestBegin(d, m)
      PROVE  pending'[e] > 0
  BY <1>0, <1>2 DEF RequestBegin, Owing, Idle
<1>3. ASSUME NEW d \in Drivers, CallerStep(d) PROVE pending'[e] > 0
  <2>1. CASE FlushReceive(d)
    BY <1>0, <2>1 DEF FlushReceive, Owing
  <2>2. CASE SendRequest(d)
    BY <1>0, <2>2 DEF SendRequest, Owing
  <2>3. CASE ReceiveReply(d)
    BY <1>0, <2>3 DEF ReceiveReply, Owing
  <2>4. QED
    BY <1>3, <2>1, <2>2, <2>3 DEF CallerStep
<1>4. ASSUME NEW d \in Drivers, RequestTimeout(d) PROVE pending'[e] > 0
  BY <1>0, <1>4 DEF RequestTimeout, FlushTimeout, ReplyTimeout, GiveUp, Owing
<1>5. ASSUME NEW d \in Drivers, RequestReturn(d) PROVE pending'[e] > 0
  BY <1>0, <1>5 DEF RequestReturn, Owing, Idle
<1>6. ASSUME NEW d \in Drivers, WorkerStep(d) \/ Trouble(d) PROVE pending'[e] > 0
  <2>1. UNCHANGED <<pending, call>>
    BY <1>6 DEF WorkerStep, Trouble, WorkerReceive, WorkerInitialize, ProcessOnlineCheck,
       ProcessSensorRead, ProcessSetting, ProcessUnsupported, WorkerReply, Answered
  <2>2. QED
    BY <2>1 DEF Owing
<1>7. QED
  BY <1>1, <1>2, <1>3, <1>4, <1>5, <1>6 DEF DriverNext, DriverStep

\* Every variable keeps its type: queues of envelopes, a counter that is never
\* negative, a caller and a worker that are always somewhere in their code.
THEOREM DriverTypeCorrect == DriverSpec => []DriverTypeOK
<1>1. DriverInit => DriverTypeOK /\ Owing
  BY IdleType DEF DriverInit, DriverTypeOK, Owing, Idle
<1>2. DriverTypeOK /\ Owing /\ [DriverNext]_driverVars => DriverTypeOK'
  <2> SUFFICES ASSUME DriverTypeOK, Owing, [DriverNext]_driverVars PROVE DriverTypeOK'
    OBVIOUS
  <2>1. CASE UNCHANGED driverVars
    BY <2>1 DEF DriverTypeOK, driverVars
  <2>2. ASSUME NEW d \in Drivers, Trouble(d) PROVE DriverTypeOK'
    BY <2>2 DEF Trouble, DriverTypeOK
  <2>3. QED
    BY <2>1, <2>2, CallerTypes, WorkerTypes DEF DriverNext, DriverStep
<1>3. QED
  BY <1>1, <1>2, OwingStep, PTL DEF DriverSpec

-----------------------------------------------------------------------------
(* One answer in flight, and to the right request *)

Counted(d) == pending[d] = InFlight(d) /\ pending[d] <= 1

\* Whatever is in flight while the caller waits is for the caller.
Owed(d) ==
  call[d].pc = "wait" =>
    /\ pending[d] = 1
    /\ requestQ[d] # <<>> => Head(requestQ[d]).tag = call[d].tag
    /\ thread[d].pc # "receive" => thread[d].env.tag = call[d].tag
    /\ replyQ[d] # <<>> => Head(replyQ[d]).tag = call[d].tag

Matches(d) == call[d].pc = "done" => call[d].ret.tag = call[d].tag

DriverInv(d) == Counted(d) /\ Owed(d) /\ Matches(d)

DriverIInv == DriverTypeOK /\ \A d \in Drivers : DriverInv(d)

AnyStep(d) ==
  (\E m \in Requests : RequestBegin(d, m)) \/ DriverStep(d) \/ RequestReturn(d)

\* What a sequence is after Append and Tail, as far as the counting needs it.
LEMMA QueueFacts ==
  ASSUME NEW q \in Seq(Envelope), NEW x \in Envelope
  PROVE  /\ Len(q) \in Nat
         /\ q = <<>> <=> Len(q) = 0
         /\ Len(Append(q, x)) = Len(q) + 1
         /\ q # <<>> => Len(Tail(q)) = Len(q) - 1
         /\ q = <<>> => Head(Append(q, x)) = x
BY EmptySeq, AppendProperties, HeadTailProperties

\* A step of one driver is no step of another.
LEMMA OthersUnchanged ==
  ASSUME DriverTypeOK, NEW d \in Drivers, NEW e \in Drivers, d # e, AnyStep(d)
  PROVE  /\ requestQ'[e] = requestQ[e] /\ replyQ'[e] = replyQ[e]
         /\ pending'[e] = pending[e] /\ call'[e] = call[e]
         /\ thread'[e] = thread[e] /\ det'[e] = det[e]
         /\ errMask'[e] = errMask[e] /\ hw'[e] = hw[e]
<1> USE DEF DriverTypeOK
<1>1. ASSUME NEW m \in Requests, RequestBegin(d, m)
      PROVE  call'[e] = call[e]
  BY <1>1 DEF RequestBegin
<1>2. CASE \E m \in Requests : RequestBegin(d, m)
  BY <1>1, <1>2 DEF RequestBegin
<1>3. CASE CallerStep(d)
  BY <1>3 DEF CallerStep, FlushReceive, SendRequest, ReceiveReply
<1>4. CASE RequestTimeout(d) \/ RequestReturn(d) \/ Trouble(d)
  BY <1>4 DEF RequestTimeout, FlushTimeout, ReplyTimeout, GiveUp, RequestReturn, Trouble
<1>5. CASE WorkerReceive(d) \/ WorkerReply(d)
  BY <1>5 DEF WorkerReceive, WorkerReply
<1>6. CASE WorkerInitialize(d)
  BY <1>6 DEF WorkerInitialize
<1>7. CASE ProcessOnlineCheck(d) \/ ProcessSensorRead(d) \/ ProcessUnsupported(d)
  BY <1>7 DEF ProcessOnlineCheck, ProcessSensorRead, ProcessUnsupported, Answered
<1>8. CASE ProcessSetting(d)
  BY <1>8 DEF ProcessSetting, Answered
<1>9. QED
  BY <1>2, <1>3, <1>4, <1>5, <1>6, <1>7, <1>8 DEF AnyStep, DriverStep, WorkerStep

\* The steps of request() and flush() keep the invariant of their driver.
LEMMA CallerInv ==
  ASSUME DriverTypeOK, NEW d \in Drivers, DriverInv(d),
         \/ \E m \in Requests : RequestBegin(d, m)
         \/ CallerStep(d) \/ RequestTimeout(d) \/ RequestReturn(d)
  PROVE  DriverInv(d)'
<1> USE DEF DriverTypeOK, DriverInv, Counted, Owed, Matches, InFlight
<1>0. /\ requestQ[d] \in Seq(Envelope) /\ replyQ[d] \in Seq(Envelope)
      /\ pending[d] \in Nat /\ call[d] \in Call /\ thread[d] \in Thread
  OBVIOUS
<1>00. Len(requestQ[d]) \in Nat /\ Len(replyQ[d]) \in Nat
  BY <1>0
<1>1. CASE \E m \in Requests : RequestBegin(d, m)
  BY <1>0, <1>1 DEF RequestBegin, Idle
<1>2. CASE FlushReceive(d)
  <2>1. Len(Tail(replyQ[d])) = Len(replyQ[d]) - 1
    BY <1>0, <1>2, HeadTailProperties DEF FlushReceive
  <2>2. QED
    BY <1>0, <1>00, <1>2, <2>1 DEF FlushReceive
<1>3. CASE SendRequest(d)
  <2> DEFINE x == [tag |-> call[d].tag, msg |-> call[d].req]
  <2>1. x \in Envelope
    BY <1>0 DEF Call, Envelope
  <2>2. Len(requestQ[d]) = 0 /\ Len(replyQ[d]) = 0 /\ thread[d].pc = "receive"
    BY <1>0, <1>00, <1>3 DEF SendRequest
  <2>3. requestQ[d] = <<>> /\ replyQ[d] = <<>>
    BY <1>0, <2>1, <2>2, QueueFacts
  <2>4. requestQ'[d] = Append(requestQ[d], x)
    BY <1>3 DEF SendRequest
  <2>5. Len(requestQ'[d]) = 1 /\ Head(requestQ'[d]) = x
    BY <1>0, <2>1, <2>2, <2>3, <2>4, QueueFacts
  <2>6. /\ call'[d] = [call[d] EXCEPT !.pc = "wait"]
        /\ pending'[d] = 1
        /\ replyQ'[d] = replyQ[d] /\ thread'[d] = thread[d]
    BY <1>0, <1>3 DEF SendRequest
  <2>7. call'[d].pc = "wait" /\ call'[d].tag = call[d].tag
    BY <1>0, <2>6 DEF Call
  <2>8. QED
    BY <2>2, <2>3, <2>5, <2>6, <2>7
<1>4. CASE ReceiveReply(d)
  <2>1. Len(Tail(replyQ[d])) = Len(replyQ[d]) - 1
    BY <1>0, <1>4, HeadTailProperties DEF ReceiveReply
  <2>2. /\ call'[d].pc = "done" /\ call'[d].tag = call[d].tag
        /\ call'[d].ret = Head(replyQ[d])
    BY <1>0, <1>4 DEF ReceiveReply, Call
  <2>3. Counted(d)'
    BY <1>0, <1>00, <1>4, <2>1 DEF ReceiveReply
  <2>4. Owed(d)' /\ Matches(d)'
    BY <1>4, <2>2 DEF ReceiveReply
  <2>5. QED
    BY <2>3, <2>4
<1>5. CASE RequestTimeout(d)
  <2>1. /\ call'[d].pc = "done" /\ call'[d].tag = call[d].tag
        /\ call'[d].ret.tag = call[d].tag
    BY <1>0, <1>5 DEF RequestTimeout, FlushTimeout, ReplyTimeout, GiveUp, Call
  <2>2. QED
    BY <1>5, <2>1 DEF RequestTimeout, FlushTimeout, ReplyTimeout, GiveUp
<1>6. CASE RequestReturn(d)
  BY <1>0, <1>6 DEF RequestReturn, Idle
<1>7. QED
  BY <1>1, <1>2, <1>3, <1>4, <1>5, <1>6 DEF CallerStep

\* The steps of run() keep the invariant of their driver: a message moves on
\* with its serial, none is lost and none is made.
LEMMA WorkerInv ==
  ASSUME DriverTypeOK, NEW d \in Drivers, DriverInv(d), WorkerStep(d)
  PROVE  DriverInv(d)'
<1> USE DEF DriverTypeOK, DriverInv, Counted, Owed, Matches, InFlight
<1>0. /\ requestQ[d] \in Seq(Envelope) /\ replyQ[d] \in Seq(Envelope)
      /\ pending[d] \in Nat /\ call[d] \in Call /\ thread[d] \in Thread
  OBVIOUS
<1>00. Len(requestQ[d]) \in Nat /\ Len(replyQ[d]) \in Nat
  BY <1>0
<1>1. CASE WorkerReceive(d)
  <2>1. Len(Tail(requestQ[d])) = Len(requestQ[d]) - 1
    BY <1>0, <1>1, HeadTailProperties DEF WorkerReceive
  <2>2. /\ thread'[d].pc # "receive" /\ thread[d].pc = "receive"
        /\ thread'[d].env = Head(requestQ[d])
    BY <1>0, <1>1 DEF WorkerReceive, Thread
  <2>3. Len(requestQ[d]) = 1 /\ Len(replyQ[d]) = 0
    BY <1>0, <1>00, <1>1, <2>1, <2>2, EmptySeq DEF WorkerReceive
  <2>4. requestQ'[d] = Tail(requestQ[d]) /\ Len(requestQ'[d]) = 0
    BY <1>1, <2>1, <2>3 DEF WorkerReceive
  <2>5. requestQ'[d] = <<>>
    <3>1. Tail(requestQ[d]) \in Seq(Envelope) /\ Head(requestQ[d]) \in Envelope
      BY <1>0, <1>1 DEF WorkerReceive
    <3>2. QED
      BY <2>4, <3>1, QueueFacts
  <2>6. UNCHANGED <<replyQ, pending, call>>
    BY <1>1 DEF WorkerReceive
  <2>7. Counted(d)'
    BY <1>0, <2>2, <2>3, <2>4, <2>6
  <2>8. Owed(d)' /\ Matches(d)'
    BY <1>0, <1>1, <2>2, <2>5, <2>6 DEF WorkerReceive
  <2>9. QED
    BY <2>7, <2>8
<1>2. ASSUME WorkerInitialize(d) \/ ProcessOnlineCheck(d) \/ ProcessSensorRead(d)
             \/ ProcessSetting(d) \/ ProcessUnsupported(d)
      PROVE  DriverInv(d)'
  <2>1. /\ thread[d].pc # "receive" /\ thread'[d].pc # "receive"
        /\ thread'[d].env = thread[d].env
    <3>1. CASE WorkerInitialize(d)
      BY <1>0, <3>1 DEF WorkerInitialize, Thread
    <3>2. ASSUME NEW rep, Answered(d, rep), Processing(d)
          PROVE  /\ thread[d].pc # "receive" /\ thread'[d].pc # "receive"
                 /\ thread'[d].env = thread[d].env
      BY <1>0, <3>2 DEF Answered, Processing, Thread
    <3>3. QED
      BY <1>2, <3>1, <3>2 DEF ProcessOnlineCheck, ProcessSensorRead, ProcessSetting,
         ProcessUnsupported
  <2>2. UNCHANGED <<requestQ, replyQ, pending, call>>
    BY <1>2 DEF WorkerInitialize, ProcessOnlineCheck, ProcessSensorRead, ProcessSetting,
       ProcessUnsupported, Answered
  <2>3. QED
    BY <2>1, <2>2
<1>3. CASE WorkerReply(d)
  <2> DEFINE x == [tag |-> thread[d].env.tag, msg |-> thread[d].rep]
  <2>1. x \in Envelope
    BY <1>0 DEF Thread, Envelope
  <2>2. Len(requestQ[d]) = 0 /\ Len(replyQ[d]) = 0 /\ thread[d].pc = "reply"
    BY <1>0, <1>00, <1>3 DEF WorkerReply
  <2>3. requestQ[d] = <<>> /\ replyQ[d] = <<>>
    BY <1>0, <2>1, <2>2, QueueFacts
  <2>4. replyQ'[d] = Append(replyQ[d], x)
    BY <1>3 DEF WorkerReply
  <2>5. Len(replyQ'[d]) = 1 /\ Head(replyQ'[d]) = x
    BY <1>0, <2>1, <2>2, <2>3, <2>4, QueueFacts
  <2>6. /\ thread'[d].pc = "receive"
        /\ UNCHANGED <<requestQ, pending, call>>
    BY <1>0, <1>3 DEF WorkerReply, Receiving
  <2>7. QED
    BY <2>2, <2>3, <2>5, <2>6
<1>4. QED
  BY <1>1, <1>2, <1>3, <1>00 DEF WorkerStep

\* A step of any driver keeps the inductive invariant of all of them.
LEMMA DriverInductive == DriverIInv /\ [DriverNext]_driverVars => DriverIInv'
<1> SUFFICES ASSUME DriverIInv, [DriverNext]_driverVars PROVE DriverIInv'
  OBVIOUS
<1>1. DriverTypeOK /\ Owing
  BY DEF DriverIInv, DriverInv, Owed, Owing
<1>2. CASE UNCHANGED driverVars
  BY <1>2 DEF driverVars, DriverIInv, DriverTypeOK, DriverInv, Counted, Owed, Matches, InFlight
<1>3. ASSUME NEW d \in Drivers, AnyStep(d) PROVE DriverIInv'
  <2>1. DriverInv(d)
    BY DEF DriverIInv
  <2>2. CASE Trouble(d)
    BY <2>2 DEF Trouble, DriverIInv, DriverTypeOK, DriverInv, Counted, Owed, Matches, InFlight
  <2>3. CASE ~Trouble(d)
    <3>1. DriverTypeOK' /\ DriverInv(d)'
      BY <1>1, <1>3, <2>1, <2>3, CallerTypes, WorkerTypes, CallerInv, WorkerInv
         DEF AnyStep, DriverStep
    <3>2. ASSUME NEW e \in Drivers, e # d PROVE DriverInv(e)'
      BY <1>1, <1>3, <3>2, OthersUnchanged
         DEF DriverIInv, DriverInv, Counted, Owed, Matches, InFlight
    <3>3. QED
      BY <3>1, <3>2 DEF DriverIInv
  <2>4. QED
    BY <2>2, <2>3
<1>4. QED
  BY <1>2, <1>3 DEF DriverNext, AnyStep

\* The strengthening holds initially: types, an exact count, an answer owed to
\* whoever waits for one, and serials that match.
LEMMA DriverInitially == DriverInit => DriverIInv
<1> SUFFICES ASSUME DriverInit PROVE DriverIInv
  OBVIOUS
<1>1. DriverTypeOK
  BY IdleType DEF DriverInit, DriverTypeOK
<1>2. ASSUME NEW d \in Drivers PROVE DriverInv(d)
  <2>1. /\ requestQ[d] = <<>> /\ replyQ[d] = <<>> /\ pending[d] = 0
        /\ call[d].pc = "idle" /\ thread[d].pc = "receive"
    BY DEF DriverInit, Idle, Receiving
  <2>2. QED
    BY <2>1, EmptySeq DEF DriverInv, Counted, Owed, Matches, InFlight
<1>3. QED
  BY <1>1, <1>2 DEF DriverIInv

\* It holds in every reachable state.
LEMMA DriverInvariant == DriverSpec => []DriverIInv
BY DriverInitially, DriverInductive, PTL DEF DriverSpec

\* However many requests time out, _pending is the number of messages between
\* caller and worker, and that is at most one: neither queue of capacity one or
\* more ever fills up (slsDetDriver.cpp:541-600).
THEOREM PendingIsExact == DriverSpec => []PendingCountsInFlight
<1>1. DriverIInv => PendingCountsInFlight
  BY DEF DriverIInv, DriverInv, Counted, PendingCountsInFlight
<1>2. QED
  BY <1>1, DriverInvariant, PTL

\* request() never returns the answer to an earlier request
\* (slsDetDriver.cpp:541-589).
THEOREM ReplyIsToTheCall == DriverSpec => []ReplyMatchesCall
<1>1. DriverIInv => ReplyMatchesCall
  BY DEF DriverIInv, DriverInv, Matches, ReplyMatchesCall
<1>2. QED
  BY <1>1, DriverInvariant, PTL

\* A write that timed out never reaches the module while a later request waits
\* for its answer (slsDetDriver.cpp:541-589).
THEOREM LateWritesAreFenced == DriverSpec => LateWriteFenced
<1>1. DriverIInv /\ [DriverNext]_driverVars =>
        [\A d \in Drivers :
           hw'[d] # hw[d] /\ call[d].pc = "wait" => thread[d].env.tag = call[d].tag]_driverVars
  <2> SUFFICES ASSUME DriverIInv, DriverNext, NEW e \in Drivers, hw'[e] # hw[e],
                      call[e].pc = "wait"
               PROVE  thread[e].env.tag = call[e].tag
    OBVIOUS
  <2>1. PICK d \in Drivers : AnyStep(d)
    BY DEF DriverNext, AnyStep
  <2>2. d = e
    BY <2>1, OthersUnchanged DEF DriverIInv
  <2>3. ProcessSetting(e)
    BY <2>1, <2>2 DEF AnyStep, DriverStep, CallerStep, RequestTimeout, WorkerStep,
       RequestBegin, FlushReceive, SendRequest, ReceiveReply, FlushTimeout, ReplyTimeout,
       GiveUp, RequestReturn, Trouble, WorkerReceive, WorkerInitialize, ProcessOnlineCheck,
       ProcessSensorRead, ProcessUnsupported, WorkerReply
  <2>4. QED
    BY <2>3 DEF ProcessSetting, Processing, DriverIInv, DriverInv, Owed
<1>2. QED
  BY <1>1, DriverInvariant, PTL DEF DriverSpec, LateWriteFenced

-----------------------------------------------------------------------------
(* Answers are true *)

\* The driver has its detector object and no error is left in its mask.
Clean(d) == det[d] # "NULL" /\ errMask[d] = {}

\* An Ok that carries a value carries that of the register.
TellsRegister(d, req, rep) ==
  (det[d] = "ready" /\ rep.mtype = "Ok" /\ IsSettingCall(req) /\ Argument(req) < 0) =>
    rep = DataReply(SettingType(SettingOf[req.mtype]), hw[d][SettingOf[req.mtype]])

\* An Ok to a write of a verified setting: the register holds what was written,
\* even when the driver never got its sub-detector.
HoldsWritten(d, req, rep) ==
  (/\ rep.mtype = "Ok" /\ IsSettingCall(req) /\ ~(Argument(req) < 0)
   /\ SettingOf[req.mtype] \in Verifying) =>
    hw[d][SettingOf[req.mtype]] = Argument(req)

\* Only an answer that takes the connection away leaves errors behind, or no
\* detector object; an unsupported request is not looked at.
LeavesClean(d, rep) == rep.mtype \notin {"Error", "Invalid"} => Clean(d)

\* The answer is of a kind that the request can have.
Fits(req, rep) ==
  /\ rep.mtype = "Ok" => rep.dtype = AnswerType(req)
  /\ rep.mtype = "Invalid" => IsUnsupported(req)

\* What rep, the answer to req, says about driver d.
SpeaksTrue(d, req, rep) ==
  /\ TellsRegister(d, req, rep) /\ HoldsWritten(d, req, rep)
  /\ LeavesClean(d, rep) /\ Fits(req, rep)

\* The worker's answer is true while it is on its way to the caller that
\* waits for it.
TrueAtWorker(d) ==
  /\ thread[d].pc = "process" => det[d] # "NULL"
  /\ thread[d].pc = "reply" => SpeaksTrue(d, thread[d].env.msg, thread[d].rep)

TrueOnTheWay(d) ==
  call[d].pc = "wait" =>
    /\ requestQ[d] # <<>> => Head(requestQ[d]).msg = call[d].req
    /\ thread[d].pc # "receive" => thread[d].env.msg = call[d].req
    /\ replyQ[d] # <<>> => SpeaksTrue(d, call[d].req, Head(replyQ[d]).msg)

\* An answer leaves nothing behind that could still change the module.
TrueAtCaller(d) ==
  (call[d].pc = "done" /\ call[d].ret.msg.mtype # "Timeout") =>
    pending[d] = 0 /\ SpeaksTrue(d, call[d].req, call[d].ret.msg)

AnswerInv(d) == TrueAtWorker(d) /\ TrueOnTheWay(d) /\ TrueAtCaller(d)

\* What an answer says is about the detector object, the mask and the registers
\* only: while these stay, it stays true.
LEMMA TruthStays ==
  ASSUME NEW d \in Drivers,
         det'[d] = det[d], errMask'[d] = errMask[d], hw'[d] = hw[d]
  PROVE  \A req, rep : SpeaksTrue(d, req, rep)' <=> SpeaksTrue(d, req, rep)
BY DEF SpeaksTrue, TellsRegister, HoldsWritten, LeavesClean, Clean, Fits

\* The handlers compare what the library returned with what was asked for
\* (slsDetDriver.cpp:249-534): an Ok is about the value returned.
LEMMA SettingReplyTruth ==
  ASSUME NEW req, NEW ret, NEW mask,
         SettingReply(req, ret, mask).mtype = "Ok"
  PROVE  LET s == SettingOf[req.mtype]
         IN  IF Argument(req) < 0
             THEN SettingReply(req, ret, mask) = DataReply(SettingType(s), ret)
             ELSE s \in Verifying => ret = Argument(req)
<1> DEFINE s == SettingOf[req.mtype]
<1>1. mask = {}
  BY DEF SettingReply, Plain
<1>2. CASE Argument(req) < 0
  BY <1>1, <1>2 DEF SettingReply
<1>3. CASE ~(Argument(req) < 0)
  <2>1. ASSUME s \in Verifying, ret # Argument(req) PROVE FALSE
    BY <1>1, <1>3, <2>1 DEF SettingReply, Plain
  <2>2. QED
    BY <1>3, <2>1
<1>4. QED
  BY <1>2, <1>3

\* A caller's step leaves registers and worker alone and hands the answer on
\* as it is (slsDetDriver.cpp:541-589).
LEMMA CallerAnswer ==
  ASSUME DriverTypeOK, NEW d \in Drivers, DriverInv(d), AnswerInv(d),
         \/ \E m \in Requests : RequestBegin(d, m)
         \/ CallerStep(d) \/ RequestTimeout(d) \/ RequestReturn(d)
  PROVE  AnswerInv(d)'
<1> USE DEF DriverTypeOK, AnswerInv, TrueAtWorker, TrueOnTheWay, TrueAtCaller
<1>0. /\ requestQ[d] \in Seq(Envelope) /\ replyQ[d] \in Seq(Envelope)
      /\ pending[d] \in Nat /\ call[d] \in Call /\ thread[d] \in Thread
  OBVIOUS
<1>1. UNCHANGED <<thread, det, errMask, hw>>
  BY DEF RequestBegin, CallerStep, FlushReceive, SendRequest, ReceiveReply,
     RequestTimeout, FlushTimeout, ReplyTimeout, GiveUp, RequestReturn
<1>2. \A req, rep : SpeaksTrue(d, req, rep)' <=> SpeaksTrue(d, req, rep)
  BY <1>1, TruthStays
<1>3. TrueAtWorker(d)'
  BY <1>1, <1>2
<1>4. CASE \E m \in Requests : RequestBegin(d, m)
  <2>1. call'[d].pc = "flush"
    BY <1>0, <1>4 DEF RequestBegin, Idle
  <2>2. QED
    BY <1>3, <2>1
<1>5. CASE FlushReceive(d)
  BY <1>3, <1>5 DEF FlushReceive
<1>6. CASE SendRequest(d)
  <2> DEFINE x == [tag |-> call[d].tag, msg |-> call[d].req]
  <2>1. x \in Envelope
    BY <1>0 DEF Call, Envelope
  <2>2. Len(requestQ[d]) \in Nat /\ Len(replyQ[d]) \in Nat
    BY <1>0
  <2>3. Len(requestQ[d]) = 0 /\ Len(replyQ[d]) = 0 /\ thread[d].pc = "receive"
    BY <1>6, <2>2 DEF SendRequest, DriverInv, Counted, InFlight
  <2>4. requestQ[d] = <<>> /\ replyQ[d] = <<>>
    BY <1>0, <2>1, <2>3, QueueFacts
  <2>5. Head(requestQ'[d]) = x /\ replyQ'[d] = <<>>
    BY <1>0, <1>6, <2>1, <2>4, QueueFacts DEF SendRequest
  <2>6. call'[d].pc = "wait" /\ call'[d].req = call[d].req
    BY <1>0, <1>6 DEF SendRequest, Call
  <2>7. QED
    BY <1>1, <1>3, <2>3, <2>5, <2>6
<1>7. CASE ReceiveReply(d)
  <2>1. /\ call'[d].pc = "done" /\ call'[d].req = call[d].req
        /\ call'[d].ret = Head(replyQ[d])
    BY <1>0, <1>7 DEF ReceiveReply, Call
  <2>2. pending'[d] = 0
    BY <1>0, <1>7 DEF ReceiveReply, DriverInv, Owed
  <2>3. SpeaksTrue(d, call[d].req, Head(replyQ[d]).msg)
    BY <1>7 DEF ReceiveReply
  <2>4. QED
    BY <1>2, <1>3, <2>1, <2>2, <2>3
<1>8. CASE RequestTimeout(d)
  <2>1. call'[d].pc = "done" /\ call'[d].ret.msg = Plain("Timeout")
    BY <1>0, <1>8 DEF RequestTimeout, FlushTimeout, ReplyTimeout, GiveUp, Call
  <2>2. QED
    BY <1>3, <2>1 DEF Plain
<1>9. CASE RequestReturn(d)
  <2>1. call'[d].pc = "idle"
    BY <1>0, <1>9 DEF RequestReturn, Idle
  <2>2. QED
    BY <1>3, <2>1
<1>10. QED
  BY <1>4, <1>5, <1>6, <1>7, <1>8, <1>9 DEF CallerStep

\* While the worker has a request nothing else is in flight, so its call is
\* waiting or was given up.
LEMMA WorkerAlone ==
  ASSUME DriverTypeOK, NEW d \in Drivers, DriverInv(d), thread[d].pc # "receive"
  PROVE  requestQ[d] = <<>> /\ replyQ[d] = <<>> /\ pending[d] = 1
<1>1. requestQ[d] \in Seq(Envelope) /\ replyQ[d] \in Seq(Envelope) /\ pending[d] \in Nat
  BY DEF DriverTypeOK
<1>2. Len(requestQ[d]) \in Nat /\ Len(replyQ[d]) \in Nat
  BY <1>1
<1>3. Len(requestQ[d]) = 0 /\ Len(replyQ[d]) = 0 /\ pending[d] = 1
  <2>1. pending[d] = Len(requestQ[d]) + Len(replyQ[d]) + 1 /\ pending[d] <= 1
    BY DEF DriverInv, Counted, InFlight
  <2>2. \A m, n, k \in Nat : k = m + n + 1 /\ k <= 1 => m = 0 /\ n = 0 /\ k = 1
    OBVIOUS
  <2>3. pending[d] \in Nat
    BY <1>1
  <2>4. QED
    BY <1>2, <2>1, <2>2, <2>3
<1>4. \A q \in Seq(Envelope) : Len(q) = 0 => q = <<>>
  BY EmptySeq
<1>5. QED
  BY <1>1, <1>3, <1>4

\* A setting handler answers the truth about the register and the mask its call
\* left behind (slsDetDriver.cpp:249-534).
LEMMA SettingAnswer ==
  ASSUME DriverTypeOK, NEW d \in Drivers, TrueAtWorker(d), ProcessSetting(d)
  PROVE  /\ thread'[d].pc = "reply" /\ thread'[d].env = thread[d].env
         /\ SpeaksTrue(d, thread[d].env.msg, thread[d].rep)'
<1>1. PICK req : req = thread[d].env.msg
  OBVIOUS
<1> DEFINE s == SettingOf[req.mtype]
<1>2. PICK reg \in Landed(d, s, Argument(req)), errs \in Complaints(d, Argument(req)) :
        /\ hw' = [hw EXCEPT ![d][s] = reg]
        /\ errMask' = [errMask EXCEPT ![d] = SettingMask(s, errMask[d] \cup errs)]
        /\ Answered(d, SettingReply(req, Returned(d, reg), errMask[d] \cup errs))
  BY <1>1 DEF ProcessSetting
<1> DEFINE mask == errMask[d] \cup errs
<1>3. PICK rep : rep = SettingReply(req, Returned(d, reg), mask)
  OBVIOUS
<1>4. thread[d] \in Thread /\ hw[d] \in [Settings -> Int] /\ IsSettingCall(req)
  BY <1>1 DEF DriverTypeOK, ProcessSetting
<1>5. /\ thread'[d].pc = "reply" /\ thread'[d].env = thread[d].env
      /\ thread'[d].rep = rep
  BY <1>2, <1>3, <1>4 DEF Answered, DriverTypeOK, Thread
<1>6. det'[d] = det[d] /\ det[d] # "NULL"
  BY <1>2 DEF Answered, ProcessSetting, Processing, TrueAtWorker
<1>7. s \in Settings
  BY <1>4, SettingOfType
<1>8. hw'[d][s] = reg /\ errMask'[d] = SettingMask(s, mask)
  BY <1>2, <1>4, <1>7 DEF DriverTypeOK
<1>9. TellsRegister(d, req, rep)'
  <2> SUFFICES ASSUME det'[d] = "ready", rep.mtype = "Ok", Argument(req) < 0
               PROVE  rep = DataReply(SettingType(s), hw'[d][s])
    BY DEF TellsRegister
  <2>1. Returned(d, reg) = reg
    BY <1>6 DEF Returned
  <2>2. QED
    BY <1>3, <1>8, <2>1, SettingReplyTruth
<1>10. HoldsWritten(d, req, rep)'
  <2> SUFFICES ASSUME rep.mtype = "Ok", ~(Argument(req) < 0), s \in Verifying
               PROVE  hw'[d][s] = Argument(req)
    BY DEF HoldsWritten
  <2>1. Returned(d, reg) = Argument(req)
    BY <1>3, SettingReplyTruth
  <2>2. Returned(d, reg) = reg
    BY <2>1 DEF Returned
  <2>3. QED
    BY <1>8, <2>1, <2>2
<1>11. LeavesClean(d, rep)' /\ Fits(req, rep)
  BY <1>3, <1>4, <1>6, <1>8, SettingReplyKind DEF LeavesClean, Clean, Fits
<1>12. thread'[d].env.msg = req
  BY <1>1, <1>5
<1>13. QED
  BY <1>5, <1>9, <1>10, <1>11, <1>12 DEF SpeaksTrue, Fits

\* What the other branches of process() answer says nothing about a register
\* (slsDetDriver.cpp:55-247 and 649-748).
LEMMA OtherAnswer ==
  ASSUME DriverTypeOK, NEW d \in Drivers, TrueAtWorker(d),
         ProcessOnlineCheck(d) \/ ProcessSensorRead(d) \/ ProcessUnsupported(d)
  PROVE  /\ thread'[d].pc = "reply" /\ thread'[d].env = thread[d].env
         /\ SpeaksTrue(d, thread[d].env.msg, thread[d].rep)'
<1>0. PICK req : req = thread[d].env.msg
  OBVIOUS
<1>1. thread[d] \in Thread /\ errMask \in [Drivers -> SUBSET ErrorBits]
  BY DEF DriverTypeOK
<1>2. ~IsSettingCall(req) /\ thread[d].pc = "process"
  BY <1>0, BranchesDisjoint DEF ProcessOnlineCheck, ProcessSensorRead, ProcessUnsupported,
     IsUnsupported, Processing
<1>3. ASSUME NEW rep, Answered(d, rep), LeavesClean(d, rep)', Fits(req, rep)
      PROVE  /\ thread'[d].pc = "reply" /\ thread'[d].env = thread[d].env
             /\ SpeaksTrue(d, thread[d].env.msg, thread[d].rep)'
  <2>1. /\ thread'[d].pc = "reply" /\ thread'[d].env = thread[d].env
        /\ thread'[d].rep = rep
    BY <1>1, <1>3 DEF Answered, DriverTypeOK, Thread
  <2>2. thread'[d].env.msg = req
    BY <1>0, <2>1
  <2>3. TellsRegister(d, req, rep)' /\ HoldsWritten(d, req, rep)'
    BY <1>2 DEF TellsRegister, HoldsWritten
  <2>4. QED
    BY <1>3, <2>1, <2>2, <2>3 DEF SpeaksTrue, Fits
<1>4. ASSUME NEW rep, Answered(d, rep), errMask'[d] = {}
      PROVE  LeavesClean(d, rep)'
  <2>1. det'[d] # "NULL"
    BY <1>2, <1>4 DEF Answered, TrueAtWorker
  <2>2. QED
    BY <1>4, <2>1 DEF LeavesClean, Clean
<1>5. CASE ProcessOnlineCheck(d)
  <2>1. PICK online \in BOOLEAN, errs \in SUBSET ErrorBits :
          /\ errMask' = [errMask EXCEPT ![d] = IF online THEN {} ELSE @ \cup errs]
          /\ Answered(d, OnlineReply(online))
    BY <1>5 DEF ProcessOnlineCheck
  <2>2. AnswerType(req) = "None"
    BY <1>0, <1>5, BranchesDisjoint DEF ProcessOnlineCheck, AnswerType
  <2>3. CASE online
    <3>1. OnlineReply(online) = Plain("Ok") /\ errMask'[d] = {}
      BY <1>1, <2>1, <2>3 DEF OnlineReply
    <3>2. Fits(req, Plain("Ok"))
      BY <2>2 DEF Fits, Plain
    <3>3. QED
      BY <1>3, <1>4, <2>1, <3>1, <3>2
  <2>4. CASE ~online
    <3>1. OnlineReply(online) = Plain("Error")
      BY <2>4 DEF OnlineReply
    <3>2. Fits(req, Plain("Error")) /\ LeavesClean(d, Plain("Error"))'
      BY DEF Fits, Plain, LeavesClean
    <3>3. QED
      BY <1>3, <2>1, <3>1, <3>2
  <2>5. QED
    BY <2>3, <2>4
<1>6. CASE ProcessSensorRead(d)
  <2>0. PICK mask, ret :
          /\ errMask' = [errMask EXCEPT ![d] = mask]
          /\ Answered(d, SensorReply(req, ret, mask))
    BY <1>0, <1>6 DEF ProcessSensorRead
  <2>1. PICK rep : rep = SensorReply(req, ret, mask)
    OBVIOUS
  <2>2. /\ rep.mtype \in {"Ok", "Error"} /\ Fits(req, rep)
        /\ rep.mtype = "Ok" => mask = {}
    BY <1>0, <1>6, <2>1, SensorReplyKind DEF ProcessSensorRead, Fits
  <2>3. LeavesClean(d, rep)'
    <3>1. CASE mask = {}
      BY <1>1, <1>4, <2>0, <2>1, <3>1
    <3>2. CASE rep.mtype = "Error"
      BY <3>2 DEF LeavesClean
    <3>3. QED
      BY <2>2, <3>1, <3>2
  <2>4. QED
    BY <1>3, <2>0, <2>1, <2>2, <2>3
<1>7. CASE ProcessUnsupported(d)
  <2>1. Fits(req, Plain("Invalid")) /\ LeavesClean(d, Plain("Invalid"))'
    BY <1>0, <1>7 DEF ProcessUnsupported, Fits, LeavesClean, Plain
  <2>2. QED
    BY <1>3, <1>7, <2>1 DEF ProcessUnsupported
<1>8. QED
  BY <1>5, <1>6, <1>7

\* A worker's step: a request moves to the worker, a handler answers it, the
\* answer moves to the caller (slsDetDriver.cpp:602-826).
LEMMA WorkerAnswer ==
  ASSUME DriverTypeOK, NEW d \in Drivers, DriverInv(d), AnswerInv(d), WorkerStep(d)
  PROVE  AnswerInv(d)'
<1> USE DEF DriverTypeOK, AnswerInv, TrueAtWorker, TrueOnTheWay, TrueAtCaller
<1>0. /\ requestQ[d] \in Seq(Envelope) /\ replyQ[d] \in Seq(Envelope)
      /\ pending[d] \in Nat /\ call[d] \in Call /\ thread[d] \in Thread
  OBVIOUS
<1>1. CASE WorkerReceive(d)
  <2>1. UNCHANGED <<replyQ, pending, call, det, errMask, hw>>
    BY <1>1 DEF WorkerReceive
  <2>2. \A req, rep : SpeaksTrue(d, req, rep)' <=> SpeaksTrue(d, req, rep)
    BY <2>1, TruthStays
  <2>3. /\ thread'[d].pc \in {"initialize", "process"} /\ thread'[d].env = Head(requestQ[d])
        /\ thread'[d].pc = "process" => det'[d] # "NULL"
    BY <1>0, <1>1 DEF WorkerReceive, Thread
  <2>4. /\ thread[d].pc = "receive" /\ requestQ[d] # <<>>
        /\ requestQ'[d] = Tail(requestQ[d])
    BY <1>1 DEF WorkerReceive
  <2>5. requestQ'[d] = <<>>
    <3>1. Len(Tail(requestQ[d])) = Len(requestQ[d]) - 1 /\ Tail(requestQ[d]) \in Seq(Envelope)
      BY <1>0, <2>4, HeadTailProperties
    <3>2. Len(requestQ[d]) \in Nat /\ Len(replyQ[d]) \in Nat /\ Len(Tail(requestQ[d])) \in Nat
      BY <1>0, <3>1
    <3>3. Len(Tail(requestQ[d])) = 0
      BY <1>0, <3>1, <3>2 DEF DriverInv, Counted, InFlight
    <3>4. QED
      BY <2>4, <3>1, <3>3, EmptySeq
  <2>6. QED
    BY <2>1, <2>2, <2>3, <2>4, <2>5
<1>2. ASSUME thread[d].pc # "receive", thread'[d].pc # "receive",
             thread'[d].env = thread[d].env,
             UNCHANGED <<requestQ, replyQ, pending, call>>,
             TrueAtWorker(d)'
      PROVE  AnswerInv(d)'
  BY <1>2, WorkerAlone
<1>3. CASE WorkerInitialize(d)
  <2>1. /\ thread[d].pc # "receive" /\ thread'[d].pc \in {"process", "reply"}
        /\ thread'[d].env = thread[d].env
        /\ thread'[d].pc = "reply" => thread'[d].rep = Plain("Error")
        /\ thread'[d].pc = "process" => det'[d] # "NULL"
    BY <1>0, <1>3 DEF WorkerInitialize, Thread
  <2>2. UNCHANGED <<requestQ, replyQ, pending, call>>
    BY <1>3 DEF WorkerInitialize
  <2>3. SpeaksTrue(d, thread[d].env.msg, Plain("Error"))'
    BY DEF SpeaksTrue, TellsRegister, HoldsWritten, LeavesClean, Fits, Plain
  <2>4. TrueAtWorker(d)'
    BY <2>1, <2>3
  <2>5. QED
    BY <1>2, <2>1, <2>2, <2>4
<1>4. CASE \/ ProcessSetting(d) \/ ProcessOnlineCheck(d)
           \/ ProcessSensorRead(d) \/ ProcessUnsupported(d)
  <2>1. /\ thread'[d].pc = "reply" /\ thread'[d].env = thread[d].env
        /\ TrueAtWorker(d)'
    BY <1>4, SettingAnswer, OtherAnswer
  <2>2. thread[d].pc = "process" /\ UNCHANGED <<requestQ, replyQ, pending, call>>
    BY <1>4 DEF ProcessSetting, ProcessOnlineCheck, ProcessSensorRead, ProcessUnsupported,
       Processing, Answered
  <2>3. QED
    BY <1>2, <2>1, <2>2
<1>5. CASE WorkerReply(d)
  <2> DEFINE x == [tag |-> thread[d].env.tag, msg |-> thread[d].rep]
  <2>1. x \in Envelope
    BY <1>0 DEF Thread, Envelope
  <2>2. thread[d].pc = "reply" /\ UNCHANGED <<requestQ, pending, call, det, errMask, hw>>
    BY <1>5 DEF WorkerReply
  <2>3. requestQ[d] = <<>> /\ replyQ[d] = <<>> /\ pending[d] = 1
    BY <2>2, WorkerAlone
  <2>4. Head(replyQ'[d]) = x
    BY <1>0, <1>5, <2>1, <2>3, QueueFacts DEF WorkerReply
  <2>5. thread'[d].pc = "receive"
    BY <1>0, <1>5 DEF WorkerReply, Receiving
  <2>6. \A req, rep : SpeaksTrue(d, req, rep)' <=> SpeaksTrue(d, req, rep)
    BY <2>2, TruthStays
  <2>7. QED
    BY <2>2, <2>3, <2>4, <2>5, <2>6
<1>6. QED
  BY <1>1, <1>3, <1>4, <1>5 DEF WorkerStep

\* Whatever driver steps, an answer on its way stays true.
LEMMA AnswerInductive ==
  DriverIInv /\ (\A d \in Drivers : AnswerInv(d)) /\ [DriverNext]_driverVars
    => (\A d \in Drivers : AnswerInv(d))'
<1> SUFFICES ASSUME DriverIInv, \A d \in Drivers : AnswerInv(d), [DriverNext]_driverVars,
                    NEW e \in Drivers
             PROVE  AnswerInv(e)'
  OBVIOUS
<1>1. DriverTypeOK /\ DriverInv(e)
  BY DEF DriverIInv
<1>2. ASSUME UNCHANGED <<requestQ[e], replyQ[e], pending[e], call[e], thread[e], det[e],
                        errMask[e], hw[e]>>
      PROVE  AnswerInv(e)'
  <2>1. \A req, rep : SpeaksTrue(e, req, rep)' <=> SpeaksTrue(e, req, rep)
    BY <1>2, TruthStays
  <2>2. QED
    BY <1>2, <2>1 DEF AnswerInv, TrueAtWorker, TrueOnTheWay, TrueAtCaller
<1>3. CASE UNCHANGED driverVars
  BY <1>2, <1>3 DEF driverVars
<1>4. ASSUME NEW d \in Drivers, AnyStep(d) PROVE AnswerInv(e)'
  <2>1. CASE d # e
    BY <1>1, <1>2, <1>4, <2>1, OthersUnchanged
  <2>2. CASE d = e /\ Trouble(e)
    BY <1>2, <2>2 DEF Trouble
  <2>3. CASE d = e /\ ~Trouble(e)
    BY <1>1, <1>4, <2>3, CallerAnswer, WorkerAnswer DEF AnyStep, DriverStep
  <2>4. QED
    BY <2>1, <2>2, <2>3
<1>5. QED
  BY <1>3, <1>4 DEF DriverNext, AnyStep

\* An Ok that request() returns is true at that moment: a value read is what the
\* register holds, and a verified setting holds what was written
\* (slsDetDriver.cpp:249-413 and 541-589).
THEOREM AnswersAreTrue == DriverSpec => []AnswerIsTrue
<1>1. DriverInit => \A d \in Drivers : AnswerInv(d)
  BY DEF DriverInit, Idle, Receiving, AnswerInv, TrueAtWorker, TrueOnTheWay, TrueAtCaller
<1>2. (\A d \in Drivers : AnswerInv(d)) => AnswerIsTrue
  BY DEF AnswerInv, TrueAtCaller, SpeaksTrue, TellsRegister, HoldsWritten, AnswerIsTrue
<1>3. QED
  BY <1>1, <1>2, AnswerInductive, DriverInvariant, PTL DEF DriverSpec
=============================================================================
