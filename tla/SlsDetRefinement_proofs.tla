----------------------- MODULE SlsDetRefinement_proofs -----------------------
(***************************************************************************)
(* A proof that the drivers implement RequestReply: every step of a driver *)
(* is a step of the abstract specification or changes nothing in it.       *)
(***************************************************************************)
EXTENDS SlsDetDriver_proofs

\* Both specifications speak of the same messages and settings.
LEMMA SameData ==
  /\ RPC!NoMessage = NoMessage /\ RPC!Message = Message /\ RPC!Settings = Settings
  /\ RPC!SettingOf = SettingOf /\ RPC!Verifying = Verifying
  /\ \A m : RPC!Plain(m) = Plain(m)
  /\ \A req : /\ RPC!IsSettingCall(req) <=> IsSettingCall(req)
              /\ RPC!Argument(req) = Argument(req)
  /\ \A s : RPC!SettingType(s) = SettingType(s)
  /\ \A t, ret : RPC!DataReply(t, ret) = DataReply(t, ret)
<1>1. RPC!NoMessage = NoMessage /\ \A m : RPC!Plain(m) = Plain(m)
  BY DEF RPC!NoMessage, NoMessage, RPC!Plain, Plain
<1>2. RPC!Message = Message
  BY DEF RPC!Message, Message, RPC!MessageType, MessageType, RPC!DataType, DataType,
     RPC!ReplyTypes, ReplyTypes, RPC!ReadTypes, ReadTypes, RPC!WriteTypes, WriteTypes,
     RPC!WriteInt32Types, WriteInt32Types, RPC!WriteFloat64Types, WriteFloat64Types
<1>3. /\ RPC!Settings = Settings /\ RPC!Verifying = Verifying
      /\ \A s : RPC!SettingType(s) = SettingType(s)
  BY DEF RPC!Settings, Settings, RPC!Verifying, Verifying, RPC!SettingType, SettingType
<1>4. RPC!SettingOf = SettingOf
  BY DEF RPC!SettingOf, SettingOf
<1>5. \A req : RPC!IsSettingCall(req) <=> IsSettingCall(req)
  BY <1>4 DEF RPC!IsSettingCall, IsSettingCall, RPC!ReadTypes, ReadTypes,
     RPC!WriteInt32Types, WriteInt32Types, RPC!WriteFloat64Types, WriteFloat64Types
<1>6. \A req : RPC!Argument(req) = Argument(req)
  BY DEF RPC!Argument, Argument, RPC!asInteger, asInteger, RPC!asDouble, asDouble,
     RPC!PerMillidegree, PerMillidegree
<1>7. \A t, ret : RPC!DataReply(t, ret) = DataReply(t, ret)
  BY DEF RPC!DataReply, DataReply, RPC!Typed, Typed, RPC!PerMillidegree, PerMillidegree
<1>8. QED
  BY <1>1, <1>2, <1>3, <1>4, <1>5, <1>6, <1>7

\* What the drivers other than d look like from outside is left alone.
LEMMA OthersMapped ==
  ASSUME DriverTypeOK, NEW d \in Drivers, AnyStep(d)
  PROVE  \A e \in Drivers : e # d =>
           /\ CallerOf(call'[e]) = CallerOf(call[e])
           /\ JobOf(e)' = JobOf(e)
           /\ hw'[e] = hw[e]
BY OthersUnchanged DEF CallerOf, JobOf

\* Where the job is.  At most one of the three places holds it.
Owner(d) == IF call[d].pc = "wait" THEN "call" ELSE "nobody"

InRequestQ(d) ==
  /\ requestQ[d] # <<>> /\ thread[d].pc = "receive" /\ replyQ[d] = <<>>
  /\ JobOf(d) = [pc |-> "queued", req |-> Head(requestQ[d]).msg, rep |-> NoMessage,
                 owner |-> Owner(d)]

AtWorker(d) ==
  /\ requestQ[d] = <<>> /\ thread[d].pc \in {"initialize", "process"} /\ replyQ[d] = <<>>
  /\ JobOf(d) = [pc |-> "queued", req |-> thread[d].env.msg, rep |-> NoMessage,
                 owner |-> Owner(d)]

ServedByWorker(d) ==
  /\ requestQ[d] = <<>> /\ thread[d].pc = "reply" /\ replyQ[d] = <<>>
  /\ JobOf(d) = [pc |-> "served", req |-> NoMessage, rep |-> thread[d].rep,
                 owner |-> Owner(d)]

InReplyQ(d) ==
  /\ requestQ[d] = <<>> /\ thread[d].pc = "receive" /\ replyQ[d] # <<>>
  /\ JobOf(d) = [pc |-> "served", req |-> NoMessage, rep |-> Head(replyQ[d]).msg,
                 owner |-> Owner(d)]

Nowhere(d) ==
  /\ requestQ[d] = <<>> /\ thread[d].pc = "receive" /\ replyQ[d] = <<>>
  /\ call[d].pc # "wait"
  /\ JobOf(d) = RPC!NoJob

Somewhere(d) ==
  InRequestQ(d) \/ AtWorker(d) \/ ServedByWorker(d) \/ InReplyQ(d) \/ Nowhere(d)

\* The counter is exact, so there is one job at most, and one for sure while
\* the caller waits.
LEMMA JobIsSomewhere ==
  ASSUME DriverTypeOK, NEW d \in Drivers, DriverInv(d)
  PROVE  Somewhere(d) /\ (pending[d] = 0 <=> JobOf(d).pc = "none")
<1>1. /\ requestQ[d] \in Seq(Envelope) /\ replyQ[d] \in Seq(Envelope)
      /\ pending[d] \in Nat /\ thread[d] \in Thread
  BY DEF DriverTypeOK
<1> DEFINE a == Len(requestQ[d])
           b == Len(replyQ[d])
<1>2. a \in Nat /\ b \in Nat
  BY <1>1
<1>3. (requestQ[d] = <<>> <=> a = 0) /\ (replyQ[d] = <<>> <=> b = 0)
  BY <1>1, EmptySeq
<1>4. thread[d].pc \in {"receive", "initialize", "process", "reply"}
  BY <1>1 DEF Thread
<1>5. /\ thread[d].pc = "receive" => pending[d] = a + b
      /\ pending[d] <= 1
      /\ call[d].pc = "wait" => pending[d] = 1
  <2>1. /\ pending[d] = a + b + (IF thread[d].pc = "receive" THEN 0 ELSE 1)
        /\ pending[d] <= 1
        /\ call[d].pc = "wait" => pending[d] = 1
    BY DEF DriverInv, Counted, Owed, InFlight
  <2> HIDE DEF a, b
  <2>2. QED
    BY <1>2, <2>1
<1> HIDE DEF a, b
<1>6. CASE thread[d].pc # "receive"
  <2>1. requestQ[d] = <<>> /\ replyQ[d] = <<>> /\ pending[d] = 1
    BY <1>6, WorkerAlone
  <2>2. QED
    BY <1>4, <1>6, <2>1 DEF Somewhere, InRequestQ, AtWorker, ServedByWorker, InReplyQ, Owner, JobOf
<1>7. CASE thread[d].pc = "receive" /\ requestQ[d] # <<>>
  <2>1. b = 0 /\ pending[d] = 1
    BY <1>1, <1>2, <1>3, <1>5, <1>7
  <2>2. replyQ[d] = <<>>
    BY <1>3, <2>1
  <2>3. QED
    BY <1>7, <2>1, <2>2 DEF Somewhere, InRequestQ, AtWorker, ServedByWorker, InReplyQ, Owner, JobOf
<1>8. CASE thread[d].pc = "receive" /\ requestQ[d] = <<>>
  <2>1. pending[d] = 0 <=> replyQ[d] = <<>>
    BY <1>1, <1>2, <1>3, <1>5, <1>8
  <2>2. CASE replyQ[d] = <<>>
    <3>1. call[d].pc # "wait"
      BY <1>5, <2>1, <2>2
    <3>2. JobOf(d) = RPC!NoJob
      BY <1>8, <2>2, <3>1, SameData DEF JobOf, RPC!NoJob
    <3>3. QED
      BY <1>8, <2>1, <2>2, <3>1, <3>2 DEF Somewhere, Nowhere, RPC!NoJob
  <2>3. CASE replyQ[d] # <<>>
    BY <1>8, <2>1, <2>3 DEF Somewhere, InRequestQ, AtWorker, ServedByWorker, InReplyQ, Owner, JobOf
  <2>4. QED
    BY <2>2, <2>3
<1>9. QED
  BY <1>6, <1>7, <1>8

\* A function that differs at one point only.
LEMMA Update ==
  ASSUME NEW S, NEW d \in S, NEW f, NEW g, NEW v,
         f = [e \in S |-> f[e]], g = [e \in S |-> g[e]],
         g[d] = v, \A e \in S : e # d => g[e] = f[e]
  PROVE  g = [f EXCEPT ![d] = v]
OBVIOUS

\* The two functions the variables of RequestReply stand for.
Callers == [d \in Drivers |-> CallerOf(call[d])]
Jobs == [d \in Drivers |-> JobOf(d)]

\* A step of driver d changes the two functions at d only.
LEMMA MappedStep ==
  ASSUME DriverTypeOK, NEW d \in Drivers, AnyStep(d)
  PROVE  /\ Callers' = [Callers EXCEPT ![d] = CallerOf(call'[d])]
         /\ Jobs' = [Jobs EXCEPT ![d] = JobOf(d)']
         /\ Callers[d] = CallerOf(call[d]) /\ Jobs[d] = JobOf(d)
<1>1. \A e \in Drivers : e # d =>
        CallerOf(call'[e]) = CallerOf(call[e]) /\ JobOf(e)' = JobOf(e)
  BY OthersMapped
<1>2. Callers = [e \in Drivers |-> Callers[e]] /\ Jobs = [e \in Drivers |-> Jobs[e]]
  BY DEF Callers, Jobs
<1>3. Callers' = [e \in Drivers |-> Callers'[e]] /\ Jobs' = [e \in Drivers |-> Jobs'[e]]
  BY DEF Callers, Jobs
<1>4. Callers'[d] = CallerOf(call'[d]) /\ Jobs'[d] = JobOf(d)'
  BY DEF Callers, Jobs
<1>5. \A e \in Drivers : e # d => Callers'[e] = Callers[e] /\ Jobs'[e] = Jobs[e]
  BY <1>1 DEF Callers, Jobs
<1>6. Callers[d] = CallerOf(call[d]) /\ Jobs[d] = JobOf(d)
  BY DEF Callers, Jobs
<1>7. QED
  BY <1>2, <1>3, <1>4, <1>5, <1>6, Update

\* The abstract caller of a concrete one.
LEMMA CallerCases ==
  ASSUME NEW c
  PROVE  /\ c.pc = "idle" =>
              CallerOf(c) = [pc |-> "idle", req |-> c.req, ret |-> c.ret.msg]
         /\ c.pc \in {"flush", "wait"} =>
              CallerOf(c) = [pc |-> "open", req |-> c.req, ret |-> c.ret.msg]
         /\ c.pc = "done" =>
              CallerOf(c) = [pc |-> "returned", req |-> c.req, ret |-> c.ret.msg]
BY DEF CallerOf

\* A call begins: the abstract caller opens a call, the job stays.
LEMMA MapInvoke ==
  ASSUME DriverTypeOK, NEW d \in Drivers, NEW m \in Requests, RequestBegin(d, m)
  PROVE  RPC!Invoke(d, m)
<1>1. AnyStep(d)
  BY DEF AnyStep
<1>2. /\ CallerOf(call[d]).pc = "idle"
      /\ CallerOf(call'[d]) = [pc |-> "open", req |-> m, ret |-> NoMessage]
  <2>1. call[d].pc = "idle"
    BY DEF RequestBegin
  <2>2. PICK tag \in Serials :
          call' = [call EXCEPT ![d] = [Idle(tag) EXCEPT !.pc = "flush", !.req = m]]
    BY DEF RequestBegin
  <2>3. /\ call'[d].pc = "flush" /\ call'[d].req = m
        /\ call'[d].ret.msg = NoMessage
    BY <2>2 DEF DriverTypeOK, Idle
  <2>4. QED
    BY <2>1, <2>3, CallerCases
<1>3. JobOf(d)' = JobOf(d) /\ hw' = hw
  BY <1>2 DEF RequestBegin, JobOf, CallerOf
<1>4. QED
  BY <1>1, <1>2, <1>3, MappedStep, SameData DEF RPC!Invoke, Callers, Jobs

\* A queue that holds a message holds no other.
LEMMA QueuesShort ==
  ASSUME DriverTypeOK, NEW d \in Drivers, DriverInv(d)
  PROVE  /\ requestQ[d] # <<>> => Tail(requestQ[d]) = <<>>
         /\ replyQ[d] # <<>> => Tail(replyQ[d]) = <<>>
<1>1. requestQ[d] \in Seq(Envelope) /\ replyQ[d] \in Seq(Envelope) /\ pending[d] \in Nat
  BY DEF DriverTypeOK
<1>2. ASSUME NEW q \in Seq(Envelope), Len(q) <= 1, q # <<>> PROVE Tail(q) = <<>>
  <2>1. Len(Tail(q)) = Len(q) - 1 /\ Tail(q) \in Seq(Envelope) /\ Len(q) \in Nat
    BY <1>2, HeadTailProperties
  <2>2. Len(Tail(q)) \in Nat
    BY <2>1
  <2>3. Len(Tail(q)) = 0
    BY <1>2, <2>1, <2>2
  <2>4. QED
    BY <2>1, <2>3, EmptySeq
<1> DEFINE a == Len(requestQ[d])
           b == Len(replyQ[d])
<1>3. a \in Nat /\ b \in Nat
  BY <1>1
<1>4. pending[d] = a + b + (IF thread[d].pc = "receive" THEN 0 ELSE 1) /\ pending[d] <= 1
  BY DEF DriverInv, Counted, InFlight
<1>5. a <= 1 /\ b <= 1
  <2> HIDE DEF a, b
  <2>1. QED
    BY <1>3, <1>4
<1>6. QED
  BY <1>1, <1>2, <1>5

\* flush() throws an answer away: the abstract specification drops it.
LEMMA MapDrop ==
  ASSUME DriverTypeOK, NEW d \in Drivers, DriverInv(d), FlushReceive(d)
  PROVE  RPC!Drop(d)
<1>1. AnyStep(d)
  BY DEF AnyStep, DriverStep, CallerStep
<1>2. InReplyQ(d)
  BY JobIsSomewhere DEF FlushReceive, Somewhere, InRequestQ, AtWorker, ServedByWorker,
     InReplyQ, Nowhere
<1>3. /\ requestQ'[d] = <<>> /\ replyQ'[d] = <<>> /\ thread'[d].pc = "receive"
      /\ call' = call /\ hw' = hw /\ call[d].pc = "flush"
  BY <1>2, QueuesShort DEF FlushReceive, InReplyQ, DriverTypeOK
<1>4. JobOf(d)' = RPC!NoJob
  BY <1>3, SameData DEF JobOf, RPC!NoJob
<1>5. /\ JobOf(d).pc = "served" /\ JobOf(d).owner = "nobody"
      /\ CallerOf(call[d]).pc = "open"
  BY <1>2, <1>3, CallerCases DEF InReplyQ, Owner
<1>6. CallerOf(call'[d]) = CallerOf(call[d])
  BY <1>3
<1>7. Callers' = Callers
  BY <1>3 DEF Callers
<1>8. QED
  BY <1>1, <1>3, <1>4, <1>5, <1>7, MappedStep DEF RPC!Drop, Callers, Jobs

\* A request is sent: the job is handed over.
LEMMA MapHandOver ==
  ASSUME DriverTypeOK, NEW d \in Drivers, DriverInv(d), SendRequest(d)
  PROVE  RPC!HandOver(d)
<1>1. AnyStep(d)
  BY DEF AnyStep, DriverStep, CallerStep
<1>2. Nowhere(d)
  <2>1. JobOf(d).pc = "none"
    BY JobIsSomewhere DEF SendRequest
  <2>2. QED
    BY <2>1, JobIsSomewhere DEF Somewhere, InRequestQ, AtWorker, ServedByWorker, InReplyQ
<1> DEFINE x == [tag |-> call[d].tag, msg |-> call[d].req]
<1>3. x \in Envelope /\ call[d] \in Call
  BY DEF DriverTypeOK, Call, Envelope
<1>4. requestQ'[d] # <<>> /\ Head(requestQ'[d]) = x
  <2>1. requestQ'[d] = Append(requestQ[d], x) /\ requestQ[d] \in Seq(Envelope)
    BY DEF SendRequest, DriverTypeOK
  <2>2. QED
    BY <1>2, <1>3, <2>1, QueueFacts, AppendProperties DEF Nowhere
<1>5. /\ call[d].pc = "flush" /\ call'[d].pc = "wait" /\ call'[d].req = call[d].req
      /\ call'[d].ret = call[d].ret /\ hw' = hw
  BY <1>3 DEF SendRequest, DriverTypeOK, Call
<1>6. JobOf(d)' = [pc |-> "queued", req |-> call[d].req, rep |-> NoMessage,
                   owner |-> "call"]
  <2>1. Head(requestQ'[d]).msg = call[d].req
    BY <1>4
  <2> HIDE DEF x
  <2>2. JobOf(d)' = [pc |-> "queued", req |-> Head(requestQ'[d]).msg, rep |-> NoMessage,
                     owner |-> "call"]
    <3>1. /\ requestQ'[d] # <<>> /\ call'[d].pc = "wait"
          /\ replyQ'[d] = <<>> /\ thread'[d].pc = "receive"
      BY <1>2, <1>4, <1>5 DEF SendRequest, Nowhere
    <3>2. QED
      BY <3>1 DEF JobOf
  <2>3. QED
    BY <2>1, <2>2
<1>7. /\ CallerOf(call[d]) = [pc |-> "open", req |-> call[d].req, ret |-> call[d].ret.msg]
      /\ CallerOf(call'[d]) = CallerOf(call[d])
  BY <1>5, CallerCases
<1>8. Callers' = Callers
  BY <1>1, <1>7, OthersMapped DEF Callers
<1>9. JobOf(d).pc = "none"
  BY <1>2 DEF Nowhere, RPC!NoJob
<1>10. /\ Callers[d].pc = "open" /\ Callers[d].req = call[d].req
       /\ Jobs[d].pc = "none"
       /\ Jobs' = [Jobs EXCEPT ![d] = JobOf(d)']
  BY <1>1, <1>7, <1>9, MappedStep
<1>11. Jobs' = [Jobs EXCEPT ![d] = [pc |-> "queued", req |-> Callers[d].req,
                                    rep |-> RPC!NoMessage, owner |-> "call"]]
  BY <1>6, <1>10, SameData, Zenon
<1>12. QED
  BY <1>5, <1>8, <1>10, <1>11 DEF RPC!HandOver, Callers, Jobs

\* The caller receives the answer it waits for.
LEMMA MapAnswer ==
  ASSUME DriverTypeOK, NEW d \in Drivers, DriverInv(d), ReceiveReply(d)
  PROVE  RPC!Answer(d)
<1>1. AnyStep(d)
  BY DEF AnyStep, DriverStep, CallerStep
<1>2. InReplyQ(d)
  BY JobIsSomewhere DEF ReceiveReply, Somewhere, InRequestQ, AtWorker, ServedByWorker,
     InReplyQ, Nowhere
<1>3. /\ requestQ'[d] = <<>> /\ replyQ'[d] = <<>> /\ thread'[d].pc = "receive" /\ hw' = hw
  BY <1>2, QueuesShort DEF ReceiveReply, InReplyQ, DriverTypeOK
<1>4. /\ call[d].pc = "wait" /\ call'[d].pc = "done" /\ call'[d].req = call[d].req
      /\ call'[d].ret = Head(replyQ[d])
  BY DEF ReceiveReply, DriverTypeOK, Call
<1>5. JobOf(d)' = RPC!NoJob
  BY <1>3, <1>4, SameData DEF JobOf, RPC!NoJob
<1>6. JobOf(d) = [pc |-> "served", req |-> NoMessage, rep |-> Head(replyQ[d]).msg,
                  owner |-> "call"]
  BY <1>2, <1>4 DEF InReplyQ, Owner
<1>7. /\ CallerOf(call[d]) = [pc |-> "open", req |-> call[d].req, ret |-> call[d].ret.msg]
      /\ CallerOf(call'[d]) = [pc |-> "returned", req |-> call[d].req,
                               ret |-> Head(replyQ[d]).msg]
  BY <1>4, CallerCases
<1>8. /\ Callers[d].pc = "open" /\ Callers[d].req = call[d].req
      /\ Jobs[d].pc = "served" /\ Jobs[d].owner = "call"
      /\ Jobs[d].rep = Head(replyQ[d]).msg
      /\ Callers' = [Callers EXCEPT ![d] = CallerOf(call'[d])]
      /\ Jobs' = [Jobs EXCEPT ![d] = RPC!NoJob]
  BY <1>1, <1>5, <1>6, <1>7, MappedStep
<1>9. Callers' = [Callers EXCEPT ![d] = [pc |-> "returned", req |-> Callers[d].req,
                                         ret |-> Jobs[d].rep]]
  BY <1>7, <1>8, Zenon
<1>10. QED
  BY <1>3, <1>8, <1>9 DEF RPC!Answer, Callers, Jobs

\* The caller gives up: a job that was handed over is nobody's.
LEMMA MapAbandon ==
  ASSUME DriverTypeOK, NEW d \in Drivers, RequestTimeout(d)
  PROVE  RPC!Abandon(d)
<1>1. AnyStep(d)
  BY DEF AnyStep, DriverStep
<1>2. /\ call[d].pc \in {"flush", "wait"} /\ call'[d].pc = "done"
      /\ call'[d].req = call[d].req /\ call'[d].ret.msg = Plain("Timeout")
      /\ UNCHANGED <<requestQ, replyQ, thread, hw>>
  BY DEF RequestTimeout, FlushTimeout, ReplyTimeout, GiveUp, DriverTypeOK, Call
<1>3. JobOf(d)' = [pc |-> JobOf(d).pc, req |-> JobOf(d).req, rep |-> JobOf(d).rep,
                   owner |-> "nobody"]
  <2>1. CASE requestQ[d] # <<>>
    BY <1>2, <2>1 DEF JobOf
  <2>2. CASE requestQ[d] = <<>> /\ thread[d].pc \in {"initialize", "process"}
    BY <1>2, <2>2 DEF JobOf
  <2>3. CASE requestQ[d] = <<>> /\ thread[d].pc = "reply"
    BY <1>2, <2>3 DEF JobOf
  <2>4. CASE /\ requestQ[d] = <<>> /\ thread[d].pc \notin {"initialize", "process", "reply"}
             /\ replyQ[d] # <<>>
    BY <1>2, <2>4 DEF JobOf
  <2>5. CASE /\ requestQ[d] = <<>> /\ thread[d].pc \notin {"initialize", "process", "reply"}
             /\ replyQ[d] = <<>>
    BY <1>2, <2>5 DEF JobOf
  <2>6. QED
    BY <2>1, <2>2, <2>3, <2>4, <2>5
<1>4. /\ CallerOf(call[d]) = [pc |-> "open", req |-> call[d].req, ret |-> call[d].ret.msg]
      /\ CallerOf(call'[d]) = [pc |-> "returned", req |-> call[d].req,
                               ret |-> Plain("Timeout")]
  BY <1>2, CallerCases
<1>5. /\ Callers[d] = CallerOf(call[d]) /\ Callers[d].pc = "open"
      /\ Callers[d].req = call[d].req /\ Jobs[d] = JobOf(d)
      /\ Callers' = [Callers EXCEPT ![d] = CallerOf(call'[d])]
      /\ Jobs' = [Jobs EXCEPT ![d] = JobOf(d)']
  BY <1>1, <1>4, MappedStep
<1>6. Callers' = [Callers EXCEPT ![d] = [pc |-> "returned", req |-> Callers[d].req,
                                         ret |-> RPC!Plain("Timeout")]]
  BY <1>4, <1>5, SameData, Zenon
<1>7. Jobs' = [Jobs EXCEPT ![d] = [pc |-> Jobs[d].pc, req |-> Jobs[d].req,
                                   rep |-> Jobs[d].rep, owner |-> "nobody"]]
  BY <1>3, <1>5, Zenon
<1>8. QED
  BY <1>2, <1>5, <1>6, <1>7 DEF RPC!Abandon, Callers, Jobs

\* request() returns: the abstract caller is idle again.
LEMMA MapReturn ==
  ASSUME DriverTypeOK, NEW d \in Drivers, RequestReturn(d)
  PROVE  RPC!Return(d)
<1>1. AnyStep(d)
  BY DEF AnyStep
<1>2. /\ call[d].pc = "done" /\ call'[d].pc = "idle"
      /\ call'[d].req = NoMessage /\ call'[d].ret.msg = NoMessage
      /\ UNCHANGED <<requestQ, replyQ, thread, hw>>
  BY DEF RequestReturn, DriverTypeOK, Idle
<1>3. JobOf(d)' = JobOf(d)
  BY <1>2 DEF JobOf
<1>4. /\ CallerOf(call[d]).pc = "returned"
      /\ CallerOf(call'[d]) = RPC!NoCall
  BY <1>2, CallerCases, SameData DEF RPC!NoCall
<1>5. Jobs' = Jobs
  BY <1>1, <1>3, OthersMapped DEF Jobs
<1>6. QED
  BY <1>1, <1>2, <1>4, <1>5, MappedStep DEF RPC!Return, Callers, Jobs

\* A step that leaves caller, job and registers alone is invisible.
LEMMA MapStutter ==
  ASSUME DriverTypeOK, NEW d \in Drivers, AnyStep(d),
         call' = call, JobOf(d)' = JobOf(d), hw' = hw
  PROVE  UNCHANGED <<Callers, Jobs, hw>>
<1>1. Callers' = Callers
  BY DEF Callers
<1>2. Jobs' = Jobs
  BY OthersMapped DEF Jobs
<1>3. QED
  BY <1>1, <1>2

\* A request moves from the queue to the worker.
LEMMA MapReceive ==
  ASSUME DriverTypeOK, NEW d \in Drivers, DriverInv(d), WorkerReceive(d)
  PROVE  UNCHANGED <<Callers, Jobs, hw>>
<1>1. AnyStep(d)
  BY DEF AnyStep, DriverStep, WorkerStep
<1>2. InRequestQ(d)
  BY JobIsSomewhere DEF WorkerReceive, Somewhere, InRequestQ, AtWorker, ServedByWorker,
     InReplyQ, Nowhere
<1>3. /\ requestQ'[d] = <<>> /\ replyQ'[d] = <<>> /\ call' = call /\ hw' = hw
      /\ thread'[d].pc \in {"initialize", "process"} /\ thread'[d].env = Head(requestQ[d])
  BY <1>2, QueuesShort DEF WorkerReceive, InRequestQ, DriverTypeOK, Thread
<1>4. JobOf(d)' = [pc |-> "queued", req |-> thread'[d].env.msg, rep |-> NoMessage,
                   owner |-> Owner(d)]
  BY <1>3 DEF JobOf, Owner
<1>5. JobOf(d)' = JobOf(d)
  BY <1>2, <1>3, <1>4 DEF InRequestQ
<1>6. QED
  BY <1>1, <1>3, <1>5, MapStutter

\* The answer moves from the worker to the queue.
LEMMA MapReply ==
  ASSUME DriverTypeOK, NEW d \in Drivers, DriverInv(d), WorkerReply(d)
  PROVE  UNCHANGED <<Callers, Jobs, hw>>
<1>1. AnyStep(d)
  BY DEF AnyStep, DriverStep, WorkerStep
<1>2. ServedByWorker(d)
  BY JobIsSomewhere DEF WorkerReply, Somewhere, InRequestQ, AtWorker, ServedByWorker,
     InReplyQ, Nowhere
<1> DEFINE x == [tag |-> thread[d].env.tag, msg |-> thread[d].rep]
<1>3. /\ requestQ'[d] = <<>> /\ call' = call /\ hw' = hw /\ thread'[d].pc = "receive"
      /\ replyQ'[d] = Append(<<>>, x)
  BY <1>2 DEF WorkerReply, ServedByWorker, DriverTypeOK, Receiving
<1>4. replyQ'[d] # <<>> /\ Head(replyQ'[d]) = x
  <2>1. x \in Envelope
    BY DEF DriverTypeOK, Thread, Envelope
  <2>2. QED
    BY <1>3, <2>1, QueueFacts, AppendProperties
<1>5. JobOf(d)' = [pc |-> "served", req |-> NoMessage, rep |-> Head(replyQ'[d]).msg,
                   owner |-> Owner(d)]
  <2> HIDE DEF x
  <2>1. QED
    BY <1>3, <1>4 DEF JobOf, Owner
<1>6. JobOf(d)' = JobOf(d)
  BY <1>2, <1>4, <1>5 DEF ServedByWorker
<1>7. QED
  BY <1>1, <1>3, <1>6, MapStutter

\* A step that turns the request at the worker into its answer serves the job.
LEMMA MapServe ==
  ASSUME DriverTypeOK, DriverTypeOK', NEW d \in Drivers, AnyStep(d), AtWorker(d),
         thread'[d].pc = "reply", UNCHANGED <<requestQ, replyQ, call>>,
         hw' = [hw EXCEPT ![d] = hw'[d]],
         RPC!Effect(thread[d].env.msg, hw[d], hw'[d]),
         RPC!Truthful(thread[d].env.msg, hw'[d], thread'[d].rep)
  PROVE  RPC!Serve(d)
<1>1. JobOf(d) = [pc |-> "queued", req |-> thread[d].env.msg, rep |-> NoMessage,
                  owner |-> Owner(d)]
  BY DEF AtWorker
<1>2. JobOf(d)' = [pc |-> "served", req |-> NoMessage, rep |-> thread'[d].rep,
                   owner |-> Owner(d)]
  <2>1. requestQ'[d] = <<>> /\ replyQ'[d] = <<>>
    BY DEF AtWorker
  <2>2. QED
    BY <2>1 DEF JobOf, Owner
<1>3. Callers' = Callers
  BY DEF Callers
<1>4. /\ Jobs[d].pc = "queued" /\ Jobs[d].req = thread[d].env.msg
      /\ Jobs[d].owner = Owner(d)
      /\ Jobs' = [Jobs EXCEPT ![d] = JobOf(d)']
      /\ Jobs'[d] = JobOf(d)'
  BY <1>1, MappedStep DEF Jobs
<1>5. Jobs'[d].rep = thread'[d].rep
  BY <1>2, <1>4
<1>6. thread'[d].rep \in RPC!Message
  BY SameData DEF DriverTypeOK, Thread
<1>7. Jobs' = [Jobs EXCEPT ![d] = [pc |-> "served", req |-> RPC!NoMessage,
                                   rep |-> Jobs'[d].rep, owner |-> Jobs[d].owner]]
  <2>1. JobOf(d)' = [pc |-> "served", req |-> RPC!NoMessage, rep |-> Jobs'[d].rep,
                     owner |-> Jobs[d].owner]
    BY <1>2, <1>4, <1>5, SameData
  <2>2. QED
    BY <1>4, <2>1, Zenon
<1>8. QED
  BY <1>3, <1>4, <1>5, <1>6, <1>7 DEF RPC!Serve, Callers, Jobs

\* An answer that is no Ok to a setting promises nothing.
LEMMA PromisesNothing ==
  ASSUME NEW req, NEW after, NEW rep, rep.mtype # "Ok" \/ ~IsSettingCall(req)
  PROVE  RPC!Truthful(req, after, rep)
BY SameData DEF RPC!Truthful

\* initialize() serves the request with an error when there is no detector
\* object; otherwise the request stays at the worker.
LEMMA MapInitialize ==
  ASSUME DriverTypeOK, DriverTypeOK', NEW d \in Drivers, DriverInv(d), WorkerInitialize(d)
  PROVE  RPC!Serve(d) \/ UNCHANGED <<Callers, Jobs, hw>>
<1>1. AnyStep(d)
  BY DEF AnyStep, DriverStep, WorkerStep
<1>2. AtWorker(d)
  BY JobIsSomewhere DEF WorkerInitialize, Somewhere, InRequestQ, AtWorker, ServedByWorker,
     InReplyQ, Nowhere
<1>3. UNCHANGED <<requestQ, replyQ, call, hw>>
  BY DEF WorkerInitialize
<1>4. CASE thread' = [thread EXCEPT ![d].pc = "process"]
  <2>1. thread'[d].pc = "process" /\ thread'[d].env = thread[d].env
    BY <1>4 DEF DriverTypeOK, Thread
  <2>2. requestQ'[d] = <<>> /\ replyQ'[d] = <<>>
    BY <1>2, <1>3 DEF AtWorker
  <2>3. JobOf(d)' = [pc |-> "queued", req |-> thread[d].env.msg, rep |-> NoMessage,
                     owner |-> Owner(d)]
    BY <1>3, <2>1, <2>2 DEF JobOf, Owner
  <2>4. JobOf(d)' = JobOf(d)
    BY <1>2, <2>3 DEF AtWorker
  <2>5. QED
    BY <1>1, <1>3, <2>4, MapStutter
<1>5. CASE thread' = [thread EXCEPT ![d].pc = "reply", ![d].rep = Plain("Error")]
  <2>1. thread'[d].pc = "reply" /\ thread'[d].rep.mtype # "Ok"
    BY <1>5 DEF DriverTypeOK, Thread, Plain
  <2>2. RPC!Truthful(thread[d].env.msg, hw'[d], thread'[d].rep)
    BY <2>1, PromisesNothing
  <2>3. hw' = [hw EXCEPT ![d] = hw'[d]] /\ RPC!Effect(thread[d].env.msg, hw[d], hw'[d])
    BY <1>3 DEF DriverTypeOK, RPC!Effect
  <2>4. QED
    BY <1>1, <1>2, <1>3, <2>1, <2>2, <2>3, MapServe
<1>6. QED
  BY <1>4, <1>5 DEF WorkerInitialize

\* A setting handler leaves the register alone or writes what was asked, and
\* answers the truth about it.
LEMMA MapSetting ==
  ASSUME DriverTypeOK, NEW d \in Drivers, ProcessSetting(d)
  PROVE  /\ hw' = [hw EXCEPT ![d] = hw'[d]]
         /\ RPC!Effect(thread[d].env.msg, hw[d], hw'[d])
         /\ RPC!Truthful(thread[d].env.msg, hw'[d], thread'[d].rep)
<1> DEFINE req == thread[d].env.msg
           s == SettingOf[req.mtype]
           arg == Argument(req)
<1>1. PICK reg \in Landed(d, s, arg), errs \in Complaints(d, arg) :
        /\ hw' = [hw EXCEPT ![d][s] = reg]
        /\ Answered(d, SettingReply(req, Returned(d, reg), errMask[d] \cup errs))
  BY DEF ProcessSetting
<1> DEFINE rep == SettingReply(req, Returned(d, reg), errMask[d] \cup errs)
<1>2. thread[d] \in Thread /\ hw \in [Drivers -> [Settings -> Int]] /\ IsSettingCall(req)
  BY DEF DriverTypeOK, ProcessSetting
<1>3. s \in Settings /\ arg \in Int
  BY <1>2, SettingOfType, ArgumentType DEF Thread, Envelope
<1>4. thread'[d].rep = rep
  BY <1>1, <1>2 DEF Answered, DriverTypeOK, Thread
<1>5. hw'[d] = [hw[d] EXCEPT ![s] = reg]
  BY <1>1, <1>2
<1>6. hw' = [hw EXCEPT ![d] = hw'[d]]
  BY <1>1, <1>2
<1>7. RPC!Effect(req, hw[d], hw'[d])
  <2>1. hw'[d] = hw[d] \/ (arg >= 0 /\ hw'[d] = [hw[d] EXCEPT ![s] = arg])
    <3>1. hw[d] \in [Settings -> Int]
      BY <1>2
    <3>2. reg = hw[d][s] \/ (arg >= 0 /\ reg = arg)
      <4> HIDE DEF req, s, arg
      <4>1. QED
        BY <1>3 DEF Landed
    <3> HIDE DEF req, s, arg
    <3>3. QED
      BY <1>3, <1>5, <3>1, <3>2
  <2>2. /\ RPC!IsSettingCall(req) /\ RPC!Argument(req) = arg
        /\ RPC!SettingOf[req.mtype] = s
    BY <1>2, SameData
  <2> HIDE DEF req, arg, s
  <2>3. QED
    BY <2>1, <2>2 DEF RPC!Effect
<1>8. ASSUME rep.mtype = "Ok"
      PROVE  IF arg < 0
             THEN rep \in {DataReply(SettingType(s), hw'[d][s]), DataReply(SettingType(s), -1)}
             ELSE s \in Verifying => hw'[d][s] = arg
  <2>1. IF arg < 0 THEN rep = DataReply(SettingType(s), Returned(d, reg))
        ELSE s \in Verifying => Returned(d, reg) = arg
    BY <1>8, SettingReplyTruth
  <2>2. Returned(d, reg) \in {reg, -1} /\ hw'[d][s] = reg
    BY <1>2, <1>3, <1>5 DEF Returned
  <2> HIDE DEF rep, req, s, arg
  <2>3. QED
    BY <1>3, <2>1, <2>2
<1>9. RPC!Truthful(req, hw'[d], rep)
  <2>1. /\ RPC!Argument(req) = arg /\ RPC!SettingOf[req.mtype] = s
        /\ RPC!Verifying = Verifying
        /\ RPC!DataReply(RPC!SettingType(s), hw'[d][s]) = DataReply(SettingType(s), hw'[d][s])
        /\ RPC!DataReply(RPC!SettingType(s), -1) = DataReply(SettingType(s), -1)
    BY SameData
  <2> HIDE DEF rep, req, s, arg
  <2>2. QED
    BY <1>8, <2>1 DEF RPC!Truthful
<1>10. QED
  BY <1>4, <1>6, <1>7, <1>9

\* process() serves the request.
LEMMA MapProcess ==
  ASSUME DriverTypeOK, DriverTypeOK', NEW d \in Drivers, DriverInv(d),
         \/ ProcessSetting(d) \/ ProcessOnlineCheck(d)
         \/ ProcessSensorRead(d) \/ ProcessUnsupported(d)
  PROVE  RPC!Serve(d)
<1>1. AnyStep(d)
  BY DEF AnyStep, DriverStep, WorkerStep
<1>2. PICK rep : Processing(d) /\ Answered(d, rep)
  BY DEF ProcessSetting, ProcessOnlineCheck, ProcessSensorRead, ProcessUnsupported
<1>3. AtWorker(d)
  BY <1>2, JobIsSomewhere DEF Processing, Somewhere, InRequestQ, AtWorker, ServedByWorker,
     InReplyQ, Nowhere
<1>4. thread'[d].pc = "reply" /\ UNCHANGED <<requestQ, replyQ, call>>
  BY <1>2 DEF Answered, DriverTypeOK, Thread
<1>5. /\ hw' = [hw EXCEPT ![d] = hw'[d]]
      /\ RPC!Effect(thread[d].env.msg, hw[d], hw'[d])
      /\ RPC!Truthful(thread[d].env.msg, hw'[d], thread'[d].rep)
  <2>1. CASE ProcessSetting(d)
    BY <2>1, MapSetting
  <2>2. CASE ProcessOnlineCheck(d) \/ ProcessSensorRead(d) \/ ProcessUnsupported(d)
    <3>1. hw' = hw
      BY <2>2 DEF ProcessOnlineCheck, ProcessSensorRead, ProcessUnsupported
    <3>2. ~IsSettingCall(thread[d].env.msg)
      BY <2>2 DEF ProcessOnlineCheck, ProcessSensorRead, ProcessUnsupported, IsUnsupported,
         IsOnlineCheck, IsSensorRead, IsSettingCall, ReadTypes, SensorType, SettingOf
    <3>3. hw' = [hw EXCEPT ![d] = hw'[d]] /\ RPC!Effect(thread[d].env.msg, hw[d], hw'[d])
      BY <3>1 DEF DriverTypeOK, RPC!Effect
    <3>4. QED
      BY <3>2, <3>3, PromisesNothing
  <2>3. QED
    BY <2>1, <2>2
<1>6. QED
  BY <1>1, <1>3, <1>4, <1>5, MapServe

\* Every step of a driver is a step of RequestReply or changes nothing there.
LEMMA MapStep ==
  ASSUME DriverIInv, DriverTypeOK', [DriverNext]_driverVars
  PROVE  RPC!Next \/ UNCHANGED <<Callers, Jobs, hw>>
<1>1. CASE UNCHANGED driverVars
  <2>1. \A d \in Drivers : JobOf(d)' = JobOf(d)
    BY <1>1 DEF driverVars, JobOf
  <2>2. QED
    BY <1>1, <2>1 DEF driverVars, Callers, Jobs
<1>2. ASSUME NEW d \in Drivers, AnyStep(d)
      PROVE  RPC!Next \/ UNCHANGED <<Callers, Jobs, hw>>
  <2>1. DriverTypeOK /\ DriverInv(d)
    BY DEF DriverIInv
  <2>2. CASE \E m \in Requests : RequestBegin(d, m)
    BY <2>1, <2>2, MapInvoke DEF RPC!Next
  <2>3. CASE CallerStep(d)
    BY <2>1, <2>3, MapDrop, MapHandOver, MapAnswer DEF CallerStep, RPC!Next
  <2>4. CASE RequestTimeout(d) \/ RequestReturn(d)
    BY <2>1, <2>4, MapAbandon, MapReturn DEF RPC!Next
  <2>5. CASE WorkerStep(d)
    BY <2>1, <2>5, MapReceive, MapInitialize, MapProcess, MapReply DEF WorkerStep, RPC!Next
  <2>6. CASE Trouble(d)
    <3>1. JobOf(d)' = JobOf(d) /\ call' = call /\ hw' = hw
      BY <2>6 DEF Trouble, JobOf
    <3>2. QED
      BY <1>2, <2>1, <3>1, MapStutter
  <2>7. QED
    BY <1>2, <2>2, <2>3, <2>4, <2>5, <2>6 DEF AnyStep, DriverStep
<1>3. QED
  BY <1>1, <1>2 DEF DriverNext, AnyStep

\* The drivers keep the promise of request(): a request is handed over at most
\* once and served at most once, its answer goes to the call that asked or is
\* dropped, and a register changes only on behalf of the job that is served
\* (slsDetDriver.cpp:541-826).
THEOREM DriversImplementRequestReply == DriverSpec => ImplementsRequestReply
<1>1. DriverInit => RPC!Init
  <2> SUFFICES ASSUME DriverInit PROVE RPC!Init
    OBVIOUS
  <2>1. ASSUME NEW d \in Drivers
        PROVE  CallerOf(call[d]) = RPC!NoCall /\ JobOf(d) = RPC!NoJob
    <3>1. PICK tag \in Serials : call[d] = Idle(tag) /\ thread[d] = Receiving(tag)
      BY DEF DriverInit
    <3>2. /\ call[d].pc = "idle" /\ call[d].req = NoMessage /\ call[d].ret.msg = NoMessage
          /\ thread[d].pc = "receive" /\ requestQ[d] = <<>> /\ replyQ[d] = <<>>
      BY <3>1 DEF DriverInit, Idle, Receiving
    <3>3. CallerOf(call[d]) = RPC!NoCall
      BY <3>2, CallerCases, SameData DEF RPC!NoCall
    <3>4. JobOf(d) = RPC!NoJob
      BY <3>2, SameData DEF JobOf, RPC!NoJob
    <3>5. QED
      BY <3>3, <3>4
  <2>2. hw = [d \in Drivers |-> [s \in RPC!Settings |-> 0]]
    BY SameData DEF DriverInit
  <2>3. QED
    BY <2>1, <2>2 DEF RPC!Init
<1>2. DriverIInv /\ DriverIInv' /\ [DriverNext]_driverVars => [RPC!Next]_(RPC!rpcVars)
  BY MapStep DEF DriverIInv, RPC!rpcVars, Callers, Jobs
<1>3. QED
  BY <1>1, <1>2, DriverInvariant, PTL DEF DriverSpec, ImplementsRequestReply, RPC!Spec
=============================================================================
