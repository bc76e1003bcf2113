---------------------------- MODULE SlsDetDriver ----------------------------
(***************************************************************************)
(* The detector drivers of one port (slsDetDriver.cpp): every driver has a *)
(* caller, the port thread inside request(), and a worker, the thread in   *)
(* run(), joined by two bounded queues.  request() gives up after a        *)
(* timeout and leaves the answer behind; pending tells the next request() *)
(* how many answers to throw away before it may send.                      *)
(*                                                                         *)
(* The slsDetectorPackage and the module behind it are external.  A module *)
(* that is in trouble (slow, unreachable, faulty) may do anything; trouble *)
(* comes and goes at any time.                                             *)
(*                                                                         *)
(* Left out: message size errors (both ends send whole messages), the send *)
(* timeout of request() (PendingCountsInFlight shows there is always       *)
(* room), and stop(), shutdown() and the destructor.                       *)
(***************************************************************************)
EXTENDS SlsDetHandlers, Sequences

CONSTANTS
  Drivers,       \* the drivers, one for each address of the port
  Requests,      \* the messages the caller may send
  Capacity,      \* of each queue (MAX_MQ_CAPACITY)
  Serials,       \* tell apart a request from the one before it
  InitOutcomes,  \* what initialize() may meet
  Readings       \* what a read-only quantity may measure

AllInitOutcomes == {"ok", "throwNew", "wrongCount", "throwHostname"}

ASSUME RequestsAssumption == Requests \subseteq Message
ASSUME CapacityAssumption == Capacity \in Nat \ {0}
ASSUME SerialsAssumption == \E s, t \in Serials : s # t
ASSUME InitAssumption == "ok" \in InitOutcomes /\ InitOutcomes \subseteq AllInitOutcomes
ASSUME ReadingsAssumption == Readings \subseteq Int /\ Readings # {}

VARIABLES
  requestQ,  \* _request: envelopes on their way to the worker
  replyQ,    \* _reply: envelopes on their way back
  pending,   \* _pending: answers still owed to the caller
  call,      \* where the caller is inside request()
  thread,    \* where the worker is inside run()
  det,       \* _det: no object, an object without sub-detector, or one with it
  errMask,   \* the error mask of _det, sticky until clearAllErrorMask()
  hw,        \* the setting registers of the module
  troubled   \* the module is in trouble

driverVars ==
  <<requestQ, replyQ, pending, call, thread, det, errMask, hw, troubled>>

\* A message in a queue, with the serial of the request() it belongs to.  The
\* code has no serial: it is there for the properties only.
Envelope == [tag : Serials, msg : Message]

Call == [pc : {"idle", "flush", "wait", "done"}, req : Message, tag : Serials,
         ret : Envelope]

Thread == [pc : {"receive", "initialize", "process", "reply"}, env : Envelope,
           rep : Message]

Idle(tag) ==
  [pc |-> "idle", req |-> NoMessage, tag |-> tag,
   ret |-> [tag |-> tag, msg |-> NoMessage]]

Receiving(tag) ==
  [pc |-> "receive", env |-> [tag |-> tag, msg |-> NoMessage],
   rep |-> NoMessage]

DriverTypeOK ==
  /\ requestQ \in [Drivers -> Seq(Envelope)]
  /\ replyQ \in [Drivers -> Seq(Envelope)]
  /\ pending \in [Drivers -> Nat]
  /\ call \in [Drivers -> Call]
  /\ thread \in [Drivers -> Thread]
  /\ det \in [Drivers -> {"NULL", "partial", "ready"}]
  /\ errMask \in [Drivers -> SUBSET ErrorBits]
  /\ hw \in [Drivers -> [Settings -> Int]]
  /\ troubled \in [Drivers -> BOOLEAN]

DriverInit ==
  /\ requestQ = [d \in Drivers |-> <<>>]
  /\ replyQ = [d \in Drivers |-> <<>>]
  /\ pending = [d \in Drivers |-> 0]
  /\ \E tag \in Serials :
       /\ call = [d \in Drivers |-> Idle(tag)]
       /\ thread = [d \in Drivers |-> Receiving(tag)]
  /\ det = [d \in Drivers |-> "NULL"]
  /\ errMask = [d \in Drivers |-> {}]
  /\ hw = [d \in Drivers |-> [s \in Settings |-> 0]]
  /\ troubled \in [Drivers -> BOOLEAN]

-----------------------------------------------------------------------------
(* request() and flush(), run by the port thread *)

RequestBegin(d, m) ==
  /\ call[d].pc = "idle"
  /\ \E tag \in Serials \ {call[d].tag} :
       call' = [call EXCEPT ![d] = [Idle(tag) EXCEPT !.pc = "flush", !.req = m]]
  /\ UNCHANGED <<requestQ, replyQ, pending, thread, det, errMask, hw, troubled>>

\* flush(): an answer that is still owed is received and thrown away.
FlushReceive(d) ==
  /\ call[d].pc = "flush"
  /\ pending[d] > 0
  /\ replyQ[d] # <<>>
  /\ replyQ' = [replyQ EXCEPT ![d] = Tail(@)]
  /\ pending' = [pending EXCEPT ![d] = @ - 1]
  /\ UNCHANGED <<requestQ, call, thread, det, errMask, hw, troubled>>

\* Fault: the request is sent without a flush.
SendRequestUnflushed(d) ==
  /\ call[d].pc = "flush"
  /\ Len(requestQ[d]) < Capacity
  /\ requestQ' = [requestQ EXCEPT
                    ![d] = Append(@, [tag |-> call[d].tag, msg |-> call[d].req])]
  /\ pending' = [pending EXCEPT ![d] = @ + 1]
  /\ call' = [call EXCEPT ![d].pc = "wait"]
  /\ UNCHANGED <<replyQ, thread, det, errMask, hw, troubled>>

\* Fault: the answer to the request is not counted as owed.
SendRequestUncounted(d) ==
  /\ call[d].pc = "flush"
  /\ pending[d] = 0
  /\ Len(requestQ[d]) < Capacity
  /\ requestQ' = [requestQ EXCEPT
                    ![d] = Append(@, [tag |-> call[d].tag, msg |-> call[d].req])]
  /\ call' = [call EXCEPT ![d].pc = "wait"]
  /\ UNCHANGED <<replyQ, pending, thread, det, errMask, hw, troubled>>

\* Nothing is owed any more: the request is sent and its answer is owed.
SendRequest(d) ==
  /\ call[d].pc = "flush"
  /\ pending[d] = 0
  /\ Len(requestQ[d]) < Capacity
  /\ requestQ' = [requestQ EXCEPT
                    ![d] = Append(@, [tag |-> call[d].tag, msg |-> call[d].req])]
  /\ pending' = [pending EXCEPT ![d] = @ + 1]
  /\ call' = [call EXCEPT ![d].pc = "wait"]
  /\ UNCHANGED <<replyQ, thread, det, errMask, hw, troubled>>

\* Fault: the answer that was received still counts as owed.
ReceiveReplyUncounted(d) ==
  /\ call[d].pc = "wait"
  /\ replyQ[d] # <<>>
  /\ call' = [call EXCEPT ![d].pc = "done", ![d].ret = Head(replyQ[d])]
  /\ replyQ' = [replyQ EXCEPT ![d] = Tail(@)]
  /\ UNCHANGED <<requestQ, pending, thread, det, errMask, hw, troubled>>

ReceiveReply(d) ==
  /\ call[d].pc = "wait"
  /\ replyQ[d] # <<>>
  /\ call' = [call EXCEPT ![d].pc = "done", ![d].ret = Head(replyQ[d])]
  /\ replyQ' = [replyQ EXCEPT ![d] = Tail(@)]
  /\ pending' = [pending EXCEPT ![d] = @ - 1]
  /\ UNCHANGED <<requestQ, thread, det, errMask, hw, troubled>>

\* Fault: a caller that gives up no longer expects the answer.
GiveUpForgetful(d) ==
  /\ replyQ[d] = <<>>
  /\ troubled[d]
  /\ call' = [call EXCEPT ![d].pc = "done",
                          ![d].ret = [tag |-> call[d].tag, msg |-> Plain("Timeout")]]
  /\ pending' = [pending EXCEPT ![d] = 0]
  /\ UNCHANGED <<requestQ, replyQ, thread, det, errMask, hw, troubled>>

GiveUp(d) ==
  /\ replyQ[d] = <<>>
  /\ troubled[d]
  /\ call' = [call EXCEPT ![d].pc = "done",
                          ![d].ret = [tag |-> call[d].tag, msg |-> Plain("Timeout")]]
  /\ UNCHANGED <<requestQ, replyQ, pending, thread, det, errMask, hw, troubled>>

\* Fault: flush() goes on after a timeout until nothing is owed.
FlushTimeoutIgnored(d) ==
  /\ call[d].pc = "flush"
  /\ pending[d] > 0
  /\ replyQ[d] = <<>>
  /\ UNCHANGED driverVars

\* Fault: flush() forgets what is owed when it times out.
FlushTimeoutForgetful(d) ==
  /\ call[d].pc = "flush"
  /\ pending[d] > 0
  /\ GiveUpForgetful(d)

FlushTimeout(d) ==
  /\ call[d].pc = "flush"
  /\ pending[d] > 0
  /\ GiveUp(d)

ReplyTimeout(d) ==
  /\ call[d].pc = "wait"
  /\ GiveUp(d)

\* request() returns call[d].ret.msg to the port.
RequestReturn(d) ==
  /\ call[d].pc = "done"
  /\ call' = [call EXCEPT ![d] = Idle(@.tag)]
  /\ UNCHANGED <<requestQ, replyQ, pending, thread, det, errMask, hw, troubled>>

-----------------------------------------------------------------------------
(* run(), initialize() and process(), run by the worker *)

WorkerReceive(d) ==
  /\ thread[d].pc = "receive"
  /\ requestQ[d] # <<>>
  /\ thread' = [thread EXCEPT
                  ![d].pc = IF det[d] = "NULL" THEN "initialize" ELSE "process",
                  ![d].env = Head(requestQ[d])]
  /\ requestQ' = [requestQ EXCEPT ![d] = Tail(@)]
  /\ UNCHANGED <<replyQ, pending, call, det, errMask, hw, troubled>>

\* What _det is after initialize(): an exception in setHostname() leaves the
\* object without its sub-detector behind, a wrong count deletes it.
DetAfter(outcome) ==
  CASE outcome = "ok" -> "ready"
    [] outcome = "throwHostname" -> "partial"
    [] outcome \in {"throwNew", "wrongCount"} -> "NULL"

\* Fault: a request that finds no detector object is not answered.
WorkerInitializeSilent(d) ==
  /\ thread[d].pc = "initialize"
  /\ \E outcome \in IF troubled[d] THEN InitOutcomes ELSE {"ok"} :
       /\ det' = [det EXCEPT ![d] = DetAfter(outcome)]
       /\ thread' = IF DetAfter(outcome) = "NULL"
                    THEN [thread EXCEPT ![d] = Receiving(@.env.tag)]
                    ELSE [thread EXCEPT ![d].pc = "process"]
  /\ UNCHANGED <<requestQ, replyQ, pending, call, errMask, hw, troubled>>

\* Setting the hostname may leave error bits in the mask of the new object.
WorkerInitialize(d) ==
  /\ thread[d].pc = "initialize"
  /\ \E outcome \in IF troubled[d] THEN InitOutcomes ELSE {"ok"} :
       /\ det' = [det EXCEPT ![d] = DetAfter(outcome)]
       /\ \E errs \in IF troubled[d] /\ outcome = "ok" THEN SUBSET ErrorBits ELSE {{}} :
            errMask' = [errMask EXCEPT ![d] = errs]
       /\ thread' =
            IF DetAfter(outcome) = "NULL"
            THEN [thread EXCEPT ![d].pc = "reply", ![d].rep = Plain("Error")]
            ELSE [thread EXCEPT ![d].pc = "process"]
  /\ UNCHANGED <<requestQ, replyQ, pending, call, hw, troubled>>

Processing(d) == thread[d].pc = "process"

Answered(d, rep) ==
  /\ thread' = [thread EXCEPT ![d].pc = "reply", ![d].rep = rep]
  /\ UNCHANGED <<requestQ, replyQ, pending, call, det, troubled>>

\* Fault: clearAllErrorMask() is forgotten.
ProcessOnlineCheckUncleared(d) ==
  /\ Processing(d)
  /\ IsOnlineCheck(thread[d].env.msg)
  /\ \E online \in IF det[d] = "ready" /\ troubled[d] THEN BOOLEAN ELSE {TRUE} :
       Answered(d, OnlineReply(online))
  /\ UNCHANGED <<errMask, hw>>

\* checkOnline() of an object without sub-detectors finds none offline.
ProcessOnlineCheck(d) ==
  /\ Processing(d)
  /\ IsOnlineCheck(thread[d].env.msg)
  /\ \E online \in IF det[d] = "ready" /\ troubled[d] THEN BOOLEAN ELSE {TRUE} :
       /\ \E errs \in SUBSET ErrorBits :
            errMask' = [errMask EXCEPT ![d] = IF online THEN {} ELSE @ \cup errs]
       /\ Answered(d, OnlineReply(online))
  /\ UNCHANGED hw

\* The error bits a library call may add to the mask: a sound module may only
\* refuse a value, which sets its own bit.
Complaints(d, arg) ==
  IF det[d] = "partial" THEN {{}}
  ELSE IF troubled[d] THEN SUBSET ErrorBits
  ELSE IF arg >= 0 THEN {{}, {POS}} ELSE {{}}

ProcessSensorRead(d) ==
  /\ Processing(d)
  /\ IsSensorRead(thread[d].env.msg)
  /\ \E errs \in Complaints(d, -1), ret \in Readings :
       LET mask == errMask[d] \cup errs
       IN  /\ errMask' = [errMask EXCEPT ![d] = mask]
           /\ Answered(d, SensorReply(thread[d].env.msg, ret, mask))
  /\ UNCHANGED hw

\* What a library call that reads or writes setting s may leave in the register.
\* A write may be lost or refused.
Landed(d, s, arg) ==
  IF arg < 0 \/ det[d] = "partial" THEN {hw[d][s]} ELSE {hw[d][s], arg}

\* A call without error returns what the register holds; without sub-detectors
\* it returns -1.
Returned(d, reg) == IF det[d] = "partial" THEN -1 ELSE reg

ProcessSetting(d) ==
  /\ Processing(d)
  /\ IsSettingCall(thread[d].env.msg)
  /\ LET req == thread[d].env.msg
         s == SettingOf[req.mtype]
     IN  \E reg \in Landed(d, s, Argument(req)), errs \in Complaints(d, Argument(req)) :
           LET mask == errMask[d] \cup errs
           IN  /\ hw' = [hw EXCEPT ![d][s] = reg]
               /\ errMask' = [errMask EXCEPT ![d] = SettingMask(s, mask)]
               /\ Answered(d, SettingReply(req, Returned(d, reg), mask))

ProcessUnsupported(d) ==
  /\ Processing(d)
  /\ IsUnsupported(thread[d].env.msg)
  /\ Answered(d, Plain("Invalid"))
  /\ UNCHANGED <<errMask, hw>>

\* reply() has no timeout: it blocks while the queue is full.
WorkerReply(d) ==
  /\ thread[d].pc = "reply"
  /\ Len(replyQ[d]) < Capacity
  /\ replyQ' = [replyQ EXCEPT
                  ![d] = Append(@, [tag |-> thread[d].env.tag, msg |-> thread[d].rep])]
  /\ thread' = [thread EXCEPT ![d] = Receiving(@.env.tag)]
  /\ UNCHANGED <<requestQ, pending, call, det, errMask, hw, troubled>>

\* The module gets into trouble or recovers.
Trouble(d) ==
  /\ troubled' = [troubled EXCEPT ![d] = ~@]
  /\ UNCHANGED <<requestQ, replyQ, pending, call, thread, det, errMask, hw>>

-----------------------------------------------------------------------------

RequestTimeout(d) == FlushTimeout(d) \/ ReplyTimeout(d)

\* The steps of the caller that wait for nobody.
CallerStep(d) == FlushReceive(d) \/ SendRequest(d) \/ ReceiveReply(d)

WorkerStep(d) ==
  \/ WorkerReceive(d)
  \/ WorkerInitialize(d)
  \/ ProcessOnlineCheck(d)
  \/ ProcessSensorRead(d)
  \/ ProcessSetting(d)
  \/ ProcessUnsupported(d)
  \/ WorkerReply(d)

\* The steps inside one driver; the port decides when a request begins and
\* takes its answer.
DriverStep(d) == CallerStep(d) \/ RequestTimeout(d) \/ WorkerStep(d) \/ Trouble(d)

DriverNext ==
  \E d \in Drivers :
    \/ \E m \in Requests : RequestBegin(d, m)
    \/ DriverStep(d)
    \/ RequestReturn(d)

\* The caller runs; its timer fires in the end while the module stays or keeps
\* getting into trouble; the worker is only counted on while the library is
\* not held up by a troubled module.
DriverFairness ==
  \A d \in Drivers :
    /\ WF_driverVars(CallerStep(d))
    /\ SF_driverVars(RequestTimeout(d))
    /\ WF_driverVars(~troubled[d] /\ WorkerStep(d))

DriverSpec == DriverInit /\ [][DriverNext]_driverVars /\ DriverFairness

-----------------------------------------------------------------------------
(* Properties *)

InFlight(d) ==
  Len(requestQ[d]) + Len(replyQ[d]) + (IF thread[d].pc = "receive" THEN 0 ELSE 1)

\* _pending, which only the caller touches, counts exactly the requests and
\* answers that are somewhere between caller and worker, and there is never
\* more than one, however many requests timed out: neither queue can fill up,
\* so request() never waits to send and reply(), which has no timeout, never
\* blocks the worker (slsDetDriver.cpp:541-600).
PendingCountsInFlight ==
  \A d \in Drivers : pending[d] = InFlight(d) /\ pending[d] <= 1

\* What request() returns is a timeout or the answer to this very request,
\* never one left over from a request that had timed out (flush, 574-589).
ReplyMatchesCall ==
  \A d \in Drivers : call[d].pc = "done" => call[d].ret.tag = call[d].tag

\* An Ok is true when the caller gets it: a value read is what the register
\* holds, and a chip power, high voltage, clock divider or gain mode that was
\* acknowledged is in the register (the ret == value checks, 249-413).
AnswerIsTrue ==
  \A d \in Drivers :
    LET req == call[d].req
        rep == call[d].ret.msg
    IN  (call[d].pc = "done" /\ det[d] = "ready" /\ rep.mtype = "Ok" /\ IsSettingCall(req))
        => LET s == SettingOf[req.mtype]
           IN  IF Argument(req) < 0 THEN rep = DataReply(SettingType(s), hw[d][s])
               ELSE s \in Verifying => hw[d][s] = Argument(req)

\* Once a request has been sent, the registers change on its behalf only: a
\* write that timed out may still land, but never after a later request was
\* sent or answered (541-589).
LateWriteFenced ==
  [][\A d \in Drivers :
       hw'[d] # hw[d] /\ call[d].pc = "wait" => thread[d].env.tag = call[d].tag]_driverVars

\* request() returns even when the worker never comes back from the library
\* (the timeouts passed down at 544-548).
CallReturns ==
  \A d \in Drivers : call[d].pc \in {"flush", "wait"} ~> call[d].pc = "done"

\* The comment at slsDetDriver.cpp:807 on the test of _det: a message is only
\* processed if the connection was successful.
ProcessOnlyIfConnected ==
  \A d \in Drivers : thread[d].pc = "process" => det[d] = "ready"
-----------------------------------------------------------------------------
(* The promise of request() that the queues, the counter and the worker      *)
(* implement                                                                 *)

CallerOf(c) ==
  [pc |-> CASE c.pc = "idle" -> "idle"
            [] c.pc \in {"flush", "wait"} -> "open"
            [] c.pc = "done" -> "returned",
   req |-> c.req, ret |-> c.ret.msg]

\* The one request or answer in flight; it is the caller's while the caller waits.
JobOf(d) ==
  LET Job(pc, req, rep) ==
        [pc |-> pc, req |-> req, rep |-> rep,
         owner |-> IF call[d].pc = "wait" THEN "call" ELSE "nobody"]
  IN  CASE requestQ[d] # <<>> -> Job("queued", Head(requestQ[d]).msg, NoMessage)
        [] thread[d].pc \in {"initialize", "process"} ->
             Job("queued", thread[d].env.msg, NoMessage)
        [] thread[d].pc = "reply" -> Job("served", NoMessage, thread[d].rep)
        [] replyQ[d] # <<>> -> Job("served", NoMessage, Head(replyQ[d]).msg)
        [] OTHER -> Job("none", NoMessage, NoMessage)

RPC == INSTANCE RequestReply
         WITH caller <- [d \in Drivers |-> CallerOf(call[d])],
              job <- [d \in Drivers |-> JobOf(d)],
              reg <- hw

\* A driver keeps the promise of RequestReply: every request is handed over at
\* most once and served at most once, an answer goes to the call that asked or
\* is dropped, and a register changes only while the job it belongs to is
\* served (slsDetDriver.cpp:541-826).
ImplementsRequestReply == RPC!Spec
=============================================================================
