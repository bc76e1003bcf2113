-------------------------- MODULE SlsDetLifecycle --------------------------
(***************************************************************************)
(* The end of a detector driver: the exit handler of the IOC, and the      *)
(* destructors, against a port thread that may be inside request() and a   *)
(* worker that may be inside the slsDetectorPackage (slsDetDriver.cpp,     *)
(* drvAsynSlsDetPort.cpp).  Who owns the detector object, its shared       *)
(* memory, the string cache and the queues is the question here, so a      *)
(* message is only what matters to that: whether its answer is a string.   *)
(*                                                                         *)
(* shutdown() takes no lock: every step of it is an action.  A mishap (an  *)
(* object deleted in use or twice, a queue used after its destruction) is  *)
(* undefined behaviour: it is recorded and the model goes no further.      *)
(* The worker reads _running anew in every round (library calls separate   *)
(* the reads).  The port is deleted only while none of its handlers runs.  *)
(***************************************************************************)
EXTENDS Integers, Sequences

CONSTANTS
  Capacity,  \* of each queue (MAX_MQ_CAPACITY)
  Serials,   \* tell apart a request from the one before it
  Cells      \* memory that strings are copied to

ASSUME LifecycleCapacity == Capacity \in Nat \ {0}
ASSUME LifecycleSerials == \E s, t \in Serials : s # t
ASSUME LifecycleCells == Cells # {}

VARIABLES
  requestQ,    \* _request
  replyQ,      \* _reply
  pending,     \* _pending
  call,        \* the port thread inside request()
  worker,      \* the worker inside run()
  running,     \* _running
  ptr,         \* whether _det points anywhere
  object,      \* the multiSlsDetector that _det points to, or pointed to
  shm,         \* the shared memory of _id exists
  cache,       \* _cacheStr: a cell, or none
  text,        \* whose answer each cell holds, if it is allocated
  down,        \* where each thread is inside SlsDetDriver::shutdown()
  exit,        \* the thread that runs the exit handlers
  owner,       \* the thread that deletes the port
  troubled,    \* the module is in trouble: calls may last
  mishap,      \* the first undefined behaviour
  overlapped   \* a request was in flight while the end was under way

queueVars == <<requestQ, replyQ, pending, call>>
objectVars == <<ptr, object, shm>>
stringVars == <<cache, text>>
endVars == <<down, exit, owner, running, overlapped>>
vars == <<queueVars, worker, objectVars, stringVars, endVars, troubled, mishap>>

NoCell == "no cell"
Freed == "freed"

Bare(kind, tag) == [kind |-> kind, tag |-> tag, cell |-> NoCell]

Enders == {"exit", "owner", "worker"}

\* The members of the driver are destroyed, and the port with it.
QueuesGone == owner \in {"destroyed", "done"}

\* The process runs, and nothing it has done is undefined.
Alive == mishap = "none" /\ exit # "ended"

\* The port and its driver have been constructed; the worker waits for its first
\* request, and nothing has been read from the module.
Init ==
  /\ requestQ = <<>> /\ replyQ = <<>> /\ pending = 0
  /\ \E s \in Serials :
       /\ call = [pc |-> "idle", kind |-> "plain", tag |-> s, ret |-> Bare("plain", s)]
       /\ worker = [pc |-> "loop", req |-> [kind |-> "plain", tag |-> s], rep |-> Bare("plain", s)]
  /\ running = TRUE
  /\ ptr = "NULL" /\ object = "none" /\ shm = FALSE
  /\ cache = NoCell /\ text = [c \in Cells |-> Freed]
  /\ down = [t \in Enders |-> "out"]
  /\ exit = "idle" /\ owner = "none"
  /\ troubled \in BOOLEAN
  /\ mishap = "none" /\ overlapped = FALSE

-----------------------------------------------------------------------------
(* request() and flush(), run by the port thread *)

RequestBegin ==
  /\ call.pc = "idle" /\ owner = "none"
  /\ \E kind \in {"string", "plain"}, tag \in Serials \ {call.tag} :
       call' = [call EXCEPT !.pc = "flush", !.kind = kind, !.tag = tag]
  /\ UNCHANGED <<requestQ, replyQ, pending, worker, objectVars, stringVars, endVars, troubled, mishap>>

FlushReceive ==
  /\ call.pc = "flush" /\ pending > 0 /\ replyQ # <<>>
  /\ replyQ' = Tail(replyQ)
  /\ pending' = pending - 1
  /\ UNCHANGED <<requestQ, call, worker, objectVars, stringVars, endVars, troubled, mishap>>

\* A request that is sent while the exit handlers run overlaps with the end.
Send ==
  /\ Len(requestQ) < Capacity
  /\ requestQ' = Append(requestQ, [kind |-> call.kind, tag |-> call.tag])
  /\ pending' = pending + 1
  /\ call' = [call EXCEPT !.pc = "wait"]
  /\ overlapped' = (overlapped \/ exit # "idle")
  /\ UNCHANGED <<replyQ, worker, objectVars, stringVars, down, exit, owner, running, troubled, mishap>>

\* Fault: the request is sent without a flush.
SendRequestUnflushed == call.pc = "flush" /\ Send

SendRequest == call.pc = "flush" /\ pending = 0 /\ Send

ReceiveReply ==
  /\ call.pc = "wait" /\ replyQ # <<>>
  /\ call' = [call EXCEPT !.pc = "done", !.ret = Head(replyQ)]
  /\ replyQ' = Tail(replyQ)
  /\ pending' = pending - 1
  /\ UNCHANGED <<requestQ, worker, objectVars, stringVars, endVars, troubled, mishap>>

\* The receive in flush(), or the one for the answer, times out.
RequestTimeout ==
  /\ troubled /\ replyQ = <<>>
  /\ call.pc = "wait" \/ (call.pc = "flush" /\ pending > 0)
  /\ call' = [call EXCEPT !.pc = "done", !.ret = Bare("plain", call.tag)]
  /\ UNCHANGED <<requestQ, replyQ, pending, worker, objectVars, stringVars, endVars, troubled, mishap>>

\* The port copies the string out of the answer, if there is one.
RequestReturn ==
  /\ call.pc = "done"
  /\ call' = [call EXCEPT !.pc = "idle"]
  /\ UNCHANGED <<requestQ, replyQ, pending, worker, objectVars, stringVars, endVars, troubled, mishap>>

CallerStep ==
  RequestBegin \/ FlushReceive \/ SendRequest \/ ReceiveReply \/ RequestTimeout \/ RequestReturn

-----------------------------------------------------------------------------
(* run(), initialize(), process() and cacheStr(), run by the worker *)

At(pc) == worker.pc = pc
Goto(pc) == worker' = [worker EXCEPT !.pc = pc]
AnswerWith(rep) == worker' = [worker EXCEPT !.pc = "reply", !.rep = rep]
Hurt(kind) == mishap' = kind

WorkerLoop ==
  /\ At("loop")
  /\ Goto(IF running THEN "receive" ELSE "ended")
  /\ UNCHANGED <<queueVars, objectVars, stringVars, endVars, troubled, mishap>>

WorkerReceive ==
  /\ At("receive") /\ ~QueuesGone /\ requestQ # <<>>
  /\ worker' = [worker EXCEPT !.pc = "test", !.req = Head(requestQ)]
  /\ requestQ' = Tail(requestQ)
  /\ UNCHANGED <<replyQ, pending, call, objectVars, stringVars, endVars, troubled, mishap>>

\* The first test of _det: initialize() is called when it is NULL.
WorkerTest ==
  /\ At("test")
  /\ Goto(IF ptr = "NULL" THEN "construct" ELSE "retest")
  /\ UNCHANGED <<queueVars, objectVars, stringVars, endVars, troubled, mishap>>

\* The constructor of multiSlsDetector attaches the shared memory, or throws.
WorkerConstruct ==
  /\ At("construct")
  /\ \/ /\ ptr' = "set" /\ object' = "live" /\ shm' = TRUE
        /\ Goto("hostname")
     \/ /\ troubled
        /\ Goto("retest")
        /\ UNCHANGED objectVars
  /\ UNCHANGED <<queueVars, stringVars, endVars, troubled, mishap>>

\* setHostname() and the count of sub-detectors: an exception leaves the object
\* behind, a wrong count shuts it down.
WorkerHostname ==
  /\ At("hostname")
  /\ \/ Goto("retest") /\ UNCHANGED down
     \/ /\ troubled
        /\ Goto("shutdown")
        /\ down' = [down EXCEPT !["worker"] = "test"]
  /\ UNCHANGED <<queueVars, objectVars, stringVars, exit, owner, running, overlapped, troubled, mishap>>

WorkerShutdownReturns ==
  /\ At("shutdown") /\ down["worker"] = "out"
  /\ Goto("retest")
  /\ UNCHANGED <<queueVars, objectVars, stringVars, endVars, troubled, mishap>>

\* The second test of _det, and the entry into process().  Exit is a message
\* type that process() does not know.
WorkerRetest ==
  /\ At("retest")
  /\ IF ptr = "NULL" \/ worker.req.kind = "Exit"
     THEN AnswerWith(Bare("plain", worker.req.tag)) /\ UNCHANGED mishap
     ELSE IF object = "deleted" THEN UNCHANGED worker /\ Hurt("useAfterDelete")
     ELSE Goto("library") /\ UNCHANGED mishap
  /\ UNCHANGED <<queueVars, objectVars, stringVars, endVars, troubled>>

\* The library call returns.  The answer to a string read points to the cell
\* that cacheStr() has filled, after freeing the cell of the read before.
WorkerProcess ==
  /\ At("library")
  /\ \/ /\ worker.req.kind = "string"
        /\ LET freed == [c \in Cells |-> IF c = cache THEN Freed ELSE text[c]]
           IN  \E c \in {e \in Cells : freed[e] = Freed} :
                 /\ text' = [freed EXCEPT ![c] = worker.req.tag]
                 /\ cache' = c
                 /\ AnswerWith([kind |-> "string", tag |-> worker.req.tag, cell |-> c])
     \/ /\ worker.req.kind = "plain" \/ troubled
        /\ AnswerWith(Bare("plain", worker.req.tag))
        /\ UNCHANGED stringVars
  /\ UNCHANGED <<queueVars, objectVars, endVars, troubled, mishap>>

\* reply() has no timeout.
WorkerReply ==
  /\ At("reply") /\ ~QueuesGone /\ Len(replyQ) < Capacity
  /\ replyQ' = Append(replyQ, worker.rep)
  /\ Goto("loop")
  /\ UNCHANGED <<requestQ, pending, call, objectVars, stringVars, endVars, troubled, mishap>>

\* The worker uses, or sleeps in, a queue that has been destroyed.
WorkerOnDestroyedQueue ==
  /\ worker.pc \in {"receive", "reply"} /\ QueuesGone
  /\ Hurt("queueDestroyed")
  /\ UNCHANGED <<queueVars, worker, objectVars, stringVars, endVars, troubled>>

WorkerStep ==
  \/ WorkerLoop \/ WorkerReceive \/ WorkerTest \/ WorkerConstruct \/ WorkerHostname
  \/ WorkerShutdownReturns \/ WorkerRetest \/ WorkerProcess \/ WorkerReply
  \/ WorkerOnDestroyedQueue

-----------------------------------------------------------------------------
(* shutdown(), run by any of the three threads *)

DownGoto(t, pc) == down' = [down EXCEPT ![t] = pc]

ShutdownTest(t) ==
  /\ down[t] = "test"
  /\ DownGoto(t, IF ptr = "NULL" THEN "out" ELSE "delete")
  /\ UNCHANGED <<queueVars, worker, objectVars, stringVars, exit, owner, running, overlapped, troubled, mishap>>

InLibrary == worker.pc \in {"hostname", "library"}

ShutdownDelete(t) ==
  /\ down[t] = "delete"
  /\ DownGoto(t, "null")
  /\ CASE ptr = "NULL" -> UNCHANGED <<object, mishap>>
       [] ptr = "set" /\ object = "live" ->
            /\ object' = "deleted"
            /\ IF InLibrary THEN Hurt("useAfterDelete") ELSE UNCHANGED mishap
       [] ptr = "set" /\ object # "live" -> Hurt("doubleDelete") /\ UNCHANGED object
  /\ UNCHANGED <<queueVars, worker, ptr, shm, stringVars, exit, owner, running, overlapped, troubled>>

\* Fault: the pointer keeps pointing to the deleted object.
ShutdownNullForgotten(t) ==
  /\ down[t] = "null"
  /\ DownGoto(t, "free")
  /\ UNCHANGED <<queueVars, worker, objectVars, stringVars, exit, owner, running, overlapped, troubled, mishap>>

\* If the worker has made a new object meanwhile, nothing points to it any more.
ShutdownNull(t) ==
  /\ down[t] = "null"
  /\ DownGoto(t, "free")
  /\ ptr' = "NULL"
  /\ object' = "none"
  /\ IF object = "live" THEN Hurt("lostObject") ELSE UNCHANGED mishap
  /\ UNCHANGED <<queueVars, worker, shm, stringVars, exit, owner, running, overlapped, troubled>>

\* freeSharedMemory()
ShutdownFree(t) ==
  /\ down[t] = "free"
  /\ DownGoto(t, "out")
  /\ shm' = FALSE
  /\ UNCHANGED <<queueVars, worker, ptr, object, stringVars, exit, owner, running, overlapped, troubled, mishap>>

ShutdownStep ==
  \E t \in Enders : ShutdownTest(t) \/ ShutdownDelete(t) \/ ShutdownNull(t) \/ ShutdownFree(t)

-----------------------------------------------------------------------------
(* The exit handler *)

\* No thread of the port is stopped first.
ExitBegin ==
  /\ exit = "idle" /\ owner = "none"
  /\ exit' = "shutdown"
  /\ DownGoto("exit", "test")
  /\ overlapped' = (pending > 0)
  /\ UNCHANGED <<queueVars, worker, objectVars, stringVars, owner, running, troubled, mishap>>

\* This driver is shut down; the others and the other exit handlers follow.
ExitShutdownReturns ==
  /\ exit = "shutdown" /\ down["exit"] = "out"
  /\ exit' = "handlers"
  /\ UNCHANGED <<queueVars, worker, objectVars, stringVars, down, owner, running, overlapped, troubled, mishap>>

\* The process ends, and all its threads with it.  Shared memory stays.
ProcessEnds ==
  /\ exit = "handlers"
  /\ exit' = "ended"
  /\ UNCHANGED <<queueVars, worker, objectVars, stringVars, down, owner, running, overlapped, troubled, mishap>>

ExitStep == ExitBegin \/ ExitShutdownReturns \/ ProcessEnds

-----------------------------------------------------------------------------
(* The destructors of the port and of the driver *)

OwnerGoto(from, to) == owner = from /\ owner' = to

\* ~SlsDet() shuts the driver down before it deletes it.
OwnerBegin ==
  /\ call.pc = "idle" /\ exit = "idle"
  /\ OwnerGoto("none", "port")
  /\ DownGoto("owner", "test")
  /\ overlapped' = (pending > 0)
  /\ UNCHANGED <<queueVars, worker, objectVars, stringVars, exit, running, troubled, mishap>>

\* ~SlsDetDriver() clears _running before it sends Exit.
OwnerStopsRunning ==
  /\ down["owner"] = "out"
  /\ OwnerGoto("port", "running")
  /\ running' = FALSE
  /\ UNCHANGED <<queueVars, worker, objectVars, stringVars, down, exit, overlapped, troubled, mishap>>

\* stop(): a caller that still waited would be released ...
OwnerStopReply ==
  /\ OwnerGoto("running", "stopReply")
  /\ Len(replyQ) < Capacity
  /\ replyQ' = Append(replyQ, Bare("Exit", call.tag))
  /\ UNCHANGED <<requestQ, pending, call, worker, objectVars, stringVars, down, exit, running, overlapped, troubled, mishap>>

\* Fault: the worker is not told.
OwnerStopRequestUnsent ==
  /\ OwnerGoto("stopReply", IF pending > 0 THEN "timedWait" ELSE "wait")
  /\ UNCHANGED <<queueVars, worker, objectVars, stringVars, down, exit, running, overlapped, troubled, mishap>>

\* ... and the worker is told.  If an answer is owed the wait has a timeout.
OwnerStopRequest ==
  /\ OwnerGoto("stopReply", IF pending > 0 THEN "timedWait" ELSE "wait")
  /\ Len(requestQ) < Capacity
  /\ requestQ' = Append(requestQ, [kind |-> "Exit", tag |-> call.tag])
  /\ UNCHANGED <<replyQ, pending, call, worker, objectVars, stringVars, down, exit, running, overlapped, troubled, mishap>>

\* Fault: the destructor relies on the shutdown of the port.
OwnerWaitedOnce ==
  /\ owner \in {"timedWait", "wait"}
  /\ At("ended") \/ (owner = "timedWait" /\ troubled)
  /\ owner' = "driver"
  /\ UNCHANGED <<queueVars, worker, objectVars, stringVars, down, exit, running, overlapped, troubled, mishap>>

\* exitWait(), with THREAD_TMO or without, then the driver's own shutdown.
OwnerWaited ==
  /\ owner \in {"timedWait", "wait"}
  /\ At("ended") \/ (owner = "timedWait" /\ troubled)
  /\ owner' = "driver"
  /\ DownGoto("owner", "test")
  /\ UNCHANGED <<queueVars, worker, objectVars, stringVars, exit, running, overlapped, troubled, mishap>>

\* The members are destroyed in reverse order: the queues before the thread.
OwnerDestroysQueues ==
  /\ down["owner"] = "out"
  /\ OwnerGoto("driver", "destroyed")
  /\ UNCHANGED <<queueVars, worker, objectVars, stringVars, down, exit, running, overlapped, troubled, mishap>>

\* ~epicsThread() waits for the thread function to return.
OwnerJoins ==
  /\ At("ended")
  /\ OwnerGoto("destroyed", "done")
  /\ UNCHANGED <<queueVars, worker, objectVars, stringVars, down, exit, running, overlapped, troubled, mishap>>

OwnerStep ==
  \/ OwnerBegin \/ OwnerStopsRunning \/ OwnerStopReply \/ OwnerStopRequest
  \/ OwnerWaited \/ OwnerDestroysQueues \/ OwnerJoins

Trouble ==
  /\ troubled' = ~troubled
  /\ UNCHANGED <<queueVars, worker, objectVars, stringVars, endVars, mishap>>

-----------------------------------------------------------------------------

Next ==
  Alive /\ (CallerStep \/ WorkerStep \/ ShutdownStep \/ ExitStep \/ OwnerStep \/ Trouble)

\* The threads run; the worker is only counted on while the module is out of
\* trouble, because the library may keep it as long as it likes.
Fairness ==
  /\ WF_vars(Alive /\ ~troubled /\ WorkerStep)
  /\ WF_vars(Alive /\ ShutdownStep)
  /\ WF_vars(Alive /\ owner # "none" /\ OwnerStep)

Spec == Init /\ [][Next]_vars /\ Fairness

-----------------------------------------------------------------------------
(* Properties *)

\* If no request is in flight from the start to the end of a shutdown, be it by
\* the exit handler or by the destructors, then nothing is used after its end,
\* although the Exit message itself makes the worker initialize a new detector
\* object (slsDetDriver.cpp:38-53, 781-836; drvAsynSlsDetPort.cpp:221-235).
QuietEndIsSafe == mishap # "none" => overlapped

\* A quiet end leaves nothing behind: no detector object, no shared memory, and
\* after the destructors no worker (slsDetDriver.cpp:43-49, 828-836).
QuietEndIsClean ==
  ~overlapped /\ (exit \in {"handlers", "ended"} \/ owner = "done")
    => ~shm /\ object = "none" /\ (owner = "done" => worker.pc = "ended")

\* The string that an answer points to is the one this very request asked for,
\* until the caller has copied it: the worker frees a string only for the next
\* string read, which is not sent while this answer is owed
\* (slsDetDriver.cpp:574-589, 634-642; drvAsynSlsDetPort.cpp:383-456).
StringIsAlive ==
  call.pc = "done" /\ call.ret.kind = "string" => text[call.ret.cell] = call.tag

\* The destructors come to their end once the module stays out of trouble, even
\* though the worker has to make a library call on the way when it finds no
\* detector object (slsDetDriver.cpp:38-53, exitWait without a timeout).
DestructorReturns ==
  <>[]~troubled => (owner # "none" ~> owner = "done" \/ mishap # "none")

\* The promise at drvAsynSlsDetPort.h:40: shutdown() cleans up the resources of
\* the slsDetectorPackage, which outlive the process otherwise.
ShutdownCleansUp == exit = "ended" => ~shm
=============================================================================
