---------------------------- MODULE RequestReply ----------------------------
(***************************************************************************)
(* What SlsDetDriver::request() promises its caller, without queues,       *)
(* counters or a worker: a call hands over at most one job, a job is       *)
(* served at most once, its answer goes to the call that handed it over or *)
(* to nobody, and a new job is only accepted once the last one has been    *)
(* served.  Serving a job is the only way a register changes, and the      *)
(* answer tells the truth about it.                                        *)
(***************************************************************************)
EXTENDS SlsDetHandlers

CONSTANTS Drivers, Requests

VARIABLES
  caller,  \* the call a driver is asked to answer
  job,     \* the job it was last handed
  reg      \* the setting registers of its module

rpcVars == <<caller, job, reg>>

NoCall == [pc |-> "idle", req |-> NoMessage, ret |-> NoMessage]

\* owner: whom the answer is for, the open call or nobody.
NoJob == [pc |-> "none", req |-> NoMessage, rep |-> NoMessage, owner |-> "nobody"]

Init ==
  /\ caller = [d \in Drivers |-> NoCall]
  /\ job = [d \in Drivers |-> NoJob]
  /\ reg = [d \in Drivers |-> [s \in Settings |-> 0]]

Invoke(d, m) ==
  /\ caller[d].pc = "idle"
  /\ caller' = [caller EXCEPT ![d] = [pc |-> "open", req |-> m, ret |-> NoMessage]]
  /\ UNCHANGED <<job, reg>>

\* The answer to a call that was given up is dropped.
Drop(d) ==
  /\ caller[d].pc = "open"
  /\ job[d].pc = "served" /\ job[d].owner = "nobody"
  /\ job' = [job EXCEPT ![d] = NoJob]
  /\ UNCHANGED <<caller, reg>>

HandOver(d) ==
  /\ caller[d].pc = "open"
  /\ job[d].pc = "none"
  /\ job' = [job EXCEPT ![d] = [pc |-> "queued", req |-> caller[d].req,
                                rep |-> NoMessage, owner |-> "call"]]
  /\ UNCHANGED <<caller, reg>>

\* The only effect a request may have on the registers before and after.
Effect(req, before, after) ==
  \/ after = before
  \/ /\ IsSettingCall(req)
     /\ Argument(req) >= 0
     /\ after = [before EXCEPT ![SettingOf[req.mtype]] = Argument(req)]

\* An Ok answer to a write that is verified means the register holds the value;
\* to a read, it is the value of the register, or -1 when the driver has no
\* sub-detector to ask.
Truthful(req, after, rep) ==
  (rep.mtype = "Ok" /\ IsSettingCall(req)) =>
    LET s == SettingOf[req.mtype]
    IN  IF Argument(req) < 0
        THEN rep \in {DataReply(SettingType(s), after[s]), DataReply(SettingType(s), -1)}
        ELSE s \in Verifying => after[s] = Argument(req)

Serve(d) ==
  /\ job[d].pc = "queued"
  /\ job'[d].rep \in Message
  /\ job' = [job EXCEPT ![d] = [pc |-> "served", req |-> NoMessage,
                                rep |-> job'[d].rep, owner |-> @.owner]]
  /\ reg' = [reg EXCEPT ![d] = reg'[d]]
  /\ Effect(job[d].req, reg[d], reg'[d])
  /\ Truthful(job[d].req, reg'[d], job'[d].rep)
  /\ UNCHANGED caller

Answer(d) ==
  /\ caller[d].pc = "open"
  /\ job[d].pc = "served" /\ job[d].owner = "call"
  /\ caller' = [caller EXCEPT ![d] = [pc |-> "returned", req |-> @.req, ret |-> job[d].rep]]
  /\ job' = [job EXCEPT ![d] = NoJob]
  /\ UNCHANGED reg

\* A job that was handed over is nobody's from now on.
Abandon(d) ==
  /\ caller[d].pc = "open"
  /\ caller' = [caller EXCEPT ![d] = [pc |-> "returned", req |-> @.req,
                                      ret |-> Plain("Timeout")]]
  /\ job' = [job EXCEPT ![d] = [pc |-> @.pc, req |-> @.req, rep |-> @.rep,
                                owner |-> "nobody"]]
  /\ UNCHANGED reg

Return(d) ==
  /\ caller[d].pc = "returned"
  /\ caller' = [caller EXCEPT ![d] = NoCall]
  /\ UNCHANGED <<job, reg>>

Next ==
  \E d \in Drivers :
    \/ \E m \in Requests : Invoke(d, m)
    \/ Drop(d)
    \/ HandOver(d)
    \/ Serve(d)
    \/ Answer(d)
    \/ Abandon(d)
    \/ Return(d)

Spec == Init /\ [][Next]_rpcVars
=============================================================================
