----------------------------- MODULE SlsDetRecords -----------------------------
(***************************************************************************)
(* The records of a module (slsDetector.template) on top of the port: the  *)
(* switch ENABLED, the connection status, and the poll that gets a lost    *)
(* module back.  The records of one module form one lock set, so a chain   *)
(* of forward links is one step.                                           *)
(*                                                                         *)
(* asyn's device support is external: a status change goes through a ring  *)
(* buffer that loses its oldest value when it is full, and a request that  *)
(* reaches a disconnected device makes asynManager call connect() first.   *)
(* A setpoint or readback record is disabled while CONN_STATUS is 0.       *)
(***************************************************************************)
EXTENDS SlsDet, Sequences

CONSTANT RingSize   \* the ring buffer of an I/O Intr record

ASSUME RecordsRingSize == RingSize \in Nat \ {0}

VARIABLES
  ENABLED_VAL,    \* the value of the record ENABLED
  enabling,       \* its write is queued
  CONN_STATUS_VAL,
  ring,           \* status changes that CONN_STATUS has not processed
  DO_CONN_POLL,   \* whether CONN_POLL is scanned
  polling         \* a read of CONN_POLL is queued

recordVars == <<ENABLED_VAL, enabling, CONN_STATUS_VAL, ring, DO_CONN_POLL, polling>>
allVars == <<vars, recordVars>>

RecordsInit ==
  /\ Init
  /\ ENABLED_VAL = [a \in Addrs |-> OFF]
  /\ enabling = [a \in Addrs |-> FALSE]
  /\ CONN_STATUS_VAL = [a \in Addrs |-> DISCONNECTED]
  /\ ring = [a \in Addrs |-> <<>>]
  /\ DO_CONN_POLL = [a \in Addrs |-> FALSE]
  /\ polling = [a \in Addrs |-> FALSE]

\* The calc record DO_CONN_POLL: (A=1) && (B#1).
ConnPoll(value, conn) == value = ON /\ conn # CONNECTED

\* A parameter that changes puts its value into the ring buffer.
Notified(a) ==
  IF connStatus'[a] = connStatus[a] THEN ring[a]
  ELSE LET r == Append(ring[a], connStatus'[a])
       IN  IF Len(r) > RingSize THEN Tail(r) ELSE r

Notify == ring' = [a \in Addrs |-> Notified(a)]

-----------------------------------------------------------------------------

\* An operator, or PINI at the start, writes ENABLED.
PutEnabled(a, value) ==
  /\ ~enabling[a]
  /\ ENABLED_VAL' = [ENABLED_VAL EXCEPT ![a] = value]
  /\ enabling' = [enabling EXCEPT ![a] = TRUE]
  /\ UNCHANGED <<vars, CONN_STATUS_VAL, ring, DO_CONN_POLL, polling>>

\* Fault: ENABLED has no forward link.
EnabledServedUnlinked(a) ==
  /\ enabling[a]
  /\ Enable(a, ENABLED_VAL[a])
  /\ Notify
  /\ enabling' = [enabling EXCEPT ![a] = FALSE]
  /\ UNCHANGED <<ENABLED_VAL, CONN_STATUS_VAL, DO_CONN_POLL, polling>>

\* The port serves the write; the record completes and processes its forward
\* link DO_CONN_POLL.
EnabledServed(a) ==
  /\ enabling[a]
  /\ Enable(a, ENABLED_VAL[a])
  /\ Notify
  /\ enabling' = [enabling EXCEPT ![a] = FALSE]
  /\ DO_CONN_POLL' =
       [DO_CONN_POLL EXCEPT ![a] = ConnPoll(ENABLED_VAL[a], CONN_STATUS_VAL[a])]
  /\ UNCHANGED <<ENABLED_VAL, CONN_STATUS_VAL, polling>>

\* Fault: CONN_UPDATE does not process DO_CONN_POLL.
StatusProcessedUnlinked(a) ==
  /\ ring[a] # <<>>
  /\ CONN_STATUS_VAL' = [CONN_STATUS_VAL EXCEPT ![a] = Head(ring[a])]
  /\ ring' = [ring EXCEPT ![a] = Tail(@)]
  /\ UNCHANGED <<vars, ENABLED_VAL, enabling, DO_CONN_POLL, polling>>

\* CONN_STATUS takes a status change; its links lead to DO_CONN_POLL.
StatusProcessed(a) ==
  /\ ring[a] # <<>>
  /\ CONN_STATUS_VAL' = [CONN_STATUS_VAL EXCEPT ![a] = Head(ring[a])]
  /\ ring' = [ring EXCEPT ![a] = Tail(@)]
  /\ DO_CONN_POLL' =
       [DO_CONN_POLL EXCEPT ![a] = ConnPoll(ENABLED_VAL[a], Head(ring[a]))]
  /\ UNCHANGED <<vars, ENABLED_VAL, enabling, polling>>

\* The ten second scan of CONN_POLL, unless DO_CONN_POLL disables it.
PollScan(a) ==
  /\ DO_CONN_POLL[a]
  /\ ~polling[a]
  /\ polling' = [polling EXCEPT ![a] = TRUE]
  /\ UNCHANGED <<vars, ENABLED_VAL, enabling, CONN_STATUS_VAL, ring, DO_CONN_POLL>>

\* A queued request of a disconnected device makes asynManager connect it.
ConnectForRequest(a) ==
  /\ polling[a] \/ enabling[a]
  /\ ConnectBegin(a)
  /\ Notify
  /\ polling' = [polling EXCEPT ![a] = FALSE]
  /\ UNCHANGED <<ENABLED_VAL, enabling, CONN_STATUS_VAL, DO_CONN_POLL>>

\* The poll finds the device connected or switched off and ends.
PollServed(a) ==
  /\ polling[a]
  /\ port = Free
  /\ asynConn[a] \/ OFF \in EnabledRead(a)
  /\ polling' = [polling EXCEPT ![a] = FALSE]
  /\ UNCHANGED <<vars, ENABLED_VAL, enabling, CONN_STATUS_VAL, ring, DO_CONN_POLL>>

\* The readback records are disabled while CONN_STATUS is 0.
Readback(a, m) ==
  /\ CONN_STATUS_VAL[a] = CONNECTED
  /\ ReadBegin(a, m)
  /\ Notify
  /\ UNCHANGED <<ENABLED_VAL, enabling, CONN_STATUS_VAL, DO_CONN_POLL, polling>>

\* So are the setpoint records.
Setpoint(a, m) ==
  /\ CONN_STATUS_VAL[a] = CONNECTED
  /\ WriteRefused(a, m) \/ WriteBegin(a, m)
  /\ Notify
  /\ UNCHANGED <<ENABLED_VAL, enabling, CONN_STATUS_VAL, DO_CONN_POLL, polling>>

PortReturns(a) ==
  /\ HandlerEnd(a)
  /\ Notify
  /\ UNCHANGED <<ENABLED_VAL, enabling, CONN_STATUS_VAL, DO_CONN_POLL, polling>>

RecordsNext ==
  \E a \in Addrs :
    \/ \E value \in {OFF, ON} : PutEnabled(a, value)
    \/ EnabledServed(a)
    \/ StatusProcessed(a)
    \/ PollScan(a)
    \/ ConnectForRequest(a)
    \/ PollServed(a)
    \/ \E m \in PortReads : Readback(a, m)
    \/ \E m \in PortWrites : Setpoint(a, m)
    \/ PortReturns(a)
    \/ DriverStep(a) /\ UNCHANGED <<portVars, recordVars>>

\* Records are processed and scanned, and the queue of the port lets every
\* request have its turn between the readbacks.
RecordsFairness ==
  \A a \in Addrs :
    /\ SF_allVars(EnabledServed(a))
    /\ WF_allVars(StatusProcessed(a))
    /\ WF_allVars(PollScan(a))
    /\ SF_allVars(ConnectForRequest(a))
    /\ SF_allVars(PollServed(a))
    /\ WF_allVars(PortReturns(a))
    /\ WF_allVars(CallerStep(a) /\ UNCHANGED <<portVars, recordVars>>)
    /\ SF_allVars(RequestTimeout(a) /\ UNCHANGED <<portVars, recordVars>>)
    /\ WF_allVars(~troubled[a] /\ WorkerStep(a) /\ UNCHANGED <<portVars, recordVars>>)

RecordsSpec == RecordsInit /\ [][RecordsNext]_allVars /\ RecordsFairness

-----------------------------------------------------------------------------
(* Properties *)

Known(status) == IF status = Undefined THEN DISCONNECTED ELSE status

\* Once every status change is processed and no write of ENABLED is on its way,
\* the record shows the port's status and the poll is on exactly for an enabled
\* module that is not connected, whatever the order in which writes, lost
\* connections and reconnects reached the records (slsDetector.template:1-60;
\* uninitialize and initialize, drvAsynSlsDetPort.cpp:237-335).
RecordsSettle ==
  \A a \in Addrs :
    ring[a] = <<>> /\ ~enabling[a] =>
      /\ CONN_STATUS_VAL[a] = Known(connStatus[a])
      /\ DO_CONN_POLL[a] = ConnPoll(ENABLED_VAL[a], Known(connStatus[a]))

\* A module that stays switched on and out of trouble is shown as connected
\* again and again: with nothing but the poll to call connect(), a module that
\* was lost is found again.
RecordsReconnect ==
  \A a \in Addrs :
    <>[](ENABLED_VAL[a] = ON /\ ~troubled[a]) => []<>(CONN_STATUS_VAL[a] = CONNECTED)
=============================================================================
