------------------------------- MODULE SlsDet -------------------------------
(***************************************************************************)
(* The asyn port of drvAsynSlsDetPort.cpp and its detector drivers.  One   *)
(* port thread runs the handlers of all addresses, one at a time; a        *)
(* handler that talks to a module is split where it blocks in request().   *)
(*                                                                         *)
(* asynManager is external: it calls connect() on a device it holds to be  *)
(* disconnected, whenever and as often as it likes, and queues the other   *)
(* calls.  A request that asynManager would keep back from a disconnected  *)
(* device is let through here: the handlers have a test of their own.      *)
(* A connect() that is refused (the module is disabled, or its driver      *)
(* object cannot be made) and a read of a disconnected address return an   *)
(* error and change nothing: they are no steps here.                       *)
(* Also left out: the parameters served by the base class, enumerations,   *)
(* the exit handler and the destructor.                                    *)
(***************************************************************************)
EXTENDS SlsDetDriver, FiniteSets

CONSTANT Undefined  \* the value of a parameter nobody has set

ASSUME UndefinedAssumption == Undefined \notin Int
ASSUME OnlineCheckAssumption == Plain("CheckOnline") \in Requests
ASSUME DriversAssumption == IsFiniteSet(Drivers)

VARIABLES
  port,        \* what the port thread is doing
  enabled,     \* SLS_DET_ENABLED
  dets,        \* _dets: whether the driver object exists
  connStatus,  \* SLS_CONN_STATUS
  numDet,      \* SLS_NUM_DETS, of the whole port
  asynConn,    \* what asynManager holds the connection of the device to be
  params       \* the parameters that reads and writes go through

portVars == <<port, enabled, dets, connStatus, numDet, asynConn, params>>
vars == <<driverVars, portVars>>

Addrs == Drivers
OFF == 0
ON == 1
DISCONNECTED == 0
CONNECTED == 1

\* The parameters that a handler passes on to the module, by interface, each
\* named after the message it is turned into.  SLS_NUM_DETS, SLS_INIT and every
\* set parameter that is read are answered by the base class.
readInt32Messages ==
  {"ReadRunStatus", "ReadDetType", "ReadTempControl", "ReadTempEvent",
   "ReadPowerChip", "ReadHighVoltage", "ReadClockDivider", "ReadGainMode"}

readFloat64Messages == {"ReadFpgaTemp", "ReadAdcTemp", "ReadTempThreshold"}

readOctetMessages ==
  {"ReadHostname", "ReadSerialnum", "ReadFirmwareVer", "ReadSoftwareVer"}

writeInt32Messages ==
  {"WriteTempControl", "WriteTempEvent", "WritePowerChip", "WriteHighVoltage",
   "WriteClockDivider", "WriteGainMode"}

writeFloat64Messages == {"WriteTempThreshold"}

PortReads ==
  {m \in Requests :
     /\ m.dtype = "None"
     /\ m.mtype \in readInt32Messages \cup readFloat64Messages \cup readOctetMessages}

PortWrites ==
  {m \in Requests : \/ m.dtype = "Int32" /\ m.mtype \in writeInt32Messages
                    \/ m.dtype = "Float64" /\ m.mtype \in writeFloat64Messages}

ParamNames == {m.mtype : m \in PortReads \cup PortWrites}

\* Fault: a parameter was created with the wrong type.
ParamTypeMistaken(m) ==
  CASE m \in readInt32Messages \cup {"ReadSerialnum"} -> "Int32"
    [] m \in readFloat64Messages -> "Float64"
    [] OTHER -> "String"

\* The type with which createParam made the parameter a read fills.
ParamType(m) ==
  CASE m \in readInt32Messages   -> "Int32"
    [] m \in readFloat64Messages -> "Float64"
    [] m \in readOctetMessages   -> "String"

Free == [pc |-> "idle"]

\* numDet: the local copy that initialize() takes before it blocks.
Busy == [pc : {"connect", "read", "write"}, addr : Addrs, req : Message, numDet : Int]

Maybe(S) == S \cup {Undefined}

PortTypeOK ==
  /\ port \in {Free} \cup Busy
  /\ enabled \in [Addrs -> Maybe({OFF, ON})]
  /\ dets \in [Addrs -> BOOLEAN]
  /\ connStatus \in [Addrs -> Maybe({DISCONNECTED, CONNECTED})]
  /\ numDet \in Maybe(Int)
  /\ asynConn \in [Addrs -> BOOLEAN]
  /\ params \in [Addrs -> [ParamNames -> Maybe(Int)]]

\* A handler for address a has sent req and blocks in request().
Blocked(pc, a, req, count) == [pc |-> pc, addr |-> a, req |-> req, numDet |-> count]

BusyWith(pc, a) == port.pc = pc /\ port.addr = a

PortInit ==
  /\ port = Free
  /\ enabled = [a \in Addrs |-> Undefined]
  /\ dets = [a \in Addrs |-> FALSE]
  /\ connStatus = [a \in Addrs |-> Undefined]
  /\ numDet = Undefined
  /\ asynConn = [a \in Addrs |-> FALSE]
  /\ params = [a \in Addrs |-> [f \in ParamNames |-> Undefined]]

isConnected(a) == connStatus[a] = CONNECTED

\* Fault: the count is left alone.
uninitializeUncounted(a) ==
  /\ connStatus' = [connStatus EXCEPT ![a] = DISCONNECTED]
  /\ asynConn' = [asynConn EXCEPT ![a] = FALSE]
  /\ UNCHANGED numDet

uninitialize(a) ==
  /\ connStatus' = [connStatus EXCEPT ![a] = DISCONNECTED]
  /\ numDet' = numDet - 1
  /\ asynConn' = [asynConn EXCEPT ![a] = FALSE]

-----------------------------------------------------------------------------
(* connect() and disconnect() *)

\* initialize() ignores the status of getIntegerParam: an undefined parameter
\* leaves the local variable uninitialized.
EnabledRead(a) == IF enabled[a] = Undefined THEN {OFF, ON} ELSE {enabled[a]}

\* Fault: the local copy of the count is taken before the parameter is reset.
ConnectBeginEarlyCopy(a) ==
  /\ port = Free
  /\ ~asynConn[a]
  /\ ON \in EnabledRead(a)
  /\ dets' = [dets EXCEPT ![a] = TRUE]
  /\ connStatus' = IF dets[a] THEN connStatus
                   ELSE [connStatus EXCEPT ![a] = DISCONNECTED]
  /\ numDet' = IF dets[a] THEN numDet ELSE 0
  /\ connStatus'[a] = DISCONNECTED
  /\ port' = Blocked("connect", a, Plain("CheckOnline"), numDet)
  /\ RequestBegin(a, Plain("CheckOnline"))
  /\ UNCHANGED <<enabled, asynConn, params>>

\* The first connect() of an address makes its driver object and resets the
\* parameters; each one asks the module whether it is online.
ConnectBegin(a) ==
  /\ port = Free
  /\ ~asynConn[a]
  /\ ON \in EnabledRead(a)
  /\ dets' = [dets EXCEPT ![a] = TRUE]
  /\ connStatus' = IF dets[a] THEN connStatus
                   ELSE [connStatus EXCEPT ![a] = DISCONNECTED]
  /\ numDet' = IF dets[a] THEN numDet ELSE 0
  /\ connStatus'[a] = DISCONNECTED
  /\ port' = Blocked("connect", a, Plain("CheckOnline"), numDet')
  /\ RequestBegin(a, Plain("CheckOnline"))
  /\ UNCHANGED <<enabled, asynConn, params>>

\* Fault: a module that did not answer the online check is counted.
ConnectEndCounted(a) ==
  /\ BusyWith("connect", a)
  /\ RequestReturn(a)
  /\ numDet' = port.numDet + 1
  /\ IF call[a].ret.msg.mtype = "Ok"
     THEN /\ asynConn' = [asynConn EXCEPT ![a] = TRUE]
          /\ connStatus' = [connStatus EXCEPT ![a] = CONNECTED]
     ELSE UNCHANGED <<asynConn, connStatus>>
  /\ port' = Free
  /\ UNCHANGED <<enabled, dets, params>>

ConnectEnd(a) ==
  /\ BusyWith("connect", a)
  /\ RequestReturn(a)
  /\ IF call[a].ret.msg.mtype = "Ok"
     THEN /\ asynConn' = [asynConn EXCEPT ![a] = TRUE]
          /\ connStatus' = [connStatus EXCEPT ![a] = CONNECTED]
          /\ numDet' = port.numDet + 1
     ELSE UNCHANGED <<asynConn, connStatus, numDet>>
  /\ port' = Free
  /\ UNCHANGED <<enabled, dets, params>>

Disconnect(a) ==
  /\ port = Free
  /\ asynConn[a]
  /\ uninitialize(a)
  /\ UNCHANGED <<driverVars, port, enabled, dets, params>>

-----------------------------------------------------------------------------
(* readInt32(), readFloat64(), readOctet() and readDetector() *)

ReadBegin(a, m) ==
  /\ port = Free
  /\ isConnected(a)
  /\ port' = Blocked("read", a, m, 0)
  /\ RequestBegin(a, m)
  /\ UNCHANGED <<enabled, dets, connStatus, numDet, asynConn, params>>

\* Fault: a failed read is taken for a successful one.
ReadStatusLenient(m, reply) ==
  CASE reply.mtype \in {"Ok", "Failed"} -> "asynSuccess"
    [] reply.mtype = "Invalid" -> "asynError"
    [] reply.mtype = "Timeout" -> "asynTimeout"
    [] OTHER -> "asynDisconnected"

\* The setter of the answer's type refuses a parameter of another type.
ReadStatus(m, reply) ==
  CASE reply.mtype = "Ok" ->
         CASE reply.dtype = ParamType(m) -> "asynSuccess"
           [] reply.dtype = "None" -> "asynError"
           [] OTHER -> "asynParamWrongType"
    [] reply.mtype = "Invalid" -> "asynError"
    [] reply.mtype = "Timeout" -> "asynTimeout"
    [] OTHER -> "asynDisconnected"

\* The statuses with which readDetector() and writeDetector() also disconnect.
Severed == {"asynTimeout", "asynDisconnected"}

ReadEnd(a) ==
  /\ BusyWith("read", a)
  /\ RequestReturn(a)
  /\ LET reply == call[a].ret.msg
         status == ReadStatus(port.req.mtype, reply)
     IN  /\ params' = IF status = "asynSuccess"
                      THEN [params EXCEPT ![a][port.req.mtype] = reply.value]
                      ELSE params
         /\ IF status \in Severed THEN uninitialize(a)
            ELSE UNCHANGED <<connStatus, numDet, asynConn>>
  /\ port' = Free
  /\ UNCHANGED <<enabled, dets>>

-----------------------------------------------------------------------------
(* writeInt32(), writeFloat64() and writeDetector() *)

\* The parameter is set before the connection is looked at.
WriteRefused(a, m) ==
  /\ port = Free
  /\ ~isConnected(a)
  /\ params' = [params EXCEPT ![a][m.mtype] = m.value]
  /\ UNCHANGED <<driverVars, port, enabled, dets, connStatus, numDet, asynConn>>

\* Fault: the parameter of a connected address keeps the value before.
WriteBeginUnset(a, m) ==
  /\ port = Free
  /\ isConnected(a)
  /\ port' = Blocked("write", a, m, 0)
  /\ RequestBegin(a, m)
  /\ UNCHANGED <<enabled, dets, connStatus, numDet, asynConn, params>>

WriteBegin(a, m) ==
  /\ port = Free
  /\ isConnected(a)
  /\ params' = [params EXCEPT ![a][m.mtype] = m.value]
  /\ port' = Blocked("write", a, m, 0)
  /\ RequestBegin(a, m)
  /\ UNCHANGED <<enabled, dets, connStatus, numDet, asynConn>>

\* Fault: the type of the data is not looked at.
WriteStatusUntyped(reply) ==
  CASE reply.mtype = "Ok" -> "asynSuccess"
    [] reply.mtype \in {"Failed", "Invalid"} -> "asynError"
    [] reply.mtype = "Timeout" -> "asynTimeout"
    [] OTHER -> "asynDisconnected"

\* An Ok that carries data answers a read, not this write.
WriteStatus(reply) ==
  CASE reply.mtype = "Ok" -> IF reply.dtype = "None" THEN "asynSuccess" ELSE "asynError"
    [] reply.mtype \in {"Failed", "Invalid"} -> "asynError"
    [] reply.mtype = "Timeout" -> "asynTimeout"
    [] OTHER -> "asynDisconnected"

WriteEnd(a) ==
  /\ BusyWith("write", a)
  /\ RequestReturn(a)
  /\ LET status == WriteStatus(call[a].ret.msg)
     IN  IF status \in Severed THEN uninitialize(a)
         ELSE UNCHANGED <<connStatus, numDet, asynConn>>
  /\ port' = Free
  /\ UNCHANGED <<enabled, dets, params>>

\* Fault: a module that is switched off keeps its connection.
EnableConnected(a, value) ==
  /\ port = Free
  /\ enabled' = [enabled EXCEPT ![a] = value]
  /\ UNCHANGED <<driverVars, port, dets, connStatus, numDet, asynConn, params>>

\* writeInt32() of SLS_DET_ENABLED.
Enable(a, value) ==
  /\ port = Free
  /\ enabled' = [enabled EXCEPT ![a] = value]
  /\ IF value = OFF /\ isConnected(a) THEN uninitialize(a)
     ELSE UNCHANGED <<connStatus, numDet, asynConn>>
  /\ UNCHANGED <<driverVars, port, dets, params>>

-----------------------------------------------------------------------------

Init == DriverInit /\ PortInit

HandlerBegin(a) ==
  \/ ConnectBegin(a)
  \/ Disconnect(a)
  \/ \E m \in PortReads : ReadBegin(a, m)
  \/ \E m \in PortWrites : WriteRefused(a, m) \/ WriteBegin(a, m)
  \/ \E value \in {OFF, ON} : Enable(a, value)

HandlerEnd(a) == ConnectEnd(a) \/ ReadEnd(a) \/ WriteEnd(a)

Next ==
  \E a \in Addrs :
    \/ HandlerBegin(a)
    \/ HandlerEnd(a)
    \/ DriverStep(a) /\ UNCHANGED portVars

\* asynManager retries connect() for a disconnected device and its queue lets
\* every address have its turn; the port thread runs.
Fairness ==
  /\ \A d \in Drivers :
       /\ WF_vars(CallerStep(d) /\ UNCHANGED portVars)
       /\ SF_vars(RequestTimeout(d) /\ UNCHANGED portVars)
       /\ WF_vars(~troubled[d] /\ WorkerStep(d) /\ UNCHANGED portVars)
  /\ \A a \in Addrs : SF_vars(ConnectBegin(a)) /\ WF_vars(HandlerEnd(a))

Spec == Init /\ [][Next]_vars /\ Fairness

-----------------------------------------------------------------------------
(* Properties *)

\* An address shown as connected is usable as soon as the port is done with it:
\* asynManager agrees, the driver has its detector object, no error is left in
\* the mask that would fail the next read, and no answer is still on its way
\* (initialize, uninitialize and the exits of readDetector and writeDetector,
\* drvAsynSlsDetPort.cpp:237-500).
ConnectedIsUsable ==
  \A a \in Addrs :
    isConnected(a) /\ (port # Free => port.addr # a) =>
      /\ asynConn[a] /\ dets[a] /\ det[a] # "NULL"
      /\ errMask[a] = {}
      /\ InFlight(a) = 0

\* A module that was switched off is not connected, whatever answer was still
\* on its way when it was switched off (writeInt32, 677-683, and the test of
\* enabled in initialize, 250).
DisabledIsDisconnected ==
  \A a \in Addrs : enabled[a] = OFF => ~isConnected(a) /\ ~asynConn[a]

Connected == {a \in Addrs : isConnected(a)}

\* SLS_NUM_DETS, "Number of modules in the multiDetector"
\* (slsMultiDetector.template:3), is the number of connected modules.
NumDetCountsConnected ==
  numDet # Undefined => numDet = Cardinality(Connected)

\* SLS_NUM_DETS never claims a module that is not there, although it is reset
\* whenever an address gets its driver (268) and goes up from a copy taken
\* before the port blocked (280, 288).
NumDetNeverOvercounts ==
  numDet # Undefined => numDet <= Cardinality(Connected)

\* A write whose handler is about to return asynSuccess was a write, not a
\* negative value that was turned into a read, and a verified setting holds it
\* (the test of dtype at 476, the ret == value checks of slsDetDriver.cpp).
AcknowledgedWriteHolds ==
  \A a \in Addrs :
    BusyWith("write", a) /\ call[a].pc = "done" =>
      (WriteStatus(call[a].ret.msg) = "asynSuccess" =>
         LET s == SettingOf[port.req.mtype]
         IN  /\ Argument(port.req) >= 0
             /\ s \in Verifying => hw[a][s] = Argument(port.req))

\* Whatever a module answers to a read fits the parameter the read fills: the
\* type of a handler's answer (slsDetDriver.cpp:78-534) is the type with which
\* the parameter was created (182-207), for every interface and also after an
\* answer came late.
ReplyFitsParameter ==
  \A a \in Addrs :
    BusyWith("read", a) /\ call[a].pc = "done" =>
      ReadStatus(port.req.mtype, call[a].ret.msg) # "asynParamWrongType"

\* The parameter of a setpoint is set before the module is asked, and stays set
\* when it is not (writeDetector, 503-540).  When a write of a verified setting
\* is acknowledged the setpoint, the value written and the register agree.
SetpointIsWritten ==
  [][\A a \in Addrs :
       (/\ BusyWith("write", a) /\ port' = Free
        /\ WriteStatus(call[a].ret.msg) = "asynSuccess"
        /\ SettingOf[port.req.mtype] \in Verifying) =>
         params'[a][port.req.mtype] = hw'[a][SettingOf[port.req.mtype]]]_vars

\* The value a successful read leaves in a setting's parameter is what the
\* module holds at that moment (readDetector, 397-428).
ReadIsCurrent ==
  [][\A a \in Addrs :
       (/\ BusyWith("read", a) /\ port' = Free
        /\ ReadStatus(port.req.mtype, call[a].ret.msg) = "asynSuccess"
        /\ det[a] = "ready" /\ port.req.mtype \in DOMAIN SettingOf) =>
         LET s == SettingOf[port.req.mtype]
         IN  params'[a][port.req.mtype] = DataReply(SettingType(s), hw'[a][s]).value]_vars

\* While an address is connected its registers only change on behalf of the
\* write the port is busy with: a write that timed out cannot land after the
\* address was connected again.
OnlyCurrentWriteLands ==
  [][\A a \in Addrs :
       isConnected(a) /\ hw'[a] # hw[a] =>
         /\ BusyWith("write", a)
         /\ hw'[a] = [hw[a] EXCEPT ![SettingOf[port.req.mtype]] = Argument(port.req)]]_vars

\* No handler keeps the port thread forever, even when a module never answers
\* again: the other addresses of the port depend on it.
PortNeverHangs == port # Free ~> port = Free

\* A module that stays enabled and out of trouble is connected again and again
\* found connected, whatever state its last troubles left behind (owed answers,
\* a late write, error bits, no detector object).
Reconnects ==
  \A a \in Addrs :
    <>[](enabled[a] = ON /\ ~troubled[a]) => []<>isConnected(a)
=============================================================================
