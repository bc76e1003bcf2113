----------------------------- MODULE SlsDet_proofs -----------------------------
(***************************************************************************)
(* Proofs about the port, for any number of addresses and any requests.    *)
(* The port drives its drivers as SlsDetDriver allows, so what is proved   *)
(* about drivers holds under it; and only the port thread changes what is  *)
(* said about connections.  Joined, they say when an address may be shown  *)
(* as connected, what an acknowledged write and a successful read mean for *)
(* the module, and which writes can still land.                            *)
(***************************************************************************)
EXTENDS SlsDet, SlsDetDriver_proofs, FiniteSetTheorems

-----------------------------------------------------------------------------
(* The drivers under the port *)

\* Every step of the port is a step of its drivers or leaves them alone.
LEMMA PortStepsAreDriverSteps == [Next]_vars => [DriverNext]_driverVars
<1> SUFFICES ASSUME [Next]_vars PROVE [DriverNext]_driverVars
  OBVIOUS
<1>1. CASE UNCHANGED vars
  BY <1>1 DEF vars
<1>2. ASSUME NEW a \in Addrs, HandlerBegin(a) PROVE [DriverNext]_driverVars
  <2>1. CASE ConnectBegin(a)
    BY <2>1, OnlineCheckAssumption DEF ConnectBegin, DriverNext, Addrs
  <2>2. CASE Disconnect(a)
    BY <2>2 DEF Disconnect
  <2>3. ASSUME NEW m \in PortReads, ReadBegin(a, m) PROVE [DriverNext]_driverVars
    BY <2>3 DEF ReadBegin, PortReads, DriverNext, Addrs
  <2>4. ASSUME NEW m \in PortWrites, WriteRefused(a, m) PROVE [DriverNext]_driverVars
    BY <2>4 DEF WriteRefused
  <2>5. ASSUME NEW m \in PortWrites, WriteBegin(a, m) PROVE [DriverNext]_driverVars
    BY <2>5 DEF WriteBegin, PortWrites, DriverNext, Addrs
  <2>6. ASSUME NEW value \in {OFF, ON}, Enable(a, value) PROVE [DriverNext]_driverVars
    BY <2>6 DEF Enable
  <2> QED BY <1>2, <2>1, <2>2, <2>3, <2>4, <2>5, <2>6 DEF HandlerBegin
<1>3. ASSUME NEW a \in Addrs, HandlerEnd(a) PROVE [DriverNext]_driverVars
  BY <1>3 DEF HandlerEnd, ConnectEnd, ReadEnd, WriteEnd, DriverNext, Addrs
<1>4. ASSUME NEW a \in Addrs, DriverStep(a) PROVE [DriverNext]_driverVars
  BY <1>4 DEF DriverNext, Addrs
<1> QED BY <1>1, <1>2, <1>3, <1>4 DEF Next

\* The inductive invariant of the drivers is one of the port: under it, too,
\* _pending is exact and answers belong to their calls.
THEOREM DriversUnderPort == Spec => []DriverIInv
<1>1. DriverInit => DriverIInv
  BY DriverInitially
<1>2. DriverIInv /\ [Next]_vars => DriverIInv'
  BY PortStepsAreDriverSteps, DriverInductive
<1> QED BY <1>1, <1>2, PTL DEF Spec, Init

-----------------------------------------------------------------------------
(* The invariant of the port *)

\* asynManager is told what the status says.
ManagerAgrees == \A a \in Addrs : asynConn[a] <=> isConnected(a)

\* A connected address has its driver, and the port a count.
ConnectedAreMade ==
  \A a \in Addrs : (isConnected(a) => dets[a]) /\ (dets[a] => numDet \in Int)

\* While a handler blocks, its address stays as the handler found it: whatever
\* could change it would need the port thread.
HandlerKeepsItsAddress ==
  /\ port.pc = "connect" =>
       /\ ~isConnected(port.addr) /\ enabled[port.addr] # OFF
       /\ dets[port.addr] /\ port.numDet <= Cardinality(Connected)
  /\ port.pc \in {"read", "write"} => isConnected(port.addr)

PortIInv ==
  /\ PortTypeOK /\ ManagerAgrees /\ ConnectedAreMade /\ HandlerKeepsItsAddress
  /\ DisabledIsDisconnected /\ NumDetNeverOvercounts

\* A handler that is done changes the connection of no address but its own.
OthersStay(a) ==
  \A b \in Addrs \ {a} : connStatus'[b] = connStatus[b] /\ asynConn'[b] = asynConn[b]

LEMMA ConnectedIsFinite ==
  /\ IsFiniteSet(Connected)
  /\ Cardinality(Connected) \in Nat
<1>1. Connected \subseteq Drivers
  BY DEF Connected, Addrs
<1> QED BY <1>1, DriversAssumption, FS_Subset, FS_CardinalityType

LEMMA PortInitially == PortInit => PortIInv
<1> SUFFICES ASSUME PortInit PROVE PortIInv
  OBVIOUS
<1>1. Undefined # CONNECTED /\ Undefined # OFF
  BY UndefinedAssumption DEF CONNECTED, OFF
<1>2. PortTypeOK
  BY DEF PortInit, PortTypeOK, Maybe
<1> QED
  BY <1>1, <1>2 DEF PortInit, PortIInv, ManagerAgrees, ConnectedAreMade, HandlerKeepsItsAddress,
     DisabledIsDisconnected, NumDetNeverOvercounts, isConnected, Free

\* uninitialize() of a connected address takes it out of the connected ones and
\* counts it out (drvAsynSlsDetPort.cpp:310-335).
LEMMA Uninitialized ==
  ASSUME PortIInv, NEW a \in Addrs, isConnected(a), uninitialize(a)
  PROVE  /\ connStatus' \in [Addrs -> Maybe({DISCONNECTED, CONNECTED})]
         /\ asynConn' \in [Addrs -> BOOLEAN]
         /\ numDet \in Int /\ numDet' = numDet - 1
         /\ numDet' \in Int /\ numDet' <= Cardinality(Connected')
         /\ ~isConnected(a)' /\ asynConn'[a] = FALSE
         /\ OthersStay(a)
<1>1. /\ connStatus \in [Addrs -> Maybe({DISCONNECTED, CONNECTED})]
      /\ asynConn \in [Addrs -> BOOLEAN]
  BY DEF PortIInv, PortTypeOK
<1>2. /\ connStatus' \in [Addrs -> Maybe({DISCONNECTED, CONNECTED})]
      /\ asynConn' \in [Addrs -> BOOLEAN]
      /\ connStatus'[a] = DISCONNECTED /\ asynConn'[a] = FALSE
      /\ OthersStay(a)
  BY <1>1 DEF uninitialize, Maybe, OthersStay
<1>3. numDet \in Int /\ numDet <= Cardinality(Connected)
  BY UndefinedAssumption DEF PortIInv, ConnectedAreMade, NumDetNeverOvercounts
<1>4. Connected' = Connected \ {a} /\ a \in Connected
  BY <1>2 DEF Connected, isConnected, OthersStay, CONNECTED, DISCONNECTED
<1>5. Cardinality(Connected') = Cardinality(Connected) - 1
  BY <1>4, ConnectedIsFinite, FS_RemoveElement
<1>6. numDet' = numDet - 1
  BY DEF uninitialize
<1> QED
  BY <1>2, <1>3, <1>5, <1>6, ConnectedIsFinite DEF isConnected, CONNECTED, DISCONNECTED

\* A handler that loses the connection of its address leaves the port idle and
\* the invariant intact.
LEMMA SeveredInv ==
  ASSUME PortIInv, NEW a \in Addrs, isConnected(a), uninitialize(a), port' = Free,
         enabled' \in [Addrs -> Maybe({OFF, ON})],
         \A b \in Addrs \ {a} : enabled'[b] = enabled[b],
         dets' = dets, params' \in [Addrs -> [ParamNames -> Maybe(Int)]]
  PROVE  PortIInv'
<1>1. PortTypeOK'
  BY Uninitialized DEF PortIInv, PortTypeOK, Maybe
<1>2. ManagerAgrees'
  BY Uninitialized DEF PortIInv, ManagerAgrees, OthersStay, isConnected
<1>3. ConnectedAreMade'
  BY Uninitialized DEF PortIInv, ConnectedAreMade, OthersStay, isConnected
<1>4. HandlerKeepsItsAddress'
  BY DEF HandlerKeepsItsAddress, Free
<1>5. DisabledIsDisconnected'
  BY Uninitialized DEF PortIInv, DisabledIsDisconnected, OthersStay, isConnected
<1>6. NumDetNeverOvercounts'
  BY Uninitialized DEF NumDetNeverOvercounts
<1> QED BY <1>1, <1>2, <1>3, <1>4, <1>5, <1>6 DEF PortIInv

\* A handler that touches no connection.
LEMMA UnconnectingInv ==
  ASSUME PortIInv, UNCHANGED <<connStatus, numDet, asynConn, dets>>,
         port' \in {Free} \cup Busy,
         port'.pc # "connect",
         port'.pc \in {"read", "write"} => isConnected(port'.addr),
         enabled' \in [Addrs -> Maybe({OFF, ON})],
         \A b \in Addrs : isConnected(b) => enabled'[b] # OFF,
         params' \in [Addrs -> [ParamNames -> Maybe(Int)]]
  PROVE  PortIInv'
<1>1. PortTypeOK'
  BY DEF PortIInv, PortTypeOK
<1>2. ManagerAgrees' /\ ConnectedAreMade' /\ NumDetNeverOvercounts'
  BY DEF PortIInv, ManagerAgrees, ConnectedAreMade, NumDetNeverOvercounts, isConnected, Connected
<1>3. HandlerKeepsItsAddress'
  BY DEF HandlerKeepsItsAddress, isConnected
<1>4. DisabledIsDisconnected'
  BY DEF PortIInv, ManagerAgrees, DisabledIsDisconnected, isConnected
<1> QED BY <1>1, <1>2, <1>3, <1>4 DEF PortIInv

-----------------------------------------------------------------------------
(* connect() *)

LEMMA ConnectBeginInv ==
  ASSUME PortIInv, NEW a \in Addrs, ConnectBegin(a)
  PROVE  PortIInv'
<1>1. /\ dets \in [Addrs -> BOOLEAN] /\ numDet \in Maybe(Int)
      /\ connStatus \in [Addrs -> Maybe({DISCONNECTED, CONNECTED})]
      /\ enabled \in [Addrs -> Maybe({OFF, ON})]
  BY DEF PortIInv, PortTypeOK
<1>2. ~isConnected(a) /\ enabled[a] # OFF
  BY UndefinedAssumption DEF ConnectBegin, PortIInv, ManagerAgrees, EnabledRead, OFF, ON
<1>3. numDet' \in Int
  BY DEF ConnectBegin, PortIInv, ConnectedAreMade
<1>4. /\ dets' \in [Addrs -> BOOLEAN] /\ dets'[a] = TRUE
      /\ \A b \in Addrs \ {a} : dets'[b] = dets[b]
  BY <1>1 DEF ConnectBegin
<1>5. /\ connStatus' \in [Addrs -> Maybe({DISCONNECTED, CONNECTED})]
      /\ connStatus'[a] = DISCONNECTED
      /\ \A b \in Addrs \ {a} : connStatus'[b] = connStatus[b]
  BY <1>1 DEF ConnectBegin, Maybe
<1>6. asynConn' = asynConn /\ enabled' = enabled /\ params' = params
  BY DEF ConnectBegin
<1>7. Connected' = Connected
  BY <1>2, <1>5 DEF Connected, isConnected, CONNECTED, DISCONNECTED
<1>8. numDet' <= Cardinality(Connected')
  <2>1. CASE dets[a]
    BY <2>1, <1>3, <1>7, UndefinedAssumption DEF ConnectBegin, PortIInv, NumDetNeverOvercounts
  <2>2. CASE ~dets[a]
    BY <2>2, <1>7, ConnectedIsFinite DEF ConnectBegin
  <2> QED BY <2>1, <2>2
<1>9. /\ port' \in Busy /\ port'.pc = "connect" /\ port'.addr = a /\ port'.numDet = numDet'
  BY <1>3, OnlineCheckAssumption, RequestsAssumption DEF ConnectBegin, Blocked, Busy
<1>10. PortTypeOK'
  BY <1>3, <1>4, <1>5, <1>6, <1>9 DEF PortIInv, PortTypeOK, Maybe
<1>11. \A b \in Addrs : isConnected(b)' <=> isConnected(b)
  BY <1>2, <1>5 DEF isConnected, CONNECTED, DISCONNECTED
<1>12. ManagerAgrees'
  BY <1>6, <1>11 DEF PortIInv, ManagerAgrees
<1>13. ConnectedAreMade'
  BY <1>2, <1>3, <1>4, <1>11 DEF PortIInv, ConnectedAreMade
<1>14. HandlerKeepsItsAddress'
  BY <1>2, <1>4, <1>6, <1>8, <1>9, <1>11 DEF HandlerKeepsItsAddress
<1>15. DisabledIsDisconnected'
  BY <1>6, <1>11 DEF PortIInv, DisabledIsDisconnected
<1>16. NumDetNeverOvercounts'
  BY <1>8 DEF NumDetNeverOvercounts
<1> QED BY <1>10, <1>12, <1>13, <1>14, <1>15, <1>16 DEF PortIInv

LEMMA ConnectEndInv ==
  ASSUME PortIInv, NEW a \in Addrs, ConnectEnd(a)
  PROVE  PortIInv'
<1>1. /\ connStatus \in [Addrs -> Maybe({DISCONNECTED, CONNECTED})]
      /\ asynConn \in [Addrs -> BOOLEAN] /\ port \in {Free} \cup Busy
      /\ enabled \in [Addrs -> Maybe({OFF, ON})]
      /\ params \in [Addrs -> [ParamNames -> Maybe(Int)]]
  BY DEF PortIInv, PortTypeOK
<1>2. /\ port.pc = "connect" /\ port.addr = a
      /\ ~isConnected(a) /\ enabled[a] # OFF /\ dets[a]
      /\ port.numDet <= Cardinality(Connected)
  BY DEF ConnectEnd, BusyWith, PortIInv, HandlerKeepsItsAddress
<1>3. port.numDet \in Int
  BY <1>1, <1>2 DEF Free, Busy
<1>4. port' = Free /\ enabled' = enabled /\ dets' = dets /\ params' = params
  BY DEF ConnectEnd
<1>5. CASE UNCHANGED <<asynConn, connStatus, numDet>>
  BY <1>1, <1>4, <1>5, UnconnectingInv
     DEF Free, PortIInv, DisabledIsDisconnected
<1>6. CASE call[a].ret.msg.mtype = "Ok"
  <2>1. /\ asynConn' \in [Addrs -> BOOLEAN] /\ asynConn'[a] = TRUE
        /\ connStatus' \in [Addrs -> Maybe({DISCONNECTED, CONNECTED})]
        /\ connStatus'[a] = CONNECTED
        /\ numDet' = port.numDet + 1
        /\ OthersStay(a)
    BY <1>1, <1>6 DEF ConnectEnd, Maybe, OthersStay
  <2>2. Connected' = Connected \cup {a} /\ a \notin Connected
    BY <1>2, <2>1 DEF Connected, isConnected, OthersStay
  <2>3. Cardinality(Connected') = Cardinality(Connected) + 1
    BY <2>2, ConnectedIsFinite, FS_AddElement
  <2>4. numDet' \in Int /\ numDet' <= Cardinality(Connected')
    BY <1>2, <1>3, <2>1, <2>3, ConnectedIsFinite
  <2>5. PortTypeOK'
    BY <1>4, <2>1, <2>4 DEF PortIInv, PortTypeOK, Maybe
  <2>6. ManagerAgrees'
    BY <2>1 DEF PortIInv, ManagerAgrees, OthersStay, isConnected
  <2>7. ConnectedAreMade'
    BY <1>2, <1>4, <2>1, <2>4 DEF PortIInv, ConnectedAreMade, OthersStay, isConnected
  <2>8. HandlerKeepsItsAddress'
    BY <1>4 DEF HandlerKeepsItsAddress, Free
  <2>9. DisabledIsDisconnected'
    BY <1>2, <1>4, <2>1 DEF PortIInv, DisabledIsDisconnected, OthersStay, isConnected
  <2>10. NumDetNeverOvercounts'
    BY <2>4 DEF NumDetNeverOvercounts
  <2> QED BY <2>5, <2>6, <2>7, <2>8, <2>9, <2>10 DEF PortIInv
<1> QED BY <1>5, <1>6 DEF ConnectEnd

-----------------------------------------------------------------------------
(* The other handlers *)

LEMMA DisconnectInv ==
  ASSUME PortIInv, NEW a \in Addrs, Disconnect(a)
  PROVE  PortIInv'
<1>1. isConnected(a) /\ uninitialize(a) /\ port' = Free /\ UNCHANGED <<enabled, dets, params>>
  BY DEF Disconnect, PortIInv, ManagerAgrees
<1>2. /\ enabled \in [Addrs -> Maybe({OFF, ON})]
      /\ params \in [Addrs -> [ParamNames -> Maybe(Int)]]
  BY DEF PortIInv, PortTypeOK
<1> QED BY <1>1, <1>2, SeveredInv

LEMMA EnableInv ==
  ASSUME PortIInv, NEW a \in Addrs, NEW value \in {OFF, ON}, Enable(a, value)
  PROVE  PortIInv'
<1>1. /\ enabled \in [Addrs -> Maybe({OFF, ON})]
      /\ params \in [Addrs -> [ParamNames -> Maybe(Int)]]
  BY DEF PortIInv, PortTypeOK
<1>2. /\ enabled' \in [Addrs -> Maybe({OFF, ON})] /\ enabled'[a] = value
      /\ \A b \in Addrs \ {a} : enabled'[b] = enabled[b]
      /\ port = Free /\ port' = Free /\ dets' = dets /\ params' = params
  BY <1>1 DEF Enable, Maybe
<1>3. CASE value = OFF /\ isConnected(a)
  BY <1>1, <1>2, <1>3, SeveredInv DEF Enable
<1>4. CASE ~(value = OFF /\ isConnected(a))
  <2>1. UNCHANGED <<connStatus, numDet, asynConn, dets>>
    BY <1>2, <1>4 DEF Enable
  <2>2. \A b \in Addrs : isConnected(b) => enabled'[b] # OFF
    BY <1>2, <1>4 DEF PortIInv, DisabledIsDisconnected
  <2> QED BY <1>1, <1>2, <2>1, <2>2, UnconnectingInv DEF Free
<1> QED BY <1>3, <1>4

LEMMA MessagePartsTyped ==
  ASSUME NEW m \in Message
  PROVE  m.value \in Int
BY DEF Message

LEMMA ReadWriteBeginInv ==
  ASSUME PortIInv, NEW a \in Addrs,
         \/ \E m \in PortReads : ReadBegin(a, m)
         \/ \E m \in PortWrites : WriteRefused(a, m) \/ WriteBegin(a, m)
  PROVE  PortIInv'
<1>1. /\ enabled \in [Addrs -> Maybe({OFF, ON})]
      /\ params \in [Addrs -> [ParamNames -> Maybe(Int)]]
      /\ port \in {Free} \cup Busy
      /\ \A b \in Addrs : isConnected(b) => enabled[b] # OFF
  BY DEF PortIInv, PortTypeOK, DisabledIsDisconnected
<1>2. PortReads \subseteq Message /\ PortWrites \subseteq Message
  BY RequestsAssumption DEF PortReads, PortWrites
<1>3. ASSUME NEW m \in Message
      PROVE  /\ Blocked("read", a, m, 0) \in Busy /\ Blocked("write", a, m, 0) \in Busy
             /\ [params EXCEPT ![a][m.mtype] = m.value] \in [Addrs -> [ParamNames -> Maybe(Int)]]
  <2>1. Blocked("read", a, m, 0) \in Busy /\ Blocked("write", a, m, 0) \in Busy
    BY DEF Blocked, Busy
  <2>2. m.value \in Maybe(Int)
    BY MessagePartsTyped DEF Maybe
  <2>3. [params EXCEPT ![a][m.mtype] = m.value] \in [Addrs -> [ParamNames -> Maybe(Int)]]
    BY <1>1, <2>2
  <2> QED BY <2>1, <2>3
<1>4. ASSUME NEW m \in PortReads, ReadBegin(a, m) PROVE PortIInv'
  BY <1>1, <1>2, <1>3, <1>4, UnconnectingInv DEF ReadBegin, Blocked
<1>5. ASSUME NEW m \in PortWrites, WriteRefused(a, m) PROVE PortIInv'
  BY <1>1, <1>2, <1>3, <1>5, UnconnectingInv DEF WriteRefused, Free
<1>6. ASSUME NEW m \in PortWrites, WriteBegin(a, m) PROVE PortIInv'
  BY <1>1, <1>2, <1>3, <1>6, UnconnectingInv DEF WriteBegin, Blocked
<1> QED BY <1>4, <1>5, <1>6

LEMMA ReadEndInv ==
  ASSUME PortIInv, DriverTypeOK, NEW a \in Addrs, ReadEnd(a)
  PROVE  PortIInv'
<1> DEFINE status == ReadStatus(port.req.mtype, call[a].ret.msg)
<1>1. /\ enabled \in [Addrs -> Maybe({OFF, ON})]
      /\ params \in [Addrs -> [ParamNames -> Maybe(Int)]]
  BY DEF PortIInv, PortTypeOK
<1>2. isConnected(a)
  BY DEF ReadEnd, BusyWith, PortIInv, HandlerKeepsItsAddress
<1>3. call[a].ret.msg.value \in Int
  BY MessagePartsTyped DEF DriverTypeOK, Call, Envelope, Addrs
<1>4. params' \in [Addrs -> [ParamNames -> Maybe(Int)]]
  BY <1>1, <1>3 DEF ReadEnd, Maybe
<1>5. port' = Free /\ UNCHANGED <<enabled, dets>>
  BY DEF ReadEnd
<1>6. CASE uninitialize(a)
  BY <1>1, <1>2, <1>4, <1>5, <1>6, SeveredInv
<1>7. CASE UNCHANGED <<connStatus, numDet, asynConn>>
  BY <1>1, <1>4, <1>5, <1>7, UnconnectingInv DEF Free, PortIInv, DisabledIsDisconnected
<1> QED BY <1>6, <1>7 DEF ReadEnd

LEMMA WriteEndInv ==
  ASSUME PortIInv, NEW a \in Addrs, WriteEnd(a)
  PROVE  PortIInv'
<1>1. /\ enabled \in [Addrs -> Maybe({OFF, ON})]
      /\ params \in [Addrs -> [ParamNames -> Maybe(Int)]]
  BY DEF PortIInv, PortTypeOK
<1>2. isConnected(a)
  BY DEF WriteEnd, BusyWith, PortIInv, HandlerKeepsItsAddress
<1>3. port' = Free /\ UNCHANGED <<enabled, dets, params>>
  BY DEF WriteEnd
<1>4. CASE uninitialize(a)
  BY <1>1, <1>2, <1>3, <1>4, SeveredInv
<1>5. CASE UNCHANGED <<connStatus, numDet, asynConn>>
  BY <1>1, <1>3, <1>5, UnconnectingInv DEF Free, PortIInv, DisabledIsDisconnected
<1> QED BY <1>4, <1>5 DEF WriteEnd

-----------------------------------------------------------------------------
(* What holds in every reachable state *)

LEMMA PortInductive == PortIInv /\ DriverTypeOK /\ [Next]_vars => PortIInv'
<1> SUFFICES ASSUME PortIInv, DriverTypeOK, [Next]_vars PROVE PortIInv'
  OBVIOUS
<1>1. CASE UNCHANGED portVars
  BY <1>1 DEF portVars, PortIInv, PortTypeOK, ManagerAgrees, ConnectedAreMade,
     HandlerKeepsItsAddress, DisabledIsDisconnected, NumDetNeverOvercounts, isConnected, Connected
<1>2. ASSUME NEW a \in Addrs, HandlerBegin(a) PROVE PortIInv'
  BY <1>2, ConnectBeginInv, DisconnectInv, ReadWriteBeginInv, EnableInv DEF HandlerBegin
<1>3. ASSUME NEW a \in Addrs, HandlerEnd(a) PROVE PortIInv'
  BY <1>3, ConnectEndInv, ReadEndInv, WriteEndInv DEF HandlerEnd
<1> QED BY <1>1, <1>2, <1>3 DEF Next, vars

LEMMA PortInvariant == Spec => []PortIInv
<1>1. Init => PortIInv
  BY PortInitially DEF Init
<1>2. PortIInv /\ DriverIInv /\ [Next]_vars => PortIInv'
  BY PortInductive DEF DriverIInv
<1> QED BY <1>1, <1>2, DriversUnderPort, PTL DEF Spec

\* The port's parameters, what asynManager is told and what the port thread is
\* busy with are well typed, for any number of addresses.
THEOREM PortTypeCorrect == Spec => []PortTypeOK
<1>1. PortIInv => PortTypeOK
  BY DEF PortIInv
<1> QED BY <1>1, PortInvariant, PTL

\* A module that was switched off is not connected, and stays so until it is
\* switched on (writeInt32, 677-683; initialize, 250).
THEOREM DisabledStaysDisconnected == Spec => []DisabledIsDisconnected
<1>1. PortIInv => DisabledIsDisconnected
  BY DEF PortIInv
<1> QED BY <1>1, PortInvariant, PTL

\* SLS_NUM_DETS never claims a module that is not there, for any number of
\* addresses (initialize, 268-290; uninitialize).
THEOREM CountNeverOvercounts == Spec => []NumDetNeverOvercounts
<1>1. PortIInv => NumDetNeverOvercounts
  BY DEF PortIInv
<1> QED BY <1>1, PortInvariant, PTL

-----------------------------------------------------------------------------
(* Connections and answers together *)

\* What the drivers are known to do, under the port too.
DriversSound == DriverIInv /\ \A d \in Drivers : AnswerInv(d)

LEMMA DriversSoundInductive == DriversSound /\ [Next]_vars => DriversSound'
BY PortStepsAreDriverSteps, DriverInductive, AnswerInductive DEF DriversSound

-----------------------------------------------------------------------------
(* The invariant *)

\* The driver of an address is called exactly while the port thread runs a
\* handler of that address, and with the request of that handler.
CallIsHandlers ==
  \A a \in Addrs :
    IF port.pc # "idle" /\ port.addr = a THEN call[a].pc # "idle" /\ call[a].req = port.req
    ELSE call[a].pc = "idle"

\* What a handler asks for, and the parameter a write has set by then.
HandlerAsks ==
  /\ port.pc = "read" => port.req \in PortReads
  /\ port.pc = "write" =>
       /\ port.req \in PortWrites
       /\ params[port.addr][port.req.mtype] = port.req.value

\* Until a connected address has sent its request nothing is on its way, and the
\* driver has its detector and no error.
QuietBefore(a) ==
  isConnected(a) /\ call[a].pc \in {"idle", "flush"} => pending[a] = 0 /\ Clean(a)

\* What is on its way to the worker of a connected address when a call is over is
\* the request of that call.
LateIsOwn(a) ==
  isConnected(a) /\ call[a].pc = "done" =>
    /\ requestQ[a] # <<>> => Head(requestQ[a]).msg = call[a].req
    /\ thread[a].pc # "receive" => thread[a].env.msg = call[a].req

UseInv(a) == QuietBefore(a) /\ LateIsOwn(a)

UseIInv == CallIsHandlers /\ HandlerAsks /\ \A a \in Addrs : UseInv(a)

\* A step that leaves driver d as it is.
Untouched(d) ==
  /\ requestQ'[d] = requestQ[d] /\ replyQ'[d] = replyQ[d] /\ pending'[d] = pending[d]
  /\ call'[d] = call[d] /\ thread'[d] = thread[d] /\ det'[d] = det[d]
  /\ errMask'[d] = errMask[d] /\ hw'[d] = hw[d]

-----------------------------------------------------------------------------
(* What the steps do to calls *)

LEMMA BeginEffect ==
  ASSUME DriverTypeOK, NEW d \in Drivers, NEW m \in Requests, RequestBegin(d, m)
  PROVE  /\ call[d].pc = "idle" /\ call'[d].pc = "flush" /\ call'[d].req = m
         /\ UNCHANGED <<requestQ, replyQ, pending, thread, det, errMask, hw>>
         /\ \A e \in Drivers \ {d} : Untouched(e)
<1>1. call'[d].pc = "flush" /\ call'[d].req = m
  BY DEF DriverTypeOK, RequestBegin, Idle
<1>2. \A e \in Drivers \ {d} : Untouched(e)
  BY OthersUnchanged DEF AnyStep, Untouched
<1> QED BY <1>1, <1>2 DEF RequestBegin

LEMMA ReturnEffect ==
  ASSUME DriverTypeOK, NEW d \in Drivers, RequestReturn(d)
  PROVE  /\ call[d].pc = "done" /\ call'[d].pc = "idle"
         /\ UNCHANGED <<requestQ, replyQ, pending, thread, det, errMask, hw>>
         /\ \A e \in Drivers \ {d} : Untouched(e)
<1>1. call'[d].pc = "idle"
  BY DEF DriverTypeOK, RequestReturn, Idle
<1>2. \A e \in Drivers \ {d} : Untouched(e)
  BY OthersUnchanged DEF AnyStep, Untouched
<1> QED BY <1>1, <1>2 DEF RequestReturn

\* Inside a driver no call begins or ends, and none changes its request.
LEMMA StepEffect ==
  ASSUME DriverTypeOK, NEW d \in Drivers, DriverStep(d)
  PROVE  /\ call'[d].pc = "idle" <=> call[d].pc = "idle"
         /\ call'[d].req = call[d].req
         /\ \A e \in Drivers \ {d} : Untouched(e)
<1>1. \A e \in Drivers \ {d} : Untouched(e)
  BY OthersUnchanged DEF AnyStep, Untouched
<1>2. call[d] \in Call
  BY DEF DriverTypeOK
<1>3. CASE call' = call
  BY <1>1, <1>3
<1>4. CASE CallerStep(d)
  BY <1>1, <1>2, <1>4 DEF CallerStep, FlushReceive, SendRequest, ReceiveReply, DriverTypeOK, Call
<1>5. CASE RequestTimeout(d)
  BY <1>1, <1>2, <1>5 DEF RequestTimeout, FlushTimeout, ReplyTimeout, GiveUp, DriverTypeOK, Call
<1>6. CASE WorkerStep(d) \/ Trouble(d)
  BY <1>3, <1>6 DEF WorkerStep, Trouble, WorkerReceive, WorkerInitialize, ProcessOnlineCheck,
     ProcessSensorRead, ProcessSetting, ProcessUnsupported, WorkerReply, Answered
<1> QED BY <1>4, <1>5, <1>6 DEF DriverStep

\* Where nothing is counted there is nothing.
LEMMA NothingInFlight ==
  ASSUME NEW rq \in Seq(Envelope), NEW pq \in Seq(Envelope), NEW pc,
         Len(rq) + Len(pq) + (IF pc = "receive" THEN 0 ELSE 1) = 0
  PROVE  rq = <<>> /\ pq = <<>> /\ pc = "receive"
<1>1. Len(rq) \in Nat /\ Len(pq) \in Nat
  OBVIOUS
<1>2. Len(rq) = 0 /\ Len(pq) = 0 /\ pc = "receive"
  BY <1>1
<1> QED BY <1>2, EmptySeq

\* The one request on its way is gone when the worker has it.
LEMMA ReceivedAll ==
  ASSUME DriverTypeOK, NEW d \in Drivers, DriverInv(d), requestQ[d] # <<>>,
         thread[d].pc = "receive"
  PROVE  Tail(requestQ[d]) = <<>>
<1>1. requestQ[d] \in Seq(Envelope) /\ replyQ[d] \in Seq(Envelope) /\ pending[d] \in Nat
  BY DEF DriverTypeOK
<1>2. Len(Tail(requestQ[d])) = Len(requestQ[d]) - 1 /\ Tail(requestQ[d]) \in Seq(Envelope)
  BY <1>1, HeadTailProperties
<1>3. Len(requestQ[d]) \in Nat /\ Len(replyQ[d]) \in Nat /\ Len(Tail(requestQ[d])) \in Nat
  BY <1>1, <1>2
<1>4. Len(Tail(requestQ[d])) = 0
  <2>1. /\ pending[d] = Len(requestQ[d]) + Len(replyQ[d]) + 0
        /\ pending[d] <= 1
    BY DEF DriverInv, Counted, InFlight
  <2>2. \A m, n, k, l \in Nat : k = m + n + 0 /\ k <= 1 /\ l = m - 1 => l = 0
    OBVIOUS
  <2> QED BY <1>1, <1>2, <1>3, <2>1, <2>2
<1> QED BY <1>2, <1>4, EmptySeq

-----------------------------------------------------------------------------
(* The drivers keep the invariant *)

LEMMA UntouchedKeeps ==
  ASSUME NEW a \in Addrs, UseInv(a), Untouched(a), isConnected(a)' => isConnected(a)
  PROVE  UseInv(a)'
BY DEF UseInv, QuietBefore, LateIsOwn, Untouched, Clean

\* A connected address stays fit for use while its driver works on a request and
\* when the port gave the request up (slsDetDriver.cpp:541-600).
LEMMA StepKeepsUse ==
  ASSUME DriversSound, NEW a \in Addrs, DriverStep(a), UseInv(a), connStatus' = connStatus
  PROVE  UseInv(a)'
<1> SUFFICES ASSUME isConnected(a) PROVE UseInv(a)'
  BY DEF UseInv, QuietBefore, LateIsOwn, isConnected
<1> USE DEF UseInv, QuietBefore, LateIsOwn, isConnected, Clean
<1>1. /\ requestQ[a] \in Seq(Envelope) /\ replyQ[a] \in Seq(Envelope)
      /\ pending[a] \in Nat /\ call[a] \in Call /\ thread[a] \in Thread
      /\ DriverTypeOK
  BY DEF DriversSound, DriverIInv, DriverTypeOK, Addrs
<1>2. DriverInv(a) /\ pending[a] = InFlight(a)
  BY DEF DriversSound, DriverIInv, DriverInv, Counted, Addrs
<1>3. CASE FlushReceive(a)
  BY <1>3 DEF FlushReceive
<1>4. CASE SendRequest(a)
  <2>1. call'[a].pc = "wait"
    BY <1>1, <1>4 DEF SendRequest, DriverTypeOK, Call, Addrs
  <2> QED BY <2>1
<1>5. CASE ReceiveReply(a)
  <2>1. call'[a].pc = "done" /\ call[a].pc = "wait"
    BY <1>1, <1>5 DEF ReceiveReply, DriverTypeOK, Call, Addrs
  <2>2. requestQ[a] = <<>> /\ thread[a].pc = "receive"
    <3>1. /\ pending[a] = Len(requestQ[a]) + Len(replyQ[a])
                          + (IF thread[a].pc = "receive" THEN 0 ELSE 1)
          /\ pending[a] = 1
      BY <1>2, <2>1 DEF DriverInv, Owed, InFlight
    <3>2. replyQ[a] # <<>> /\ Len(Tail(replyQ[a])) = Len(replyQ[a]) - 1
          /\ Tail(replyQ[a]) \in Seq(Envelope)
      BY <1>1, <1>5, HeadTailProperties DEF ReceiveReply
    <3>3. Len(requestQ[a]) + Len(Tail(replyQ[a]))
            + (IF thread[a].pc = "receive" THEN 0 ELSE 1) = 0
      <4>1. Len(requestQ[a]) \in Nat /\ Len(replyQ[a]) \in Nat
        BY <1>1
      <4>2. \A m, n \in Nat, k \in {0, 1} : m + n + k = 1 => m + (n - 1) + k = 0
        OBVIOUS
      <4> QED BY <3>1, <3>2, <4>1, <4>2
    <3> QED BY <1>1, <3>2, <3>3, NothingInFlight
  <2> QED BY <1>5, <2>1, <2>2 DEF ReceiveReply
<1>6. CASE FlushTimeout(a)
  BY <1>6 DEF FlushTimeout
<1>7. CASE ReplyTimeout(a)
  <2>1. /\ call'[a].pc = "done" /\ call'[a].req = call[a].req /\ call[a].pc = "wait"
        /\ UNCHANGED <<requestQ, thread>>
    BY <1>1, <1>7 DEF ReplyTimeout, GiveUp, DriverTypeOK, Call, Addrs
  <2>2. TrueOnTheWay(a)
    BY DEF DriversSound, AnswerInv, Addrs
  <2> QED BY <2>1, <2>2 DEF TrueOnTheWay
<1>8. CASE WorkerStep(a)
  <2>1. call' = call /\ connStatus' = connStatus
    BY <1>8 DEF WorkerStep, WorkerReceive, WorkerInitialize, ProcessOnlineCheck,
       ProcessSensorRead, ProcessSetting, ProcessUnsupported, WorkerReply, Answered
  <2>2. requestQ[a] # <<>> \/ thread[a].pc # "receive"
    BY <1>8 DEF WorkerStep, WorkerReceive, WorkerInitialize, ProcessOnlineCheck,
       ProcessSensorRead, ProcessSetting, ProcessUnsupported, WorkerReply, Processing
  <2>3. pending[a] # 0
    BY <1>1, <1>2, <2>2, NothingInFlight DEF InFlight
  <2>4. call[a].pc \notin {"idle", "flush"}
    BY <2>3
  <2>5. CASE WorkerReceive(a)
    <3>1. /\ requestQ[a] # <<>> /\ thread[a].pc = "receive"
          /\ requestQ'[a] = Tail(requestQ[a])
      BY <1>1, <2>5 DEF WorkerReceive, DriverTypeOK, Addrs
    <3>2. thread'[a].env = Head(requestQ[a])
      BY <1>1, <2>5 DEF WorkerReceive, DriverTypeOK, Thread, Addrs
    <3>3. requestQ'[a] = <<>>
      BY <1>1, <1>2, <3>1, ReceivedAll DEF Addrs
    <3> QED BY <2>1, <2>4, <3>1, <3>2, <3>3
  <2>6. CASE ~WorkerReceive(a)
    <3>1. thread[a].pc # "receive" /\ requestQ' = requestQ
      BY <1>8, <2>6 DEF WorkerStep, WorkerInitialize, ProcessOnlineCheck,
         ProcessSensorRead, ProcessSetting, ProcessUnsupported, WorkerReply, Processing, Answered
    <3>2. thread'[a].pc # "receive" => thread'[a].env = thread[a].env
      <4>1. ASSUME NEW rep, Answered(a, rep) PROVE thread'[a].env = thread[a].env
        BY <1>1, <4>1 DEF Answered, DriverTypeOK, Thread, Addrs
      <4>2. CASE WorkerReply(a)
        BY <1>1, <4>2 DEF WorkerReply, Receiving, DriverTypeOK, Addrs
      <4>3. CASE WorkerInitialize(a)
        BY <1>1, <4>3 DEF WorkerInitialize, DriverTypeOK, Thread, Addrs
      <4>4. CASE ProcessSetting(a)
        BY <4>1, <4>4 DEF ProcessSetting
      <4>5. CASE ProcessOnlineCheck(a) \/ ProcessSensorRead(a) \/ ProcessUnsupported(a)
        BY <4>1, <4>5 DEF ProcessOnlineCheck, ProcessSensorRead, ProcessUnsupported
      <4> QED BY <1>8, <2>6, <4>2, <4>3, <4>4, <4>5 DEF WorkerStep
    <3>3. requestQ[a] = <<>>
      BY <1>1, <1>2, <3>1, WorkerAlone DEF Addrs
    <3> QED BY <2>1, <2>4, <3>1, <3>2, <3>3
  <2> QED BY <2>5, <2>6
<1>9. CASE Trouble(a)
  BY <1>9 DEF Trouble
<1> QED BY <1>3, <1>4, <1>5, <1>6, <1>7, <1>8, <1>9 DEF DriverStep, CallerStep, RequestTimeout

-----------------------------------------------------------------------------
(* The handlers keep the invariant *)

\* No address becomes connected.
NoneConnects == \A b \in Addrs : isConnected(b)' => isConnected(b)

\* A handler that asks its driver.
LEMMA BeginKeepsUse ==
  ASSUME DriverTypeOK, UseIInv, NEW a \in Addrs, NEW m \in Requests,
         port = Free, RequestBegin(a, m), port'.pc \in {"connect", "read", "write"},
         port'.addr = a, port'.req = m, NoneConnects,
         port'.pc = "read" => m \in PortReads,
         port'.pc = "write" => m \in PortWrites /\ params'[a][m.mtype] = m.value
  PROVE  UseIInv'
<1>1. /\ call[a].pc = "idle" /\ call'[a].pc = "flush" /\ call'[a].req = m
      /\ UNCHANGED <<requestQ, replyQ, pending, thread, det, errMask, hw>>
      /\ \A e \in Addrs \ {a} : Untouched(e)
  BY BeginEffect DEF Addrs
<1>2. CallIsHandlers'
  BY <1>1 DEF UseIInv, CallIsHandlers, Free, Untouched
<1>3. HandlerAsks'
  BY DEF HandlerAsks
<1>4. ASSUME NEW b \in Addrs PROVE UseInv(b)'
  <2>1. CASE b = a
    BY <1>1, <2>1 DEF UseIInv, UseInv, QuietBefore, LateIsOwn, Clean, NoneConnects
  <2>2. CASE b # a
    BY <1>1, <2>2, UntouchedKeeps DEF UseIInv, NoneConnects
  <2> QED BY <2>1, <2>2
<1> QED BY <1>2, <1>3, <1>4 DEF UseIInv

\* A handler that takes the answer of its driver.
LEMMA EndKeepsUse ==
  ASSUME DriverTypeOK, UseIInv, NEW a \in Addrs,
         port.pc # "idle", port.addr = a, RequestReturn(a), port' = Free,
         \A b \in Addrs \ {a} : isConnected(b)' => isConnected(b),
         isConnected(a)' => pending[a] = 0 /\ Clean(a)
  PROVE  UseIInv'
<1>1. /\ call'[a].pc = "idle"
      /\ UNCHANGED <<requestQ, replyQ, pending, thread, det, errMask, hw>>
      /\ \A e \in Addrs \ {a} : Untouched(e)
  BY ReturnEffect DEF Addrs
<1>2. CallIsHandlers'
  BY <1>1 DEF UseIInv, CallIsHandlers, Free, Untouched
<1>3. HandlerAsks'
  BY DEF HandlerAsks, Free
<1>4. ASSUME NEW b \in Addrs PROVE UseInv(b)'
  <2>1. CASE b = a
    BY <1>1, <2>1 DEF UseInv, QuietBefore, LateIsOwn, Clean
  <2>2. CASE b # a
    BY <1>1, <2>2, UntouchedKeeps DEF UseIInv
  <2> QED BY <2>1, <2>2
<1> QED BY <1>2, <1>3, <1>4 DEF UseIInv

\* A handler that needs no driver.
LEMMA AloneKeepsUse ==
  ASSUME UseIInv, port = Free, port' = Free, UNCHANGED driverVars, NoneConnects
  PROVE  UseIInv'
<1>1. CallIsHandlers' /\ HandlerAsks'
  BY DEF UseIInv, CallIsHandlers, HandlerAsks, Free, driverVars
<1>2. \A a \in Addrs : Untouched(a)
  BY DEF driverVars, Untouched
<1>3. \A a \in Addrs : UseInv(a)'
  BY <1>2, UntouchedKeeps DEF UseIInv, NoneConnects
<1> QED BY <1>1, <1>3 DEF UseIInv

\* The port asks for nothing that process() does not support.
LEMMA PortAsksSupported ==
  \A m \in PortReads \cup PortWrites : ~IsUnsupported(m)
<1>1. ASSUME NEW m \in PortReads PROVE IsSensorRead(m) \/ IsSettingCall(m)
  BY DEF PortReads, readInt32Messages, readFloat64Messages, readOctetMessages, IsSensorRead,
     IsSettingCall, SensorType, SettingOf, ReadTypes
<1>2. ASSUME NEW m \in PortWrites PROVE IsSettingCall(m)
  BY DEF PortWrites, writeInt32Messages, writeFloat64Messages, IsSettingCall, WriteInt32Types,
     WriteFloat64Types
<1> QED BY <1>1, <1>2 DEF IsUnsupported

\* What a handler that is answered knows: it asked for this answer, and unless
\* the answer makes it disconnect (Severed) the driver is as it should be.
LEMMA AnsweredHandler ==
  ASSUME PortIInv, DriversSound, UseIInv, NEW a \in Addrs,
         port.addr = a, call[a].pc = "done", port.pc \in {"connect", "read", "write"}
  PROVE  /\ call[a].req = port.req
         /\ call[a].ret.msg.mtype # "Timeout" =>
              pending[a] = 0 /\ SpeaksTrue(a, port.req, call[a].ret.msg)
         /\ (/\ call[a].ret.msg.mtype \notin {"Timeout", "Error"}
             /\ call[a].ret.msg.mtype = "Invalid" => port.pc # "connect") =>
              pending[a] = 0 /\ Clean(a)
<1>1. call[a].req = port.req
  BY DEF UseIInv, CallIsHandlers
<1>2. call[a].ret.msg.mtype # "Timeout" =>
        pending[a] = 0 /\ SpeaksTrue(a, port.req, call[a].ret.msg)
  BY <1>1 DEF DriversSound, AnswerInv, TrueAtCaller, Addrs
<1>3. port.pc \in {"read", "write"} => ~IsUnsupported(port.req)
  BY PortAsksSupported DEF UseIInv, HandlerAsks
<1> QED BY <1>1, <1>2, <1>3 DEF SpeaksTrue, LeavesClean, Fits

\* uninitialize() connects nobody.
LEMMA UninitializeEffect ==
  ASSUME PortTypeOK, NEW a \in Addrs, uninitialize(a)
  PROVE  ~isConnected(a)' /\ NoneConnects
BY DEF PortTypeOK, uninitialize, isConnected, NoneConnects, DISCONNECTED, CONNECTED

LEMMA HandlerBeginKeepsUse ==
  ASSUME PortIInv, DriversSound, UseIInv, NEW a \in Addrs, HandlerBegin(a)
  PROVE  UseIInv'
<1>1. DriverTypeOK /\ PortTypeOK
  BY DEF DriversSound, DriverIInv, PortIInv
<1>2. PortReads \cup PortWrites \subseteq Requests
  BY DEF PortReads, PortWrites
<1>3. CASE ConnectBegin(a)
  <2>1. NoneConnects
    BY <1>1, <1>3 DEF ConnectBegin, NoneConnects, isConnected, PortTypeOK, DISCONNECTED, CONNECTED
  <2>2. port'.pc = "connect" /\ port'.addr = a /\ port'.req = Plain("CheckOnline")
    BY <1>3 DEF ConnectBegin, Blocked
  <2>3. port = Free /\ RequestBegin(a, Plain("CheckOnline"))
    BY <1>3 DEF ConnectBegin
  <2> QED BY <1>1, <2>1, <2>2, <2>3, OnlineCheckAssumption, BeginKeepsUse
<1>4. CASE Disconnect(a)
  BY <1>1, <1>4, UninitializeEffect, AloneKeepsUse DEF Disconnect
<1>5. ASSUME NEW m \in PortReads, ReadBegin(a, m) PROVE UseIInv'
  <2>1. /\ port'.pc = "read" /\ port'.addr = a /\ port'.req = m /\ port = Free
        /\ RequestBegin(a, m) /\ connStatus' = connStatus
    BY <1>5 DEF ReadBegin, Blocked
  <2>2. NoneConnects
    BY <2>1 DEF NoneConnects, isConnected
  <2> QED BY <1>1, <1>2, <2>1, <2>2, BeginKeepsUse
<1>6. ASSUME NEW m \in PortWrites, WriteRefused(a, m) PROVE UseIInv'
  BY <1>6, AloneKeepsUse DEF WriteRefused, NoneConnects, isConnected
<1>7. ASSUME NEW m \in PortWrites, WriteBegin(a, m) PROVE UseIInv'
  <2>1. /\ port'.pc = "write" /\ port'.addr = a /\ port'.req = m /\ port = Free
        /\ RequestBegin(a, m) /\ connStatus' = connStatus
    BY <1>7 DEF WriteBegin, Blocked
  <2>2. NoneConnects
    BY <2>1 DEF NoneConnects, isConnected
  <2>3. params'[a][m.mtype] = m.value
    BY <1>1, <1>7 DEF WriteBegin, PortTypeOK, ParamNames
  <2> QED BY <1>1, <1>2, <2>1, <2>2, <2>3, BeginKeepsUse
<1>8. ASSUME NEW value \in {OFF, ON}, Enable(a, value) PROVE UseIInv'
  <2>1. NoneConnects
    BY <1>1, <1>8, UninitializeEffect DEF Enable, NoneConnects, isConnected
  <2> QED BY <1>8, <2>1, AloneKeepsUse DEF Enable
<1> QED BY <1>3, <1>4, <1>5, <1>6, <1>7, <1>8 DEF HandlerBegin

\* Where a handler does not disconnect, its driver is as a connected address needs
\* it (initialize, readDetector and writeDetector, drvAsynSlsDetPort.cpp:250-540).
LEMMA HandlerEndKeepsUse ==
  ASSUME PortIInv, DriversSound, UseIInv, NEW a \in Addrs, HandlerEnd(a)
  PROVE  UseIInv'
<1> DEFINE reply == call[a].ret.msg
<1>1. DriverTypeOK /\ PortTypeOK
  BY DEF DriversSound, DriverIInv, PortIInv
<1>2. /\ port.pc \in {"connect", "read", "write"} /\ port.addr = a
      /\ RequestReturn(a) /\ call[a].pc = "done" /\ port' = Free
  BY DEF HandlerEnd, ConnectEnd, ReadEnd, WriteEnd, BusyWith, RequestReturn
<1>3. /\ reply.mtype \notin {"Timeout", "Error"}
      /\ reply.mtype = "Invalid" => port.pc # "connect"
      => pending[a] = 0 /\ Clean(a)
  BY <1>2, AnsweredHandler
<1>4. ASSUME uninitialize(a) PROVE UseIInv'
  BY <1>1, <1>2, <1>4, UninitializeEffect, EndKeepsUse DEF NoneConnects
<1>5. ASSUME connStatus' = connStatus, isConnected(a) => pending[a] = 0 /\ Clean(a)
      PROVE  UseIInv'
  BY <1>1, <1>2, <1>5, EndKeepsUse DEF isConnected
<1>6. CASE ConnectEnd(a)
  <2>1. ~isConnected(a)
    BY <1>6 DEF ConnectEnd, BusyWith, PortIInv, HandlerKeepsItsAddress
  <2>2. CASE reply.mtype = "Ok"
    <3>1. \A b \in Addrs \ {a} : isConnected(b)' => isConnected(b)
      BY <1>1, <1>6, <2>2 DEF ConnectEnd, PortTypeOK, isConnected
    <3> QED BY <1>1, <1>2, <1>3, <2>2, <3>1, EndKeepsUse
  <2>3. CASE reply.mtype # "Ok"
    BY <1>5, <1>6, <2>1, <2>3 DEF ConnectEnd
  <2> QED BY <2>2, <2>3
<1>7. CASE ReadEnd(a)
  <2> DEFINE status == ReadStatus(port.req.mtype, reply)
  <2>1. port.pc = "read" /\ (IF status \in Severed THEN uninitialize(a) ELSE connStatus' = connStatus)
    BY <1>7 DEF ReadEnd, BusyWith
  <2>2. status \notin Severed => reply.mtype \in {"Ok", "Invalid"}
    BY DEF ReadStatus, Severed
  <2> QED BY <1>3, <1>4, <1>5, <2>1, <2>2
<1>8. CASE WriteEnd(a)
  <2> DEFINE status == WriteStatus(reply)
  <2>1. port.pc = "write" /\ (IF status \in Severed THEN uninitialize(a) ELSE connStatus' = connStatus)
    BY <1>8 DEF WriteEnd, BusyWith
  <2>2. status \notin Severed => reply.mtype \in {"Ok", "Failed", "Invalid"}
    BY DEF WriteStatus, Severed
  <2> QED BY <1>3, <1>4, <1>5, <2>1, <2>2
<1> QED BY <1>6, <1>7, <1>8 DEF HandlerEnd

LEMMA UseInductive == PortIInv /\ DriversSound /\ UseIInv /\ [Next]_vars => UseIInv'
<1> SUFFICES ASSUME PortIInv, DriversSound, UseIInv, [Next]_vars PROVE UseIInv'
  OBVIOUS
<1>1. CASE UNCHANGED vars
  BY <1>1 DEF vars, driverVars, portVars, UseIInv, CallIsHandlers, HandlerAsks, UseInv,
     QuietBefore, LateIsOwn, Clean, isConnected
<1>2. ASSUME NEW a \in Addrs, HandlerBegin(a) PROVE UseIInv'
  BY <1>2, HandlerBeginKeepsUse
<1>3. ASSUME NEW a \in Addrs, HandlerEnd(a) PROVE UseIInv'
  BY <1>3, HandlerEndKeepsUse
<1>4. ASSUME NEW a \in Addrs, DriverStep(a), UNCHANGED portVars PROVE UseIInv'
  <2>1. /\ call'[a].pc = "idle" <=> call[a].pc = "idle"
        /\ call'[a].req = call[a].req
        /\ \A e \in Addrs \ {a} : Untouched(e)
    BY <1>4, StepEffect DEF DriversSound, DriverIInv, Addrs
  <2>2. CallIsHandlers' /\ HandlerAsks'
    BY <1>4, <2>1 DEF UseIInv, CallIsHandlers, HandlerAsks, Untouched, portVars
  <2>3. ASSUME NEW b \in Addrs PROVE UseInv(b)'
    <3>1. CASE b = a
      BY <1>4, <3>1, StepKeepsUse DEF UseIInv, portVars
    <3>2. CASE b # a
      BY <1>4, <2>1, <3>2, UntouchedKeeps DEF UseIInv, portVars, isConnected
    <3> QED BY <3>1, <3>2
  <2> QED BY <2>2, <2>3 DEF UseIInv
<1> QED BY <1>1, <1>2, <1>3, <1>4 DEF Next

\* Everything that is known of a port between two steps, and inductive.
PortSound == PortIInv /\ DriversSound /\ UseIInv

LEMMA PortInitiallySound == Init => PortSound
<1> SUFFICES ASSUME Init PROVE PortSound
  OBVIOUS
<1>1. UseIInv
  BY UndefinedAssumption DEF Init, DriverInit, PortInit, UseIInv, CallIsHandlers, HandlerAsks,
     UseInv, QuietBefore, LateIsOwn, isConnected, Free, Idle, CONNECTED, Addrs
<1>2. \A d \in Drivers : AnswerInv(d)
  BY DEF Init, DriverInit, Idle, Receiving, AnswerInv, TrueAtWorker, TrueOnTheWay, TrueAtCaller
<1> QED BY <1>1, <1>2, PortInitially, DriverInitially DEF Init, PortSound, DriversSound

LEMMA PortStaysSound == PortSound /\ [Next]_vars => PortSound'
BY PortInductive, DriversSoundInductive, UseInductive DEF PortSound, DriversSound, DriverIInv

LEMMA PortIsSound == Spec => []PortSound
BY PortInitiallySound, PortStaysSound, PTL DEF Spec

-----------------------------------------------------------------------------
(* What follows *)

\* A connected address that the port is not busy with is fit for the next call.
LEMMA ConnectedIsFit == PortSound => ConnectedIsUsable
<1> SUFFICES ASSUME PortSound, NEW a \in Addrs, isConnected(a), port # Free => port.addr # a
             PROVE  asynConn[a] /\ dets[a] /\ det[a] # "NULL" /\ errMask[a] = {} /\ InFlight(a) = 0
  BY DEF ConnectedIsUsable
<1> USE DEF PortSound
<1>1. call[a].pc = "idle"
  BY DEF UseIInv, CallIsHandlers, Free
<1>2. pending[a] = 0 /\ Clean(a)
  BY <1>1 DEF UseIInv, UseInv, QuietBefore
<1>3. InFlight(a) = pending[a]
  BY DEF DriversSound, DriverIInv, DriverInv, Counted, Addrs
<1>4. asynConn[a] /\ dets[a]
  BY DEF PortIInv, PortTypeOK, ManagerAgrees, ConnectedAreMade
<1> QED BY <1>2, <1>3, <1>4 DEF Clean

\* An address shown as connected is usable as soon as the port is done with it,
\* for any number of addresses and whatever was asked of them before
\* (drvAsynSlsDetPort.cpp:237-500).
THEOREM ConnectedStaysUsable == Spec => []ConnectedIsUsable
BY ConnectedIsFit, PortIsSound, PTL

\* What the handler of a write, a read knows when its answer is there.
LEMMA HandlerAnswered ==
  ASSUME PortIInv, DriversSound, UseIInv, NEW a \in Addrs, call[a].pc = "done",
         BusyWith("read", a) \/ BusyWith("write", a), call[a].ret.msg.mtype = "Ok"
  PROVE  /\ SpeaksTrue(a, port.req, call[a].ret.msg)
         /\ call[a].ret.msg.dtype = AnswerType(port.req)
<1>1. SpeaksTrue(a, port.req, call[a].ret.msg)
  BY AnsweredHandler DEF BusyWith
<1> QED BY <1>1 DEF SpeaksTrue, Fits

\* A write of the port that is answered by Ok and no data: the argument was no
\* request to read.
LEMMA AcknowledgedWrite ==
  ASSUME PortIInv, DriversSound, UseIInv, NEW a \in Addrs, call[a].pc = "done",
         BusyWith("write", a), WriteStatus(call[a].ret.msg) = "asynSuccess"
  PROVE  /\ port.req \in PortWrites /\ Argument(port.req) \in Int /\ Argument(port.req) >= 0
         /\ SettingOf[port.req.mtype] \in Verifying =>
              hw[a][SettingOf[port.req.mtype]] = Argument(port.req)
<1>1. call[a].ret.msg.mtype = "Ok" /\ call[a].ret.msg.dtype = "None"
  BY DEF WriteStatus
<1>2. port.req \in PortWrites
  BY DEF BusyWith, UseIInv, HandlerAsks
<1>3. IsSettingCall(port.req) /\ port.req \in Message
  BY <1>2, RequestsAssumption DEF PortWrites, writeInt32Messages, writeFloat64Messages,
     IsSettingCall, WriteInt32Types, WriteFloat64Types
<1>4. Argument(port.req) \in Int
  BY <1>3, ArgumentType
<1>5. ~(Argument(port.req) < 0)
  BY <1>1, <1>3, HandlerAnswered, BranchesDisjoint DEF AnswerType, SettingType
<1>6. HoldsWritten(a, port.req, call[a].ret.msg)
  BY <1>1, HandlerAnswered DEF SpeaksTrue
<1> QED BY <1>1, <1>2, <1>3, <1>4, <1>5, <1>6 DEF HoldsWritten

\* A write that is about to return asynSuccess was a write, and a verified setting
\* holds it, even if the driver has no sub-detector (slsDetDriver.cpp:249-413,
\* drvAsynSlsDetPort.cpp:470-500).
THEOREM AcknowledgedWritesHold == Spec => []AcknowledgedWriteHolds
<1>1. PortIInv /\ DriversSound /\ UseIInv => AcknowledgedWriteHolds
  BY AcknowledgedWrite DEF AcknowledgedWriteHolds
<1> QED BY <1>1, PortIsSound, PTL DEF PortSound

\* The type of the data a supported read is answered with is that of the
\* parameter it fills (slsDetDriver.cpp:78-534, drvAsynSlsDetPort.cpp:182-207).
LEMMA AnswerFitsParameter ==
  ASSUME NEW m \in PortReads
  PROVE  AnswerType(m) = ParamType(m.mtype)
<1>1. CASE IsSensorRead(m)
  <2>1. AnswerType(m) = SensorType[m.mtype]
    BY <1>1, BranchesDisjoint DEF AnswerType
  <2>2. m.mtype \in DOMAIN SensorType \cap (readInt32Messages \cup readFloat64Messages \cup readOctetMessages)
    BY <1>1 DEF IsSensorRead, PortReads
  <2> QED BY <2>1, <2>2 DEF SensorType, ParamType, readInt32Messages, readFloat64Messages,
     readOctetMessages
<1>2. CASE ~IsSensorRead(m)
  <2>1. IsSettingCall(m)
    BY <1>2, PortAsksSupported DEF IsUnsupported, IsOnlineCheck, PortReads, readInt32Messages,
       readFloat64Messages, readOctetMessages
  <2>2. Argument(m) = -1
    BY DEF Argument, PortReads
  <2>3. AnswerType(m) = SettingType(SettingOf[m.mtype])
    BY <1>2, <2>1, <2>2 DEF AnswerType
  <2>4. /\ m.mtype \in readInt32Messages \cup readFloat64Messages \cup readOctetMessages
        /\ m.mtype \notin DOMAIN SensorType
    BY <1>2 DEF PortReads, IsSensorRead
  <2> QED BY <2>3, <2>4 DEF SettingType, SettingOf, SensorType, ParamType, readInt32Messages,
     readFloat64Messages, readOctetMessages
<1> QED BY <1>1, <1>2

\* No answer to a read is refused by the parameter it is for.
THEOREM RepliesFitParameters == Spec => []ReplyFitsParameter
<1>1. PortIInv /\ DriversSound /\ UseIInv => ReplyFitsParameter
  <2> SUFFICES ASSUME PortIInv, DriversSound, UseIInv, NEW a \in Addrs,
                      BusyWith("read", a), call[a].pc = "done"
               PROVE  ReadStatus(port.req.mtype, call[a].ret.msg) # "asynParamWrongType"
    BY DEF ReplyFitsParameter
  <2>1. CASE call[a].ret.msg.mtype = "Ok"
    <3>1. port.req \in PortReads
      BY DEF BusyWith, UseIInv, HandlerAsks
    <3>2. call[a].ret.msg.dtype = ParamType(port.req.mtype)
      BY <2>1, <3>1, HandlerAnswered, AnswerFitsParameter
    <3> QED BY <2>1, <3>2 DEF ReadStatus
  <2>2. CASE call[a].ret.msg.mtype # "Ok"
    BY <2>2 DEF ReadStatus
  <2> QED BY <2>1, <2>2
<1> QED BY <1>1, PortIsSound, PTL DEF PortSound

-----------------------------------------------------------------------------
(* What no step may do *)

\* The port is done with a handler only by ending it.
LEMMA OnlyEndFrees ==
  ASSUME Next, NEW a \in Addrs, BusyWith("read", a) \/ BusyWith("write", a), port' = Free
  PROVE  \/ BusyWith("read", a) /\ ReadEnd(a)
         \/ BusyWith("write", a) /\ WriteEnd(a)
<1>1. port # Free /\ port' # port
  BY DEF BusyWith, Free
<1>2. PICK b \in Addrs : HandlerBegin(b) \/ HandlerEnd(b) \/ UNCHANGED portVars
  BY DEF Next
<1>3. HandlerEnd(b)
  BY <1>1, <1>2 DEF portVars, HandlerBegin, ConnectBegin, Disconnect, ReadBegin, WriteRefused,
     WriteBegin, Enable
<1>4. \/ BusyWith("connect", b)
      \/ BusyWith("read", b) /\ ReadEnd(b)
      \/ BusyWith("write", b) /\ WriteEnd(b)
  BY <1>3 DEF HandlerEnd, ConnectEnd, ReadEnd, WriteEnd
<1>5. port.pc \in {"read", "write"} /\ port.addr = a
  BY DEF BusyWith
<1>6. b = a
  BY <1>4, <1>5 DEF BusyWith
<1>7. ~BusyWith("connect", a)
  BY <1>5 DEF BusyWith
<1> QED BY <1>4, <1>6, <1>7

\* The value a successful read leaves in a setting's parameter is what the module
\* holds at that moment, whatever was still under way when it began (readDetector,
\* drvAsynSlsDetPort.cpp:397-428).
THEOREM ReadsAreCurrent == Spec => ReadIsCurrent
<1>1. PortIInv /\ DriversSound /\ UseIInv /\ [Next]_vars =>
        [\A a \in Addrs :
           (/\ BusyWith("read", a) /\ port' = Free
            /\ ReadStatus(port.req.mtype, call[a].ret.msg) = "asynSuccess"
            /\ det[a] = "ready" /\ port.req.mtype \in DOMAIN SettingOf) =>
             LET s == SettingOf[port.req.mtype]
             IN  params'[a][port.req.mtype] = DataReply(SettingType(s), hw'[a][s]).value]_vars
  <2> SUFFICES ASSUME PortIInv, DriversSound, UseIInv, Next, NEW a \in Addrs,
                      BusyWith("read", a), port' = Free,
                      ReadStatus(port.req.mtype, call[a].ret.msg) = "asynSuccess",
                      det[a] = "ready", port.req.mtype \in DOMAIN SettingOf
               PROVE  params'[a][port.req.mtype]
                        = DataReply(SettingType(SettingOf[port.req.mtype]),
                                    hw'[a][SettingOf[port.req.mtype]]).value
    OBVIOUS
  <2> DEFINE reply == call[a].ret.msg
  <2>1. ReadEnd(a)
    BY OnlyEndFrees DEF BusyWith
  <2>2. port.req \in PortReads
    BY DEF BusyWith, UseIInv, HandlerAsks
  <2>3. params'[a][port.req.mtype] = reply.value
    BY <2>1, <2>2 DEF ReadEnd, PortIInv, PortTypeOK, ParamNames
  <2>4. hw' = hw /\ call[a].pc = "done"
    BY <2>1 DEF ReadEnd, RequestReturn
  <2>5. reply.mtype = "Ok"
    BY DEF ReadStatus
  <2>6. IsSettingCall(port.req) /\ Argument(port.req) < 0
    BY <2>2 DEF PortReads, readInt32Messages, readFloat64Messages, readOctetMessages,
       IsSettingCall, SettingOf, ReadTypes, Argument
  <2>7. TellsRegister(a, port.req, reply)
    BY <2>4, <2>5, HandlerAnswered DEF SpeaksTrue
  <2>8. reply = DataReply(SettingType(SettingOf[port.req.mtype]), hw[a][SettingOf[port.req.mtype]])
    BY <2>5, <2>6, <2>7 DEF TellsRegister
  <2> QED BY <2>3, <2>4, <2>8
<1> QED BY <1>1, PortIsSound, PTL DEF Spec, PortSound, ReadIsCurrent

\* When a write of a verified setting is acknowledged the setpoint's parameter,
\* the value written and the register agree (writeDetector,
\* drvAsynSlsDetPort.cpp:503-540).
THEOREM SetpointsAreWritten == Spec => SetpointIsWritten
<1>1. PortIInv /\ DriversSound /\ UseIInv /\ [Next]_vars =>
        [\A a \in Addrs :
           (/\ BusyWith("write", a) /\ port' = Free
            /\ WriteStatus(call[a].ret.msg) = "asynSuccess"
            /\ SettingOf[port.req.mtype] \in Verifying) =>
             params'[a][port.req.mtype] = hw'[a][SettingOf[port.req.mtype]]]_vars
  <2> SUFFICES ASSUME PortIInv, DriversSound, UseIInv, Next, NEW a \in Addrs,
                      BusyWith("write", a), port' = Free,
                      WriteStatus(call[a].ret.msg) = "asynSuccess",
                      SettingOf[port.req.mtype] \in Verifying
               PROVE  params'[a][port.req.mtype] = hw'[a][SettingOf[port.req.mtype]]
    OBVIOUS
  <2>1. WriteEnd(a)
    BY OnlyEndFrees DEF BusyWith
  <2>2. hw' = hw /\ call[a].pc = "done" /\ params' = params
    BY <2>1 DEF WriteEnd, RequestReturn
  <2>3. params[a][port.req.mtype] = port.req.value
    BY DEF BusyWith, UseIInv, HandlerAsks
  <2>4. /\ port.req \in PortWrites
        /\ hw[a][SettingOf[port.req.mtype]] = Argument(port.req)
    BY <2>2, AcknowledgedWrite
  <2>5. port.req.dtype = "Int32"
    BY <2>4 DEF PortWrites, writeFloat64Messages, SettingOf, Verifying
  <2>6. Argument(port.req) = port.req.value
    BY <2>5 DEF Argument, asInteger
  <2> QED BY <2>2, <2>3, <2>4, <2>6
<1> QED BY <1>1, PortIsSound, PTL DEF Spec, PortSound, SetpointIsWritten

\* While an address is connected its registers only change on behalf of the write
\* the port is busy with: no write that timed out can land after the address was
\* connected again (request, flush, slsDetDriver.cpp:541-589).
THEOREM OnlyCurrentWritesLand == Spec => OnlyCurrentWriteLands
<1>1. PortIInv /\ DriversSound /\ UseIInv /\ [Next]_vars =>
        [\A a \in Addrs :
           isConnected(a) /\ hw'[a] # hw[a] =>
             /\ BusyWith("write", a)
             /\ hw'[a] = [hw[a] EXCEPT ![SettingOf[port.req.mtype]] = Argument(port.req)]]_vars
  <2> SUFFICES ASSUME PortIInv, DriversSound, UseIInv, Next, NEW a \in Addrs,
                      isConnected(a), hw'[a] # hw[a]
               PROVE  /\ BusyWith("write", a)
                      /\ hw'[a] = [hw[a] EXCEPT ![SettingOf[port.req.mtype]] = Argument(port.req)]
    OBVIOUS
  <2>1. DriverTypeOK /\ DriverInv(a)
    BY DEF DriversSound, DriverIInv, Addrs
  <2>2. ProcessSetting(a)
    <3>1. [DriverNext]_driverVars
      BY PortStepsAreDriverSteps
    <3>2. PICK d \in Drivers : AnyStep(d)
      BY <3>1 DEF DriverNext, AnyStep, driverVars
    <3>3. d = a
      BY <2>1, <3>2, OthersUnchanged DEF Addrs
    <3> QED BY <3>2, <3>3 DEF AnyStep, DriverStep, CallerStep, RequestTimeout, WorkerStep,
       RequestBegin, FlushReceive, SendRequest, ReceiveReply, FlushTimeout, ReplyTimeout,
       GiveUp, RequestReturn, Trouble, WorkerReceive, WorkerInitialize, ProcessOnlineCheck,
       ProcessSensorRead, ProcessUnsupported, WorkerReply
  <2> DEFINE req == thread[a].env.msg
             s == SettingOf[req.mtype]
  <2>3. PICK reg \in Landed(a, s, Argument(req)) : hw' = [hw EXCEPT ![a][s] = reg]
    BY <2>2 DEF ProcessSetting
  <2>4. hw \in [Drivers -> [Settings -> Int]] /\ s \in Settings
    BY <2>1, <2>2, SettingOfType DEF ProcessSetting, DriverTypeOK
  <2>5. reg = Argument(req) /\ ~(Argument(req) < 0)
    BY <2>3, <2>4 DEF Landed, Addrs
  <2>6. hw'[a] = [hw[a] EXCEPT ![s] = Argument(req)]
    BY <2>3, <2>4, <2>5 DEF Addrs
  <2>7. thread[a].pc # "receive" /\ pending[a] = 1
    BY <2>1, <2>2, WorkerAlone DEF ProcessSetting, Processing, Addrs
  <2>8. call[a].pc \in {"wait", "done"}
    <3>1. call[a].pc \in {"idle", "flush", "wait", "done"}
      BY <2>1 DEF DriverTypeOK, Call, Addrs
    <3>2. call[a].pc \notin {"idle", "flush"}
      BY <2>7 DEF UseIInv, UseInv, QuietBefore
    <3> QED BY <3>1, <3>2
  <2>9. req = call[a].req
    BY <2>7, <2>8 DEF UseIInv, UseInv, LateIsOwn, DriversSound, AnswerInv, TrueOnTheWay, Addrs
  <2>10. port.pc # "idle" /\ port.addr = a /\ req = port.req
    BY <2>8, <2>9 DEF UseIInv, CallIsHandlers
  <2>11. port.pc # "connect"
    BY <2>10 DEF PortIInv, HandlerKeepsItsAddress
  <2>12. port.pc # "read"
    BY <2>5, <2>10 DEF UseIInv, HandlerAsks, PortReads, Argument
  <2>13. BusyWith("write", a)
    BY <2>10, <2>11, <2>12 DEF PortIInv, PortTypeOK, Free, Busy, BusyWith
  <2> QED BY <2>6, <2>10, <2>13
<1> QED BY <1>1, PortIsSound, PTL DEF Spec, PortSound, OnlyCurrentWriteLands

-----------------------------------------------------------------------------
(* The count of a port with one address *)

OneAddress == \A a, b \in Addrs : a = b

\* The copy that initialize() takes before it blocks is exact, too.
CountInv ==
  /\ NumDetCountsConnected
  /\ port.pc = "connect" => port.numDet = Cardinality(Connected)

\* uninitialize() takes a connected address out of the count and of Connected.
LEMMA CountedOut ==
  ASSUME PortIInv, CountInv, NEW a \in Addrs, isConnected(a), uninitialize(a), port' = Free
  PROVE  CountInv'
<1>1. /\ numDet \in Int /\ numDet' = numDet - 1
      /\ ~isConnected(a)' /\ OthersStay(a)
  BY Uninitialized
<1>2. numDet = Cardinality(Connected)
  BY <1>1, UndefinedAssumption DEF CountInv, NumDetCountsConnected
<1>3. Connected' = Connected \ {a} /\ a \in Connected
  BY <1>1 DEF Connected, isConnected, OthersStay
<1>4. Cardinality(Connected') = Cardinality(Connected) - 1
  BY <1>3, ConnectedIsFinite, FS_RemoveElement
<1> QED BY <1>1, <1>2, <1>4 DEF CountInv, NumDetCountsConnected, Free

LEMMA CountInductive ==
  ASSUME OneAddress, PortIInv, CountInv, [Next]_vars
  PROVE  CountInv'
<1>1. CASE UNCHANGED <<port, connStatus, numDet>>
  BY <1>1 DEF CountInv, NumDetCountsConnected, Connected, isConnected
<1>2. ASSUME UNCHANGED <<connStatus, numDet>>, port'.pc # "connect" PROVE CountInv'
  BY <1>2 DEF CountInv, NumDetCountsConnected, Connected, isConnected
<1>3. ASSUME NEW a \in Addrs, ConnectBegin(a) PROVE CountInv'
  <2>1. ~isConnected(a)
    BY <1>3 DEF ConnectBegin, PortIInv, ManagerAgrees
  <2>2. ~isConnected(a)'
    BY <1>3 DEF ConnectBegin, isConnected, DISCONNECTED, CONNECTED
  <2>3. Connected = {} /\ Connected' = {}
    BY <2>1, <2>2 DEF OneAddress, Connected
  <2>4. Cardinality(Connected) = 0 /\ Cardinality(Connected') = 0
    BY <2>3, FS_EmptySet
  <2>5. numDet' = 0
    <3>1. CASE dets[a]
      BY <1>3, <2>4, <3>1, UndefinedAssumption DEF ConnectBegin, PortIInv, ConnectedAreMade, CountInv,
         NumDetCountsConnected
    <3>2. CASE ~dets[a]
      BY <1>3, <3>2 DEF ConnectBegin
    <3> QED BY <3>1, <3>2
  <2>6. port'.numDet = numDet'
    BY <1>3 DEF ConnectBegin, Blocked
  <2> QED BY <2>4, <2>5, <2>6 DEF CountInv, NumDetCountsConnected
<1>4. ASSUME NEW a \in Addrs, ConnectEnd(a) PROVE CountInv'
  <2>1. /\ ~isConnected(a) /\ port.numDet = Cardinality(Connected) /\ port'.pc # "connect"
    BY <1>4 DEF ConnectEnd, BusyWith, PortIInv, HandlerKeepsItsAddress, CountInv, Free
  <2>2. CASE UNCHANGED <<asynConn, connStatus, numDet>>
    BY <1>2, <2>1, <2>2
  <2>3. CASE call[a].ret.msg.mtype = "Ok"
    <3>1. /\ numDet' = port.numDet + 1 /\ isConnected(a)'
          /\ \A b \in Addrs \ {a} : connStatus'[b] = connStatus[b]
      BY <1>4, <2>3 DEF ConnectEnd, PortIInv, PortTypeOK, isConnected
    <3>2. Connected' = Connected \cup {a} /\ a \notin Connected
      BY <2>1, <3>1 DEF Connected, isConnected
    <3>3. Cardinality(Connected') = Cardinality(Connected) + 1
      BY <3>2, ConnectedIsFinite, FS_AddElement
    <3> QED BY <2>1, <3>1, <3>3 DEF CountInv, NumDetCountsConnected
  <2> QED BY <1>4, <2>2, <2>3 DEF ConnectEnd
<1>5. ASSUME NEW a \in Addrs,
             \/ Disconnect(a)
             \/ \E m \in PortReads : ReadBegin(a, m)
             \/ \E m \in PortWrites : WriteRefused(a, m) \/ WriteBegin(a, m)
             \/ \E value \in {OFF, ON} : Enable(a, value)
      PROVE  CountInv'
  <2>1. CASE Disconnect(a)
    BY <2>1, CountedOut DEF Disconnect, PortIInv, ManagerAgrees
  <2>2. ASSUME NEW m \in PortReads, ReadBegin(a, m) PROVE CountInv'
    BY <1>2, <2>2 DEF ReadBegin, Blocked
  <2>3. ASSUME NEW m \in PortWrites, WriteRefused(a, m) \/ WriteBegin(a, m) PROVE CountInv'
    BY <1>2, <2>3 DEF WriteRefused, WriteBegin, Blocked, Free
  <2>4. ASSUME NEW value \in {OFF, ON}, Enable(a, value) PROVE CountInv'
    BY <1>2, <2>4, CountedOut DEF Enable, Free
  <2> QED BY <1>5, <2>1, <2>2, <2>3, <2>4
<1>6. ASSUME NEW a \in Addrs, ReadEnd(a) \/ WriteEnd(a) PROVE CountInv'
  <2>1. isConnected(a) /\ port' = Free
    BY <1>6 DEF ReadEnd, WriteEnd, BusyWith, PortIInv, HandlerKeepsItsAddress
  <2>2. uninitialize(a) \/ UNCHANGED <<connStatus, numDet, asynConn>>
    BY <1>6 DEF ReadEnd, WriteEnd
  <2> QED BY <1>2, <2>1, <2>2, CountedOut DEF Free
<1> QED
  BY <1>1, <1>3, <1>4, <1>5, <1>6 DEF Next, HandlerBegin, HandlerEnd, vars, portVars

\* SLS_NUM_DETS of a port with one address says whether it is connected
\* (initialize, 268-290; uninitialize).  With two it does not: run count.
THEOREM OneAddressIsCounted == OneAddress => (Spec => []NumDetCountsConnected)
<1> SUFFICES ASSUME OneAddress PROVE Spec => []NumDetCountsConnected
  OBVIOUS
<1>1. Init => CountInv
  BY DEF Init, PortInit, CountInv, NumDetCountsConnected, Free
<1>2. PortIInv /\ CountInv /\ [Next]_vars => CountInv'
  BY CountInductive
<1>3. CountInv => NumDetCountsConnected
  BY DEF CountInv
<1> QED BY <1>1, <1>2, <1>3, PortInvariant, PTL DEF Spec
=============================================================================
