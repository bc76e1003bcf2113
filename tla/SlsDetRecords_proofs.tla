------------------------- MODULE SlsDetRecords_proofs -------------------------
(***************************************************************************)
(* Proofs about the records of a module, for any number of modules, any    *)
(* ring buffer and any order in which writes, lost connections and status  *)
(* changes reach the records.                                              *)
(***************************************************************************)
EXTENDS SlsDetRecords, SlsDet_proofs

Statuses == {DISCONNECTED, CONNECTED}

RecordTypes ==
  /\ ENABLED_VAL \in [Addrs -> {OFF, ON}] /\ enabling \in [Addrs -> BOOLEAN]
  /\ CONN_STATUS_VAL \in [Addrs -> Statuses] /\ ring \in [Addrs -> Seq(Statuses)]
  /\ DO_CONN_POLL \in [Addrs -> BOOLEAN] /\ polling \in [Addrs -> BOOLEAN]

-----------------------------------------------------------------------------
(* The port under the records *)

\* The steps of the records in which the port runs a handler.
PortServes ==
  \E a \in Addrs :
    \/ EnabledServed(a) \/ ConnectForRequest(a) \/ PortReturns(a)
    \/ \E m \in PortReads : Readback(a, m)
    \/ \E m \in PortWrites : Setpoint(a, m)

\* The records ask nothing of the port that the port does not allow, and what a
\* handler changes is put into the ring buffers.
LEMMA PortServesAsPort ==
  ASSUME RecordTypes, PortServes
  PROVE  Next /\ Notify /\ UNCHANGED CONN_STATUS_VAL
<1>1. ASSUME NEW a \in Addrs, HandlerBegin(a) \/ HandlerEnd(a) PROVE Next
  BY <1>1 DEF Next
<1>2. ASSUME NEW a \in Addrs, EnabledServed(a) PROVE Next /\ Notify /\ UNCHANGED CONN_STATUS_VAL
  <2>1. ENABLED_VAL[a] \in {OFF, ON}
    BY DEF RecordTypes
  <2> QED BY <1>1, <1>2, <2>1 DEF EnabledServed, HandlerBegin
<1>3. ASSUME NEW a \in Addrs, ConnectForRequest(a) \/ PortReturns(a)
      PROVE  Next /\ Notify /\ UNCHANGED CONN_STATUS_VAL
  BY <1>1, <1>3 DEF ConnectForRequest, PortReturns, HandlerBegin
<1>4. ASSUME NEW a \in Addrs, NEW m \in PortReads, Readback(a, m)
      PROVE  Next /\ Notify /\ UNCHANGED CONN_STATUS_VAL
  BY <1>1, <1>4 DEF Readback, HandlerBegin
<1>5. ASSUME NEW a \in Addrs, NEW m \in PortWrites, Setpoint(a, m)
      PROVE  Next /\ Notify /\ UNCHANGED CONN_STATUS_VAL
  BY <1>1, <1>5 DEF Setpoint, HandlerBegin
<1> QED BY <1>2, <1>3, <1>4, <1>5 DEF PortServes

LEMMA RecordStepsArePortSteps == RecordTypes /\ [RecordsNext]_allVars => [Next]_vars
<1> SUFFICES ASSUME RecordTypes, [RecordsNext]_allVars PROVE [Next]_vars
  OBVIOUS
<1>1. CASE UNCHANGED allVars
  BY <1>1 DEF allVars
<1>2. CASE PortServes
  BY <1>2, PortServesAsPort
<1>3. ASSUME NEW a \in Addrs,
             \/ \E value \in {OFF, ON} : PutEnabled(a, value)
             \/ StatusProcessed(a) \/ PollScan(a) \/ PollServed(a)
      PROVE  [Next]_vars
  BY <1>3 DEF PutEnabled, StatusProcessed, PollScan, PollServed
<1>4. ASSUME NEW a \in Addrs, DriverStep(a), UNCHANGED <<portVars, recordVars>> PROVE [Next]_vars
  BY <1>4 DEF Next
<1> QED BY <1>1, <1>2, <1>3, <1>4 DEF RecordsNext, PortServes

\* A handler leaves the status of an address alone or sets it.
LEMMA StatusChanges ==
  ASSUME PortTypeOK, Next, NEW b \in Addrs
  PROVE  connStatus'[b] = connStatus[b] \/ connStatus'[b] \in Statuses
<1> USE DEF Statuses
<1>1. connStatus \in [Addrs -> Maybe(Statuses)]
  BY DEF PortTypeOK
<1>2. ASSUME NEW a \in Addrs,
             connStatus' \in {connStatus, [connStatus EXCEPT ![a] = DISCONNECTED],
                              [connStatus EXCEPT ![a] = CONNECTED]}
      PROVE  connStatus'[b] = connStatus[b] \/ connStatus'[b] \in Statuses
  BY <1>1, <1>2
<1>3. ASSUME NEW a \in Addrs, HandlerBegin(a)
      PROVE  connStatus' \in {connStatus, [connStatus EXCEPT ![a] = DISCONNECTED]}
  BY <1>3 DEF HandlerBegin, ConnectBegin, Disconnect, ReadBegin, WriteRefused, WriteBegin, Enable,
     uninitialize
<1>4. ASSUME NEW a \in Addrs, HandlerEnd(a)
      PROVE  connStatus' \in {connStatus, [connStatus EXCEPT ![a] = DISCONNECTED],
                              [connStatus EXCEPT ![a] = CONNECTED]}
  BY <1>4 DEF HandlerEnd, ConnectEnd, ReadEnd, WriteEnd, uninitialize
<1>5. ASSUME UNCHANGED portVars
      PROVE  connStatus' = connStatus
  BY <1>5 DEF portVars
<1> QED BY <1>2, <1>3, <1>4, <1>5 DEF Next

-----------------------------------------------------------------------------
(* Ring buffers *)

Newest(q) == q[Len(q)]

\* A full ring buffer loses its oldest value, never the one just put into it.
LEMMA RingKeepsNewest ==
  ASSUME NEW q \in Seq(Statuses), NEW x \in Statuses, NEW r, r = Append(q, x),
         NEW s, s = IF Len(r) > RingSize THEN Tail(r) ELSE r
  PROVE  s \in Seq(Statuses) /\ s # <<>> /\ Newest(s) = x
<1>1. RingSize \in Nat \ {0}
  BY RecordsRingSize
<1>2. r \in Seq(Statuses) /\ Len(r) = Len(q) + 1 /\ Len(q) \in Nat /\ r[Len(r)] = x /\ r # <<>>
  OBVIOUS
<1>3. CASE Len(r) > RingSize
  <2>1. Len(r) \in Nat /\ Len(r) > 1
    BY <1>1, <1>2, <1>3
  <2>2. /\ Tail(r) \in Seq(Statuses) /\ Len(Tail(r)) = Len(r) - 1
        /\ \A i \in 1..(Len(r) - 1) : Tail(r)[i] = r[i + 1]
    BY <1>2
  <2>3. Tail(r)[Len(r) - 1] = r[Len(r)]
    BY <2>1, <2>2
  <2>4. Tail(r) # <<>>
    BY <2>1, <2>2
  <2> QED BY <1>2, <1>3, <2>2, <2>3, <2>4 DEF Newest
<1>4. CASE ~(Len(r) > RingSize)
  BY <1>2, <1>4 DEF Newest
<1> QED BY <1>3, <1>4

\* What is taken out of a ring buffer is its newest value when nothing is left.
LEMMA RingTaken ==
  ASSUME NEW q \in Seq(Statuses), q # <<>>
  PROVE  /\ Head(q) \in Statuses /\ Tail(q) \in Seq(Statuses)
         /\ Tail(q) = <<>> => Head(q) = Newest(q)
         /\ Tail(q) # <<>> => Newest(Tail(q)) = Newest(q)
<1>1. /\ Len(q) \in Nat /\ Len(q) > 0 /\ Head(q) = q[1] /\ Head(q) \in Statuses
      /\ Tail(q) \in Seq(Statuses) /\ Len(Tail(q)) = Len(q) - 1
      /\ \A i \in 1..(Len(q) - 1) : Tail(q)[i] = q[i + 1]
  OBVIOUS
<1>2. Tail(q) = <<>> <=> Len(q) = 1
  BY <1>1
<1>3. Len(q) > 1 => Tail(q)[Len(q) - 1] = q[Len(q)]
  BY <1>1
<1> QED BY <1>1, <1>2, <1>3 DEF Newest

-----------------------------------------------------------------------------
(* The invariant of the records *)

\* The status that the record shows when all changes have reached it.
Latest(a) == IF ring[a] = <<>> THEN CONN_STATUS_VAL[a] ELSE Newest(ring[a])

StatusArrives == \A a \in Addrs : Latest(a) = Known(connStatus[a])

\* Only a write of ENABLED that the port has not served is ahead of the poll.
PollFollows ==
  \A a \in Addrs :
    ~enabling[a] => DO_CONN_POLL[a] = ConnPoll(ENABLED_VAL[a], CONN_STATUS_VAL[a])

RecordsIInv == RecordTypes /\ StatusArrives /\ PollFollows

LEMMA PollIsBoolean == \A value, conn : ConnPoll(value, conn) \in BOOLEAN
BY DEF ConnPoll

\* What the port tells the records arrives in the ring buffers.
LEMMA NotifyArrives ==
  ASSUME PortTypeOK, RecordTypes, StatusArrives, Next, Notify, UNCHANGED CONN_STATUS_VAL
  PROVE  ring' \in [Addrs -> Seq(Statuses)] /\ StatusArrives'
<1>1. ASSUME NEW a \in Addrs
      PROVE  Notified(a) \in Seq(Statuses) /\ ring'[a] = Notified(a) /\ Latest(a)' = Known(connStatus[a])'
  <2>1. ring'[a] = Notified(a)
    BY DEF Notify
  <2>2. ring[a] \in Seq(Statuses)
    BY DEF RecordTypes
  <2>3. CASE connStatus'[a] = connStatus[a]
    <3>1. ring'[a] = ring[a]
      BY <2>1, <2>3 DEF Notified
    <3> QED BY <2>1, <2>2, <2>3, <3>1 DEF StatusArrives, Latest
  <2>4. CASE connStatus'[a] # connStatus[a]
    <3>1. connStatus'[a] \in Statuses
      BY <2>4, StatusChanges
    <3>2. PICK q \in Seq(Statuses), x \in Statuses : q = ring[a] /\ x = connStatus'[a]
      BY <2>2, <3>1
    <3>3. PICK r, s : /\ r = Append(q, x) /\ s = Notified(a)
                      /\ s = IF Len(r) > RingSize THEN Tail(r) ELSE r
      BY <2>4, <3>2 DEF Notified
    <3>4. s \in Seq(Statuses) /\ s # <<>> /\ Newest(s) = x
      BY <3>3, RingKeepsNewest
    <3>5. /\ Notified(a) \in Seq(Statuses) /\ Notified(a) # <<>>
          /\ Newest(Notified(a)) = connStatus'[a]
      BY <3>2, <3>3, <3>4
    <3>6. Known(connStatus[a])' = connStatus'[a]
      BY <3>1, UndefinedAssumption DEF Known, Statuses, DISCONNECTED, CONNECTED
    <3> QED BY <2>1, <3>5, <3>6 DEF Latest
  <2> QED BY <2>3, <2>4
<1>2. ring' = [a \in Addrs |-> Notified(a)]
  BY DEF Notify
<1> QED BY <1>1, <1>2 DEF StatusArrives

LEMMA RecordsInductive ==
  ASSUME PortTypeOK, RecordsIInv, [RecordsNext]_allVars
  PROVE  RecordsIInv'
<1> USE DEF RecordsIInv
<1>1. CASE PortServes
  <2>1. ring' \in [Addrs -> Seq(Statuses)] /\ StatusArrives' /\ UNCHANGED CONN_STATUS_VAL
    BY <1>1, PortServesAsPort, NotifyArrives
  <2>2. ASSUME NEW a \in Addrs, EnabledServed(a) PROVE RecordTypes' /\ PollFollows'
    <3>1. ConnPoll(ENABLED_VAL[a], CONN_STATUS_VAL[a]) \in BOOLEAN
      BY PollIsBoolean
    <3>2. /\ enabling' = [enabling EXCEPT ![a] = FALSE]
          /\ DO_CONN_POLL' =
               [DO_CONN_POLL EXCEPT ![a] = ConnPoll(ENABLED_VAL[a], CONN_STATUS_VAL[a])]
          /\ UNCHANGED <<ENABLED_VAL, CONN_STATUS_VAL, polling>>
      BY <2>2 DEF EnabledServed
    <3>3. RecordTypes'
      BY <2>1, <3>1, <3>2 DEF RecordTypes
    <3>4. ASSUME NEW b \in Addrs, ~enabling'[b]
          PROVE  DO_CONN_POLL'[b] = ConnPoll(ENABLED_VAL'[b], CONN_STATUS_VAL'[b])
      <4>1. CASE b = a
        BY <3>2, <4>1 DEF RecordTypes
      <4>2. CASE b # a
        <5>1. enabling'[b] = enabling[b] /\ DO_CONN_POLL'[b] = DO_CONN_POLL[b]
          BY <3>2, <4>2 DEF RecordTypes
        <5> QED BY <3>2, <3>4, <5>1 DEF PollFollows
      <4> QED BY <4>1, <4>2
    <3> QED BY <3>3, <3>4 DEF PollFollows
  <2>3. ASSUME ~\E a \in Addrs : EnabledServed(a) PROVE RecordTypes' /\ PollFollows'
    <3>1. /\ UNCHANGED <<ENABLED_VAL, enabling, CONN_STATUS_VAL, DO_CONN_POLL>>
          /\ polling' = polling \/ \E a \in Addrs : polling' = [polling EXCEPT ![a] = FALSE]
      BY <1>1, <2>3 DEF PortServes, ConnectForRequest, PortReturns, Readback, Setpoint
    <3>2. polling' \in [Addrs -> BOOLEAN]
      BY <3>1 DEF RecordTypes
    <3> QED BY <2>1, <3>1, <3>2 DEF RecordTypes, PollFollows
  <2> QED BY <2>1, <2>2, <2>3
<1>2. ASSUME NEW a \in Addrs, NEW value \in {OFF, ON}, PutEnabled(a, value) PROVE RecordsIInv'
  <2>1. /\ ENABLED_VAL' = [ENABLED_VAL EXCEPT ![a] = value]
        /\ enabling' = [enabling EXCEPT ![a] = TRUE]
        /\ UNCHANGED <<connStatus, CONN_STATUS_VAL, ring, DO_CONN_POLL, polling>>
    BY <1>2 DEF PutEnabled, vars, portVars
  <2>2. RecordTypes'
    BY <2>1 DEF RecordTypes
  <2>3. StatusArrives'
    BY <2>1 DEF StatusArrives, Latest
  <2>4. ASSUME NEW b \in Addrs, ~enabling'[b]
        PROVE  DO_CONN_POLL'[b] = ConnPoll(ENABLED_VAL'[b], CONN_STATUS_VAL'[b])
    <3>1. b # a /\ ~enabling[b] /\ ENABLED_VAL'[b] = ENABLED_VAL[b]
      BY <2>1, <2>4 DEF RecordTypes
    <3> QED BY <2>1, <3>1 DEF PollFollows
  <2> QED BY <2>2, <2>3, <2>4 DEF PollFollows
<1>3. ASSUME NEW a \in Addrs, StatusProcessed(a) PROVE RecordsIInv'
  <2> DEFINE status == Head(ring[a])
  <2>1. /\ ring[a] # <<>> /\ UNCHANGED <<connStatus, ENABLED_VAL, enabling, polling>>
        /\ CONN_STATUS_VAL' = [CONN_STATUS_VAL EXCEPT ![a] = status]
        /\ ring' = [ring EXCEPT ![a] = Tail(ring[a])]
        /\ DO_CONN_POLL' = [DO_CONN_POLL EXCEPT ![a] = ConnPoll(ENABLED_VAL[a], status)]
    BY <1>3 DEF StatusProcessed, vars, portVars
  <2>2. /\ status \in Statuses /\ Tail(ring[a]) \in Seq(Statuses)
        /\ Tail(ring[a]) = <<>> => status = Newest(ring[a])
        /\ Tail(ring[a]) # <<>> => Newest(Tail(ring[a])) = Newest(ring[a])
    BY <2>1, RingTaken DEF RecordTypes
  <2>3. ConnPoll(ENABLED_VAL[a], status) \in BOOLEAN
    BY PollIsBoolean
  <2> HIDE DEF status
  <2>4. RecordTypes'
    BY <2>1, <2>2, <2>3 DEF RecordTypes
  <2>5. ASSUME NEW b \in Addrs \ {a}
        PROVE  /\ ring'[b] = ring[b] /\ CONN_STATUS_VAL'[b] = CONN_STATUS_VAL[b]
               /\ DO_CONN_POLL'[b] = DO_CONN_POLL[b]
    BY <2>1 DEF RecordTypes
  <2>6. /\ ring'[a] = Tail(ring[a]) /\ CONN_STATUS_VAL'[a] = status
        /\ DO_CONN_POLL'[a] = ConnPoll(ENABLED_VAL[a], status)
    BY <2>1 DEF RecordTypes
  <2>7. Latest(a)' = Latest(a)
    BY <2>1, <2>2, <2>6 DEF Latest
  <2>8. StatusArrives'
    BY <2>1, <2>5, <2>7 DEF StatusArrives, Latest
  <2>9. PollFollows'
    BY <2>1, <2>5, <2>6 DEF PollFollows
  <2> QED BY <2>4, <2>8, <2>9
<1>4. ASSUME UNCHANGED <<connStatus, ENABLED_VAL, enabling, CONN_STATUS_VAL, ring, DO_CONN_POLL>>,
             polling' \in [Addrs -> BOOLEAN]
      PROVE  RecordsIInv'
  BY <1>4 DEF RecordTypes, StatusArrives, Latest, PollFollows
<1>5. ASSUME NEW a \in Addrs, PollScan(a) \/ PollServed(a) PROVE RecordsIInv'
  <2>1. polling' \in [Addrs -> BOOLEAN]
    BY <1>5 DEF PollScan, PollServed, RecordTypes
  <2> QED BY <1>4, <1>5, <2>1 DEF PollScan, PollServed, vars, portVars
<1>6. CASE UNCHANGED <<portVars, recordVars>>
  <2>1. polling' \in [Addrs -> BOOLEAN]
    BY <1>6 DEF recordVars, RecordTypes
  <2> QED BY <1>4, <1>6, <2>1 DEF portVars, recordVars
<1>7. CASE UNCHANGED allVars
  BY <1>6, <1>7 DEF allVars, vars
<1> QED BY <1>1, <1>2, <1>3, <1>5, <1>6, <1>7 DEF RecordsNext, PortServes

\* Under the records, too, everything known of the port holds.
LEMMA RecordsAreSound == RecordsSpec => [](PortSound /\ RecordsIInv)
<1>1. RecordsInit => PortSound /\ RecordsIInv
  <2> SUFFICES ASSUME RecordsInit PROVE PortSound /\ RecordsIInv
    OBVIOUS
  <2>1. PortSound
    BY PortInitiallySound DEF RecordsInit
  <2>2. RecordTypes
    BY DEF RecordsInit, RecordTypes, Statuses
  <2>3. StatusArrives
    BY DEF RecordsInit, Init, PortInit, StatusArrives, Latest, Known
  <2>4. \A a \in Addrs : DO_CONN_POLL[a] = FALSE /\ ENABLED_VAL[a] = OFF
    BY DEF RecordsInit
  <2>5. \A conn : ConnPoll(OFF, conn) = FALSE
    BY DEF ConnPoll, OFF, ON
  <2>6. PollFollows
    BY <2>4, <2>5 DEF PollFollows
  <2> QED BY <2>1, <2>2, <2>3, <2>6 DEF RecordsIInv
<1>2. PortSound => PortTypeOK
  BY DEF PortSound, PortIInv
<1>3. PortSound /\ RecordsIInv /\ [RecordsNext]_allVars => (PortSound /\ RecordsIInv)'
  BY <1>2, RecordStepsArePortSteps, PortStaysSound, RecordsInductive DEF RecordsIInv
<1> QED BY <1>1, <1>3, PTL DEF RecordsSpec

\* The record shows the port's status, and the poll is on exactly for an enabled
\* module that is not connected, once everything on its way has arrived, for any
\* size of the ring buffers (slsDetector.template:1-60).
THEOREM RecordsDoSettle == RecordsSpec => []RecordsSettle
<1>1. RecordsIInv => RecordsSettle
  BY DEF RecordsIInv, StatusArrives, PollFollows, Latest, RecordsSettle
<1> QED BY <1>1, RecordsAreSound, PTL

\* With records that poll, write and read back as they like the port still keeps
\* what it promises: connected addresses are usable, those switched off are not
\* connected, none is counted that is not there, and what is acknowledged holds
\* (slsDetector.template; drvAsynSlsDetPort.cpp:237-540).
THEOREM RecordsKeepThePort ==
  RecordsSpec => [](/\ ConnectedIsUsable /\ DisabledIsDisconnected
                    /\ NumDetNeverOvercounts /\ AcknowledgedWriteHolds)
<1>1. PortSound => DisabledIsDisconnected /\ NumDetNeverOvercounts
  BY DEF PortSound, PortIInv
<1>2. PortSound => AcknowledgedWriteHolds
  BY AcknowledgedWrite DEF PortSound, AcknowledgedWriteHolds
<1> QED BY <1>1, <1>2, ConnectedIsFit, RecordsAreSound, PTL
=============================================================================
