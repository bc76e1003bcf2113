INIT Init
NEXT Next
CONSTANTS
  Drivers = {d1}
  Capacity = 4
  Serials = {s1, s2}
  InitOutcomes = {"ok", "throwNew", "wrongCount", "throwHostname"}
  Requests <- MCRequestsOne
  Readings <- MCReadings
  Undefined = Undefined
INVARIANTS
  PortTypeOK
  ConnectedIsUsable
  DisabledIsDisconnected
  NumDetCountsConnected
  AcknowledgedWriteHolds
PROPERTIES
  ReadIsCurrent
  SetpointIsWritten
  OnlyCurrentWriteLands
