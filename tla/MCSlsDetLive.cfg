SPECIFICATION Spec
CONSTANTS
  Drivers = {d1}
  Capacity = 4
  Serials = {s1, s2}
  InitOutcomes = {"ok", "throwNew", "wrongCount", "throwHostname"}
  Requests <- MCRequestsLive
  Readings <- MCReadings
  Undefined = Undefined
INVARIANTS
  ReplyFitsParameter
PROPERTIES
  PortNeverHangs
  Reconnects
