SPECIFICATION RecordsSpec
CONSTANTS
  Drivers = {d1}
  Capacity = 4
  Serials = {s1, s2}
  InitOutcomes = {"ok", "wrongCount", "throwHostname"}
  Requests <- MCRequests
  Readings <- MCReadings
  Undefined = Undefined
  RingSize = 1
INVARIANTS
  RecordsSettle
PROPERTIES
  RecordsReconnect
