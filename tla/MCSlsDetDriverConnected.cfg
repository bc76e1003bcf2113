SPECIFICATION DriverSpec
CONSTANTS
  Drivers = {d1}
  Capacity = 4
  Serials = {s1, s2}
  InitOutcomes = {"ok", "throwNew", "wrongCount", "throwHostname"}
  Requests <- MCFewRequests
  Readings <- MCReadings
INVARIANTS
  ProcessOnlyIfConnected
