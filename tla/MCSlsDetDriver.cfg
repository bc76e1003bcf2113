SPECIFICATION DriverSpec
CONSTANTS
  Drivers = {d1}
  Capacity = 4
  Serials = {s1, s2}
  InitOutcomes = {"ok", "throwNew", "wrongCount", "throwHostname"}
  Requests <- MCRequests
  Readings <- MCReadings
INVARIANTS
  DriverTypeOK
  PendingCountsInFlight
  ReplyMatchesCall
  AnswerIsTrue
PROPERTIES
  LateWriteFenced
  ImplementsRequestReply
  CallReturns
