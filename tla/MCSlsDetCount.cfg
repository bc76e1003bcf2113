INIT Init
NEXT Next
CONSTANTS
  Drivers = {d1, d2}
  Capacity = 4
  Serials = {s1, s2}
  InitOutcomes = {"ok", "wrongCount"}
  Requests <- MCRequestsTwo
  Readings <- MCReadings
  Undefined = Undefined
SYMMETRY MCSymmetry
INVARIANTS
  NumDetCountsConnected
