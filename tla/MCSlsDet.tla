------------------------------ MODULE MCSlsDet ------------------------------
(***************************************************************************)
(* Model checking of a port with one or two modules.                       *)
(***************************************************************************)
EXTENDS SlsDet, TLC

\* One module: a verified setting with final errors that is written and read
\* back, a verified one with forgiven errors and a negative write, and a setting
\* that is not verified, read and written.
MCRequestsOne ==
  {Plain("CheckOnline"),
   Plain("ReadHighVoltage"), Typed("WriteHighVoltage", "Int32", 1),
   Typed("WriteGainMode", "Int32", 1), Typed("WriteGainMode", "Int32", -1),
   Plain("ReadTempThreshold"), Typed("WriteTempThreshold", "Float64", 25)}

\* Two modules: connecting and disconnecting is all the count depends on.
MCRequestsTwo == {Plain("CheckOnline")}

\* Liveness: a write, and a read of each interface, that can each lose the
\* connection.
MCRequestsLive ==
  {Plain("CheckOnline"), Plain("ReadRunStatus"), Plain("ReadFpgaTemp"),
   Plain("ReadSerialnum"), Typed("WriteHighVoltage", "Int32", 1)}

MCReadings == {3}

\* The addresses are interchangeable, and so are the serials.
MCSymmetry == Permutations(Drivers) \cup Permutations(Serials)
=============================================================================
