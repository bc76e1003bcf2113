---------------------------- MODULE MCSlsDetRecords ----------------------------
(***************************************************************************)
(* Model checking of the records of one module.                            *)
(***************************************************************************)
EXTENDS SlsDetRecords

\* The online check, and a readback and a setpoint that can each lose the
\* connection.
MCRequests ==
  {Plain("CheckOnline"), Plain("ReadRunStatus"), Typed("WriteHighVoltage", "Int32", 1)}

MCReadings == {3}
=============================================================================
