--------------------------- MODULE MCSlsDetDriver ---------------------------
(***************************************************************************)
(* Model checking of one driver.                                           *)
(***************************************************************************)
EXTENDS SlsDetDriver

\* One request of every kind that process() tells apart: the online check, a
\* sensor, a verified setting whose errors are final and one whose errors are
\* forgiven, a setting that is not verified (with a threshold that is not a
\* whole number of millidegrees), a negative write and an unsupported message.
MCRequests ==
  {Plain("CheckOnline"), Plain("ReadFpgaTemp"),
   Plain("ReadHighVoltage"), Typed("WriteHighVoltage", "Int32", 1),
   Typed("WriteGainMode", "Int32", 1), Typed("WriteGainMode", "Int32", -1),
   Typed("WriteTempThreshold", "Float64", 25), Plain("ReadTempThreshold"),
   Plain("NoOp")}

MCReadings == {3}

\* Enough to connect and to use a connection.
MCFewRequests == {Plain("CheckOnline"), Typed("WriteHighVoltage", "Int32", 1)}
=============================================================================
