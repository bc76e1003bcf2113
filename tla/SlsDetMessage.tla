--------------------------- MODULE SlsDetMessage ---------------------------
(***************************************************************************)
(* The tagged value that the port driver and a detector driver exchange    *)
(* (slsDetMessage.h, slsDetMessage.cpp).                                   *)
(*                                                                         *)
(* The payload of every data type is an integer here: a string or a raw    *)
(* identifier is a number that stands for it, and a Float64 (a temperature *)
(* in degrees C) is counted in units of a tenth of a millidegree, so that  *)
(* the truncation to millidegrees in thresholdTemperature is visible.      *)
(***************************************************************************)
EXTENDS Integers

ReplyTypes == {"NoOp", "Ok", "Error", "Exit", "Invalid", "Timeout", "Failed"}

ReadTypes ==
  {"ReadHostname", "ReadDetType", "ReadRunStatus", "ReadNumDetectors",
   "ReadSerialnum", "ReadFirmwareVer", "ReadSoftwareVer", "ReadFpgaTemp",
   "ReadAdcTemp", "ReadTempThreshold", "ReadTempControl", "ReadTempEvent",
   "ReadPowerChip", "ReadHighVoltage", "ReadClockDivider", "ReadGainMode"}

WriteInt32Types ==
  {"WriteTempControl", "WriteTempEvent", "WritePowerChip",
   "WriteHighVoltage", "WriteClockDivider", "WriteGainMode"}

WriteFloat64Types == {"WriteTempThreshold"}

WriteTypes == WriteInt32Types \cup WriteFloat64Types

MessageType == ReplyTypes \cup {"CheckOnline"} \cup ReadTypes \cup WriteTypes

DataType == {"None", "Int32", "Int64", "Float64", "String"}

Message == [mtype : MessageType, dtype : DataType, value : Int]

\* A message with no payload: the storage is zeroed.
Plain(m) == [mtype |-> m, dtype |-> "None", value |-> 0]

\* A message built with a data type and then given a value by the setter
\* of that type.
Typed(m, t, v) == [mtype |-> m, dtype |-> t, value |-> v]

NoMessage == Plain("NoOp")

asInteger(msg) == IF msg.dtype = "Int32" THEN msg.value ELSE 0

asDouble(msg) == IF msg.dtype = "Float64" THEN msg.value ELSE 0
=============================================================================
