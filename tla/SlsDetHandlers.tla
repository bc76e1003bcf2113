--------------------------- MODULE SlsDetHandlers ---------------------------
(***************************************************************************)
(* What SlsDetDriver::process and the handlers it dispatches to answer,    *)
(* as functions of the request, of what the slsDetectorPackage call        *)
(* returned and of the error mask it left (slsDetDriver.cpp).              *)
(*                                                                         *)
(* An error mask is the set of its bits.  POS is the bit 1<<_pos of the    *)
(* one sub-detector of a driver; ELSEWHERE stands for every other bit.     *)
(***************************************************************************)
EXTENDS SlsDetMessage

POS == 0
ELSEWHERE == 1
ErrorBits == {POS, ELSEWHERE}

\* The library works in millidegrees: TEMP_UNITS is 1000 per degree, so one
\* millidegree is ten units of a Float64 payload.
PerMillidegree == 10

Settings ==
  {"tempThreshold", "tempControl", "tempEvent", "powerChip", "highVoltage",
   "clockDivider", "gainMode"}

\* The setting a request reads or writes.
SettingOf ==
  [ReadTempThreshold |-> "tempThreshold", WriteTempThreshold |-> "tempThreshold",
   ReadTempControl   |-> "tempControl",   WriteTempControl   |-> "tempControl",
   ReadTempEvent     |-> "tempEvent",     WriteTempEvent     |-> "tempEvent",
   ReadPowerChip     |-> "powerChip",     WritePowerChip     |-> "powerChip",
   ReadHighVoltage   |-> "highVoltage",   WriteHighVoltage   |-> "highVoltage",
   ReadClockDivider  |-> "clockDivider",  WriteClockDivider  |-> "clockDivider",
   ReadGainMode      |-> "gainMode",      WriteGainMode      |-> "gainMode"]

\* Handlers that answer Failed and clear the mask when the only error is the
\* sub-detector's own bit.
Forgiving == Settings \ {"powerChip", "highVoltage"}

\* Handlers that compare what the library returned with the value written.
Verifying == {"powerChip", "highVoltage", "clockDivider", "gainMode"}

\* The read-only quantities and the type of the answer.
SensorType ==
  [ReadHostname    |-> "String",  ReadDetType     |-> "Int32",
   ReadRunStatus   |-> "Int32",   ReadNumDetectors |-> "Int32",
   ReadSerialnum   |-> "String",  ReadFirmwareVer |-> "String",
   ReadSoftwareVer |-> "String",  ReadFpgaTemp    |-> "Float64",
   ReadAdcTemp     |-> "Float64"]

\* process() looks at the data type first and only then at the message type.
IsOnlineCheck(req) == req.dtype = "None" /\ req.mtype = "CheckOnline"

IsSensorRead(req) == req.dtype = "None" /\ req.mtype \in DOMAIN SensorType

IsSettingCall(req) ==
  \/ req.dtype = "None" /\ req.mtype \in ReadTypes \cap DOMAIN SettingOf
  \/ req.dtype = "Int32" /\ req.mtype \in WriteInt32Types
  \/ req.dtype = "Float64" /\ req.mtype \in WriteFloat64Types

IsUnsupported(req) ==
  ~ (IsOnlineCheck(req) \/ IsSensorRead(req) \/ IsSettingCall(req))

\* The argument of the library call: -1, the default of every handler, asks
\* for the current value; a temperature is truncated to millidegrees.
Argument(req) ==
  CASE req.dtype = "None"    -> -1
    [] req.dtype = "Int32"   -> asInteger(req)
    [] req.dtype = "Float64" -> IF asDouble(req) < 0 THEN -1
                                ELSE asDouble(req) \div PerMillidegree

\* checkOnline: the empty list of offline sub-detectors means success.
OnlineReply(online) == IF online THEN Plain("Ok") ELSE Plain("Error")

\* An Ok reply that carries data: a temperature is ret / TEMP_UNITS.
DataReply(t, ret) ==
  Typed("Ok", t, IF t = "Float64" THEN ret * PerMillidegree ELSE ret)

SensorReply(req, ret, mask) ==
  IF mask = {} THEN DataReply(SensorType[req.mtype], ret) ELSE Plain("Error")

SettingType(s) == IF s = "tempThreshold" THEN "Float64" ELSE "Int32"

\* The only error is the sub-detector's own bit and the handler forgives it.
Forgiven(s, mask) == mask = {POS} /\ s \in Forgiving

\* Fault: what the library returned is not compared with the value written.
SettingReplyUnverified(req, ret, mask) ==
  IF mask = {}
  THEN IF Argument(req) < 0 THEN DataReply(SettingType(SettingOf[req.mtype]), ret)
       ELSE Plain("Ok")
  ELSE IF Forgiven(SettingOf[req.mtype], mask) THEN Plain("Failed") ELSE Plain("Error")

SettingReply(req, ret, mask) ==
  LET s == SettingOf[req.mtype]
      arg == Argument(req)
  IN  IF mask = {}
      THEN IF arg < 0 THEN DataReply(SettingType(s), ret)
           ELSE IF s \in Verifying /\ ret # arg THEN Plain("Failed")
           ELSE Plain("Ok")
      ELSE IF Forgiven(s, mask) THEN Plain("Failed") ELSE Plain("Error")

\* clearAllErrorMask() is called where the own bit is forgiven.
SettingMask(s, mask) == IF Forgiven(s, mask) THEN {} ELSE mask
=============================================================================
