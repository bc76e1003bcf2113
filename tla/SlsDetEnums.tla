------------------------------ MODULE SlsDetEnums ------------------------------
(***************************************************************************)
(* The enumerations of the port: the constant tables, updateEnums(), which *)
(* pushes every table to the records through one scratch buffer when an    *)
(* address connects, and readEnum(), with which a record asks for one      *)
(* table (drvAsynSlsDetPort.cpp, drvAsynSlsDetPort.h).                     *)
(*                                                                         *)
(* A record keeps the menu it got last, at most as many entries as its     *)
(* record type has states (slsDetector.template): it shows a value of the  *)
(* port by the name its menu has for it, and a user who picks a name       *)
(* writes the value next to it.                                            *)
(***************************************************************************)
EXTENDS SlsDetDefs

CONSTANTS
  Addrs,    \* the addresses of the port
  Watched   \* the parameters whose records are modelled

VARIABLES
  step,     \* the next table of updateEnums(), or Idle
  scratch,  \* _enumStrings, _enumValues and _enumSeverities
  menus     \* what each record has got

enumsVars == <<step, scratch, menus>>

SLS_MAX_ENUMS == 16
MAX_ENUM_STRING_SIZE == 25

Entry(name, value, severity) == [name |-> name, value |-> value, severity |-> severity]

Blank == Entry("", 0, "none")

\* The tables take their names from the functions of slsReceiverDefs, which
\* slsDetectorDefs inherits.
StatusEntry(s, severity) ==
  Entry(IF s \in DOMAIN runStatusName THEN runStatusName[s] ELSE "idle",
        runStatus[s], severity)

TypeEntry(t) ==
  Entry(IF t \in DOMAIN receiverDetectorTypeName THEN receiverDetectorTypeName[t]
        ELSE "Unknown", detectorType[t], "none")

GainEntry(name, s) == Entry(name, detectorSettings[s], "none")

SlsOnOffEnums == <<Entry("Off", 0, "none"), Entry("On", 1, "none")>>

SlsOkTrippedEnums == <<Entry("Ok", 0, "none"), Entry("Tripped", 1, "major")>>

SlsConnStatusEnums ==
  <<Entry("Disconnected", 0, "major"), Entry("Connected", 1, "none")>>

SlsRunStatusEnums ==
  <<StatusEntry("IDLE", "none"), StatusEntry("ERROR", "major"),
    StatusEntry("WAITING", "none"), StatusEntry("RUN_FINISHED", "none"),
    StatusEntry("TRANSMITTING", "none"), StatusEntry("RUNNING", "none"),
    StatusEntry("STOPPED", "none")>>

SlsDetTypesEnums ==
  <<TypeEntry("GENERIC"), TypeEntry("MYTHEN"), TypeEntry("PILATUS"),
    TypeEntry("EIGER"), TypeEntry("GOTTHARD"), TypeEntry("PICASSO"),
    TypeEntry("AGIPD"), TypeEntry("MOENCH"), TypeEntry("JUNGFRAU"),
    TypeEntry("JUNGFRAUCTB"), TypeEntry("PROPIX"), TypeEntry("MYTHEN3")>>

SlsClockDivEnums ==
  <<Entry("Full", 0, "none"), Entry("Half", 1, "none"), Entry("Quarter", 2, "none")>>

SlsGainEnums ==
  <<GainEntry("Standard", "STANDARD"), GainEntry("Fast", "FAST"),
    GainEntry("HighGain", "HIGHGAIN"), GainEntry("DynamicGain", "DYNAMICGAIN"),
    GainEntry("LowGain", "LOWGAIN"), GainEntry("MediumGain", "MEDIUMGAIN"),
    GainEntry("VeryHighGain", "VERYHIGHGAIN"), GainEntry("LowNoise", "LOWNOISE"),
    GainEntry("DynamicHG0", "DYNAMICHG0"), GainEntry("FixGain1", "FIXGAIN1"),
    GainEntry("FixGain2", "FIXGAIN2"), GainEntry("ForceSwitchG1", "FORCESWITCHG1"),
    GainEntry("ForceSwitchG2", "FORCESWITCHG2"), GainEntry("VeryLowGain", "VERYLOWGAIN")>>

\* The tables and the parameters they belong to, in the order of updateEnums().
SlsDetEnums ==
  <<[name |-> "SLS_GET_CHIP_POWER",   enums |-> SlsOnOffEnums],
    [name |-> "SLS_SET_CHIP_POWER",   enums |-> SlsOnOffEnums],
    [name |-> "SLS_GET_TEMP_CONTROL", enums |-> SlsOnOffEnums],
    [name |-> "SLS_SET_TEMP_CONTROL", enums |-> SlsOnOffEnums],
    [name |-> "SLS_DET_ENABLED",      enums |-> SlsOnOffEnums],
    [name |-> "SLS_GET_TEMP_EVENT",   enums |-> SlsOkTrippedEnums],
    [name |-> "SLS_SET_TEMP_EVENT",   enums |-> SlsOkTrippedEnums],
    [name |-> "SLS_CONN_STATUS",      enums |-> SlsConnStatusEnums],
    [name |-> "SLS_RUN_STATUS",       enums |-> SlsRunStatusEnums],
    [name |-> "SLS_DET_TYPE",         enums |-> SlsDetTypesEnums],
    [name |-> "SLS_GET_SPEED",        enums |-> SlsClockDivEnums],
    [name |-> "SLS_SET_SPEED",        enums |-> SlsClockDivEnums],
    [name |-> "SLS_GET_GAIN",         enums |-> SlsGainEnums],
    [name |-> "SLS_SET_GAIN",         enums |-> SlsGainEnums]>>

\* The number of states of a bi, bo, mbbi or mbbo record.
States(p) ==
  IF p \in {"SLS_RUN_STATUS", "SLS_DET_TYPE", "SLS_GET_SPEED", "SLS_SET_SPEED",
            "SLS_GET_GAIN", "SLS_SET_GAIN"} THEN 16 ELSE 2

\* The values a handler of slsDetDriver.cpp can answer for a parameter when the
\* library returns no error.
Answers(p) ==
  CASE p = "SLS_RUN_STATUS" -> {runStatus[s] : s \in DOMAIN runStatus}
    [] p = "SLS_DET_TYPE" ->
         {detectorType[t] : t \in DOMAIN detectorType \ {"GET_DETECTOR_TYPE"}}
    [] p \in {"SLS_GET_SPEED", "SLS_SET_SPEED"} -> {0, 1, 2}
    [] p \in {"SLS_GET_GAIN", "SLS_SET_GAIN"} ->
         {detectorSettings[s] :
            s \in DOMAIN detectorSettings \ {"GET_SETTINGS", "UNDEFINED", "UNINITIALIZED"}}
    [] OTHER -> {0, 1}

Idle == <<>>
NoMenu == <<>>

Shorter(m, n) == IF m < n THEN m ELSE n

Prefix(s, n) == SubSeq(s, 1, Shorter(Len(s), n))

\* strncpy of at most MAX_ENUM_STRING_SIZE characters.
Copied(entry) == [entry EXCEPT !.name = Prefix(@, MAX_ENUM_STRING_SIZE)]

\* Each of the parameters has a table.  That every name of the tables fits in a
\* string is a fact about literals, which TLC evaluates for the proofs.
ASSUME EnumsConstants == Watched \subseteq {SlsDetEnums[n].name : n \in DOMAIN SlsDetEnums}
ASSUME NamesFit ==
  \A n \in DOMAIN SlsDetEnums : \A i \in DOMAIN SlsDetEnums[n].enums :
    Prefix(SlsDetEnums[n].enums[i].name, MAX_ENUM_STRING_SIZE) = SlsDetEnums[n].enums[i].name

Table(p) == SlsDetEnums[CHOOSE n \in DOMAIN SlsDetEnums : SlsDetEnums[n].name = p].enums

EnumsInit ==
  /\ step = Idle
  /\ scratch = [i \in 1..SLS_MAX_ENUMS |-> Blank]
  /\ menus = [a \in Addrs |-> [p \in Watched |-> NoMenu]]

\* initialize() found the module of an address online.
UpdateBegin(a) ==
  /\ step = Idle
  /\ step' = <<a, 1>>
  /\ UNCHANGED <<scratch, menus>>

\* The table overwrites the front of the scratch buffer, count entries of which
\* go to the record.
Push(a, n, count) ==
  LET table == SlsDetEnums[n].enums
      p == SlsDetEnums[n].name
  IN  /\ scratch' = [i \in 1..SLS_MAX_ENUMS |->
                       IF i <= Len(table) THEN Copied(table[i]) ELSE scratch[i]]
      /\ menus' = IF p \in Watched
                  THEN [menus EXCEPT ![a][p] = Prefix(scratch', Shorter(count, States(p)))]
                  ELSE menus
      /\ step' = IF n < Len(SlsDetEnums) THEN <<a, n + 1>> ELSE Idle

\* Fault: the whole scratch buffer is passed on.
UpdateEnumWhole ==
  /\ step # Idle
  /\ Push(step[1], step[2], SLS_MAX_ENUMS)

UpdateEnum ==
  /\ step # Idle
  /\ Push(step[1], step[2], Shorter(Len(SlsDetEnums[step[2]].enums), SLS_MAX_ENUMS))

\* Fault: the last entry asked for is left out.
ReadEnumShort(a, p) ==
  /\ step = Idle
  /\ menus' = [menus EXCEPT ![a][p] = Prefix(Table(p), States(p) - 1)]
  /\ UNCHANGED <<step, scratch>>

\* readEnum() looks the table up by name and copies it straight.
ReadEnum(a, p) ==
  /\ step = Idle
  /\ menus' = [menus EXCEPT ![a][p] = Prefix(Table(p), States(p))]
  /\ UNCHANGED <<step, scratch>>

EnumsNext ==
  \/ \E a \in Addrs : UpdateBegin(a)
  \/ UpdateEnum
  \/ \E a \in Addrs, p \in Watched : ReadEnum(a, p)

EnumsSpec == EnumsInit /\ [][EnumsNext]_enumsVars

-----------------------------------------------------------------------------
(* Properties *)

\* A record that has a menu can show every value the module may answer, each by
\* exactly one entry, although two ways lead to the menu, both have a limit of
\* their own and one goes through a buffer that an earlier, longer menu filled
\* (updateEnums, 355-371, and readEnum, 732-787).
AnswersAreShown ==
  \A a \in Addrs, p \in Watched :
    menus[a][p] # NoMenu =>
      \A v \in Answers(p) :
        \E i \in DOMAIN menus[a][p] :
          /\ menus[a][p][i].value = v
          /\ \A j \in DOMAIN menus[a][p] \ {i} : menus[a][p][j].value # v

\* A setpoint record writes the value its user means: no name stands for two
\* entries (the two types called "Unknown" are never written).
ChoiceIsMeant ==
  \A a \in Addrs, p \in Watched \ {"SLS_DET_TYPE"} :
    \A i, j \in DOMAIN menus[a][p] :
      menus[a][p][i].name = menus[a][p][j].name => i = j

\* The menus serve both ways: every answer can be shown, and a name that is
\* chosen stands for one value.
MenusServe == AnswersAreShown /\ ChoiceIsMeant
=============================================================================
