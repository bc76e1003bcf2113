------------------------------ MODULE SlsDetNames ------------------------------
(***************************************************************************)
(* Programs that exchange the values of SlsDetDefs by name.  One prints a  *)
(* value with the function of its class, another, which may be built on    *)
(* another class, reads the name back; a user may type a name instead.     *)
(*                                                                         *)
(* The values printed are those of the enumeration, its "get" value -1 and *)
(* one value beyond its end: the functions take a plain integer (Users) or *)
(* an enumeration that a failed library call filled with -1.               *)
(***************************************************************************)
EXTENDS SlsDetDefs, FiniteSets

VARIABLES
  stage,   \* "start", "written" or "read"
  kind,    \* the enumeration
  sent,    \* the value
  writer,  \* the class that printed it, or "user"
  text,    \* the name
  reader,  \* the class that read the name
  got      \* the value read

vars == <<stage, kind, sent, writer, text, reader, got>>

Nothing == "nothing"

Enum ==
  [type |-> detectorType, status |-> runStatus, settings |-> detectorSettings,
   timing |-> externalCommunicationMode, sync |-> synchronizationMode,
   signal |-> externalSignalFlag, format |-> fileFormat, discard |-> frameDiscardPolicy,
   timer |-> timerIndex, adc |-> dacIndex, dac |-> dacIndex]

Kinds == DOMAIN Enum

Listing(k, c, table, other) == (<<k, c>> :> [table |-> table, other |-> other])

\* The functions from values to names.
Printers ==
  Listing("type", "Base", baseDetectorTypeName, "Unknown")
  @@ Listing("type", "Receiver", receiverDetectorTypeName, "Unknown")
  @@ Listing("status", "Base", runStatusName, "idle")
  @@ Listing("status", "Receiver", runStatusName, "idle")
  @@ Listing("status", "Users", usersRunStatusName, "unknown")
  @@ Listing("settings", "Base", baseSettingsName, "undefined")
  @@ Listing("settings", "Users", usersSettingsName, "undefined")
  @@ Listing("timing", "Base", timingName, "unknown")
  @@ Listing("timing", "Users", timingName, "unknown")
  @@ Listing("sync", "Base", syncName, "unknown")
  @@ Listing("signal", "Base", signalName, "unknown")
  @@ Listing("format", "Base", fileFormatName, "unknown")
  @@ Listing("format", "Receiver", fileFormatName, "unknown")
  @@ Listing("discard", "Base", baseDiscardPolicyName, "unknown")
  @@ Listing("discard", "Receiver", receiverDiscardPolicyName, "unknown")
  @@ Listing("timer", "Base", timerName, "unknown")

\* The functions from names to values.
Parsers ==
  Listing("type", "Base", baseDetectorTypeOf, detectorType["GENERIC"])
  @@ Listing("type", "Receiver", receiverDetectorTypeOf, detectorType["GENERIC"])
  @@ Listing("settings", "Base", baseSettingsOf, detectorSettings["GET_SETTINGS"])
  @@ Listing("settings", "Users", usersSettingsOf, -1)
  @@ Listing("timing", "Base", timingOf,
             externalCommunicationMode["GET_EXTERNAL_COMMUNICATION_MODE"])
  @@ Listing("timing", "Users", timingOf, -1)
  @@ Listing("sync", "Base", syncOf, synchronizationMode["GET_SYNCHRONIZATION_MODE"])
  @@ Listing("signal", "Base", signalOf, externalSignalFlag["GET_EXTERNAL_SIGNAL_FLAG"])
  @@ Listing("adc", "Base", adcOf, -1)
  @@ Listing("dac", "Base", dacOf, -1)
  @@ Listing("discard", "Base", discardPolicyOf,
             frameDiscardPolicy["GET_FRAME_DISCARD_POLICY"])

Classes(functions) == {c \in {"Base", "Receiver", "Users"} : <<kind, c>> \in DOMAIN functions}

Values(k) ==
  LET listed == {Enum[k][s] : s \in DOMAIN Enum[k]}
  IN  listed \cup {-1, Cardinality(listed) + 1}

Listed(c) == {s \in DOMAIN Printers[<<kind, c>>].table : Enum[kind][s] = sent}

Name(c) ==
  IF Listed(c) = {} THEN Printers[<<kind, c>>].other
  ELSE Printers[<<kind, c>>].table[CHOOSE s \in Listed(c) : TRUE]

Known(c) == DOMAIN Parsers[<<kind, c>>].table

Value(c, t) ==
  IF t \in Known(c) THEN Enum[kind][Parsers[<<kind, c>>].table[t]]
  ELSE Parsers[<<kind, c>>].other

-----------------------------------------------------------------------------

Init ==
  /\ stage = "start"
  /\ kind \in Kinds
  /\ sent \in Values(kind)
  /\ writer = Nothing
  /\ text = Nothing
  /\ reader = Nothing
  /\ got = -1

Write(c) ==
  /\ stage = "start"
  /\ stage' = "written"
  /\ writer' = c
  /\ text' = Name(c)
  /\ UNCHANGED <<kind, sent, reader, got>>

\* A user means some value and types a name that some program knows, or none.
Type(t) ==
  /\ stage = "start"
  /\ stage' = "written"
  /\ writer' = "user"
  /\ text' = t
  /\ UNCHANGED <<kind, sent, reader, got>>

Parse(c) ==
  /\ stage = "written"
  /\ stage' = "read"
  /\ reader' = c
  /\ got' = Value(c, text)
  /\ UNCHANGED <<kind, sent, writer, text>>

Next ==
  \/ \E c \in Classes(Printers) : Write(c)
  \/ \E c \in Classes(Parsers) : Type("nonsense") \/ \E t \in Known(c) : Type(t)
  \/ \E c \in Classes(Parsers) : Parse(c)

-----------------------------------------------------------------------------
(* Properties *)

\* A name printed by one class and read by any class, the same or another one,
\* is never taken for a different value: the reader gets the value that was
\* sent or the answer it has for a name it does not know (the printers and
\* parsers of slsDetectorBase.h:639-950, slsDetectorUsers.h:851-928 and
\* sls_receiver_defs.h:235-308 are separate lists).
NamesAreNotMistaken ==
  stage = "read" /\ writer # "user" =>
    got = sent \/ got = Parsers[<<kind, reader>>].other

\* A class reads back every name it prints: what its printer lists, its own
\* parser lists too (getDetectorType, getDetectorSettings,
\* externalCommunicationType, getTimingMode, getSyncType, externalSignalType,
\* getReceiverFrameDiscardPolicy).
NamesReadBack ==
  stage = "read" /\ writer = reader /\ Listed(writer) # {} => got = sent

\* Two names a class knows never select the same value: nothing typed by a user
\* silently stands for something else (also getADCIndex and getDACIndex, whose
\* values share one enumeration).
NamesAreDistinct ==
  stage = "read" /\ text \in Known(reader) =>
    \A t \in Known(reader) \ {text} : Value(reader, t) # got

\* What is exchanged by name stays what it was: no name is taken for another
\* value, a class reads its own names, and no two names are one value to it.
NamesAreKept == NamesAreNotMistaken /\ NamesReadBack /\ NamesAreDistinct
=============================================================================
