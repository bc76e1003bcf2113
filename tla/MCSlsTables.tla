------------------------------- MODULE MCSlsTables -------------------------------
(***************************************************************************)
(* Model checking of the parts that share no state with each other: the    *)
(* configuration of an IOC, the menus of its records, the message, and     *)
(* the tables of the headers of slsDetectorPackage.  A behaviour is one of *)
(* one part, and the variables of the others do not change.                *)
(***************************************************************************)
EXTENDS MCSlsDetConfig, SlsDetUtils, SlsDetMessageCell, SlsErrors, SlsDetFuncs, SlsDetEnums,
        SlsBadChannels

CONSTANTS a1, a2, c1, c2, b1, v1, v2

VARIABLES
  part,                                                  \* which of them
  stage, kind, valueSent, writer, name, reader, valueGot  \* SlsDetNames

namesVars == <<stage, kind, valueSent, writer, name, reader, valueGot>>

\* One port, with every line up to the bound.
Listed == INSTANCE SlsDetConfig WITH Lines <- MCLines, Ids <- {0}, MaxPorts <- 1

Exchange == INSTANCE SlsDetNames WITH sent <- valueSent, text <- name, got <- valueGot

Off == "off"

NamesOff ==
  /\ stage = Off /\ kind = Off /\ valueSent = Off /\ writer = Off /\ name = Off
  /\ reader = Off /\ valueGot = Off

\* The modules extended, each in one of its initial states, where it stays.
ConfigStill == Init
UtilsStill == UtilsInit /\ param = [s \in Streams |-> [p \in Parameters |-> v1]]
CellStill == CellInit /\ text = [b \in Buffers |-> 1]
ErrorsStill == ErrorsInit
FuncsStill == FuncsInit /\ server = [kind |-> "detector", lacks |-> 0]
EnumsStill == EnumsInit
BadStill == BadInit

TablesInit ==
  \/ /\ part \in {"config", "lines"} /\ Init
     /\ UtilsStill /\ CellStill /\ ErrorsStill /\ FuncsStill /\ NamesOff /\ EnumsStill /\ BadStill
  \/ /\ part = "utils" /\ UtilsInit
     /\ ConfigStill /\ CellStill /\ ErrorsStill /\ FuncsStill /\ NamesOff /\ EnumsStill /\ BadStill
  \/ /\ part = "cell" /\ CellInit
     /\ ConfigStill /\ UtilsStill /\ ErrorsStill /\ FuncsStill /\ NamesOff /\ EnumsStill /\ BadStill
  \/ /\ part = "errors" /\ ErrorsInit
     /\ ConfigStill /\ UtilsStill /\ CellStill /\ FuncsStill /\ NamesOff /\ EnumsStill /\ BadStill
  \/ /\ part = "funcs" /\ FuncsInit
     /\ ConfigStill /\ UtilsStill /\ CellStill /\ ErrorsStill /\ NamesOff /\ EnumsStill /\ BadStill
  \/ /\ part = "names" /\ Exchange!Init
     /\ ConfigStill /\ UtilsStill /\ CellStill /\ ErrorsStill /\ FuncsStill /\ EnumsStill /\ BadStill
  \/ /\ part = "enums" /\ EnumsInit
     /\ ConfigStill /\ UtilsStill /\ CellStill /\ ErrorsStill /\ FuncsStill /\ NamesOff /\ BadStill
  \/ /\ part = "bad" /\ BadInit
     /\ ConfigStill /\ UtilsStill /\ CellStill /\ ErrorsStill /\ FuncsStill /\ NamesOff /\ EnumsStill

TablesNext ==
  /\ UNCHANGED part
  /\ \/ /\ \/ part = "config" /\ Next
           \/ part = "lines" /\ Listed!Next
        /\ UNCHANGED <<utilsVars, cellVars, errorsVars, funcsVars, namesVars, enumsVars, badVars>>
     \/ /\ part = "utils" /\ UtilsNext
        /\ UNCHANGED <<vars, cellVars, errorsVars, funcsVars, namesVars, enumsVars, badVars>>
     \/ /\ part = "cell" /\ CellNext
        /\ UNCHANGED <<vars, utilsVars, errorsVars, funcsVars, namesVars, enumsVars, badVars>>
     \/ /\ part = "errors" /\ ErrorsNext
        /\ UNCHANGED <<vars, utilsVars, cellVars, funcsVars, namesVars, enumsVars, badVars>>
     \/ /\ part = "funcs" /\ FuncsNext
        /\ UNCHANGED <<vars, utilsVars, cellVars, errorsVars, namesVars, enumsVars, badVars>>
     \/ /\ part = "names" /\ Exchange!Next
        /\ UNCHANGED <<vars, utilsVars, cellVars, errorsVars, funcsVars, enumsVars, badVars>>
     \/ /\ part = "enums" /\ EnumsNext
        /\ UNCHANGED <<vars, utilsVars, cellVars, errorsVars, funcsVars, namesVars, badVars>>
     \/ /\ part = "bad" /\ BadNext
        /\ UNCHANGED <<vars, utilsVars, cellVars, errorsVars, funcsVars, namesVars, enumsVars>>

-----------------------------------------------------------------------------
(* Properties: those of the modules extended, and of the one that is not       *)

\* See SlsDetNames: what is exchanged by name stays what it was.
NamesAreKept == part = "names" => Exchange!NamesAreKept
=============================================================================
