------------------------------- MODULE SlsErrors -------------------------------
(***************************************************************************)
(* The errors of a detector: the mask each module collects them in, the    *)
(* messages read out of a mask (errorDefs), and the mask of the whole      *)
(* detector, in which a command run on one module (multiSlsDetectorCommand)*)
(* leaves the bit of that module.  The driver shows the messages whenever  *)
(* a call leaves a mask that is not 0.                                     *)
(*                                                                         *)
(* A mask of 64 bits is the set of its bits.  The commands themselves are  *)
(* external: one raises some errors of its module or none.                 *)
(***************************************************************************)
EXTENDS Integers, FiniteSets

CONSTANTS
  Modules,    \* the ids of the modules
  MaxErrors   \* bound: errors in the masks of all modules

ASSUME ErrorsConstants == Modules \subseteq 0..62 /\ MaxErrors \in Nat

VARIABLES
  mask,     \* errorMask of each module
  multi,    \* errorMask of the whole detector
  raised,   \* the errors each module has raised since they were cleared
  failed    \* the modules on which a command has left errors since then

errorsVars == <<mask, multi, raised, failed>>

\* The bit of each error, from bit 40 up ...
HighBit ==
  [
   CANNOT_CONNECT_TO_DETECTOR |-> 62, CANNOT_CONNECT_TO_RECEIVER |-> 61,
   COULDNOT_SET_CONTROL_PORT |-> 60, COULDNOT_SET_STOP_PORT |-> 59,
   COULDNOT_SET_DATA_PORT |-> 58, FILE_PATH_DOES_NOT_EXIST |-> 57,
   COULDNOT_CREATE_UDP_SOCKET |-> 56, COULDNOT_CREATE_FILE |-> 55,
   COULDNOT_ENABLE_COMPRESSION |-> 54, RECEIVER_DET_HOSTNAME_NOT_SET |-> 53,
   RECEIVER_DET_HOSTTYPE_NOT_SET |-> 52, DETECTOR_TEN_GIGA |-> 51,
   DETECTOR_ACTIVATE |-> 50, COULD_NOT_CONFIGURE_MAC |-> 49,
   COULDNOT_START_RECEIVER |-> 48, COULDNOT_STOP_RECEIVER |-> 47,
   RECEIVER_DET_POSID_NOT_SET |-> 46, RECEIVER_MULTI_DET_SIZE_NOT_SET |-> 45,
   PREPARE_ACQUISITION |-> 44, CLEANUP_ACQUISITION |-> 43,
   REGISER_WRITE_READ |-> 42, VERSION_COMPATIBILITY |-> 41, SOME_ERROR |-> 40
  ]

\* ... and below.
LowBit ==
  [
   COULDNOT_SET_NETWORK_PARAMETER |-> 0, COULDNOT_SET_ROI |-> 1,
   RECEIVER_READ_FREQUENCY |-> 2, SETTINGS_NOT_SET |-> 3,
   SETTINGS_FILE_NOT_OPEN |-> 4, DETECTOR_TIMER_VALUE_NOT_SET |-> 5,
   RECEIVER_ACQ_PERIOD_NOT_SET |-> 6, RECEIVER_FRAME_NUM_NOT_SET |-> 7,
   RECEIVER_DYNAMIC_RANGE |-> 8, RECEIVER_TEN_GIGA |-> 9,
   ALLTIMBITS_NOT_SET |-> 10, COULD_NOT_SET_SPEED_PARAMETERS |-> 11,
   COULD_NOT_SET_READOUT_FLAGS |-> 12, COULD_NOT_SET_FIFO_DEPTH |-> 13,
   COULD_NOT_SET_COUNTER_BIT |-> 14, COULD_NOT_PULSE_PIXEL |-> 15,
   COULD_NOT_PULSE_PIXEL_NMOVE |-> 16, COULD_NOT_PULSE_CHIP |-> 17,
   COULD_NOT_SET_RATE_CORRECTION |-> 18, DETECTOR_NETWORK_PARAMETER |-> 19,
   RATE_CORRECTION_NOT_32or16BIT |-> 20,
   RATE_CORRECTION_NO_TAU_PROVIDED |-> 21, PROGRAMMING_ERROR |-> 22,
   RECEIVER_ACTIVATE |-> 23, DATA_STREAMING |-> 24, RESET_ERROR |-> 25,
   POWER_CHIP |-> 26, RECEIVER_READ_TIMER |-> 27,
   RECEIVER_ACQ_TIME_NOT_SET |-> 28, RECEIVER_FLIPPED_DATA_NOT_SET |-> 29,
   THRESHOLD_NOT_SET |-> 30, RECEIVER_FILE_FORMAT |-> 31,
   RECEIVER_PARAMETER_NOT_SET |-> 32, RECEIVER_TIMER_NOT_SET |-> 33,
   RECEIVER_ENABLE_GAPPIXELS_NOT_SET |-> 34,
   RESTREAM_STOP_FROM_RECEIVER |-> 35, TEMPERATURE_CONTROL |-> 36,
   AUTO_COMP_DISABLE |-> 37, CONFIG_FILE |-> 38, STORAGE_CELL_START |-> 39
  ]

Errors == DOMAIN HighBit \cup DOMAIN LowBit

\* Fault: the bit of an error was pasted with that of its neighbour.
BitPasted(e) ==
  IF e = "DETECTOR_ACTIVATE" THEN HighBit["DETECTOR_TEN_GIGA"]
  ELSE IF e \in DOMAIN HighBit THEN HighBit[e] ELSE LowBit[e]

Bit(e) == IF e \in DOMAIN HighBit THEN HighBit[e] ELSE LowBit[e]

\* The errors getErrorMessage has a message for: what it looks at first ...
ToldFirst ==
  {
    "CANNOT_CONNECT_TO_DETECTOR", "CANNOT_CONNECT_TO_RECEIVER",
    "COULDNOT_SET_CONTROL_PORT", "COULDNOT_SET_STOP_PORT",
    "COULDNOT_SET_DATA_PORT", "FILE_PATH_DOES_NOT_EXIST",
    "COULDNOT_CREATE_UDP_SOCKET", "COULDNOT_CREATE_FILE",
    "COULDNOT_ENABLE_COMPRESSION", "RECEIVER_DET_HOSTNAME_NOT_SET",
    "RECEIVER_DET_HOSTTYPE_NOT_SET", "DETECTOR_TEN_GIGA", "DETECTOR_ACTIVATE",
    "RECEIVER_DET_POSID_NOT_SET", "RECEIVER_MULTI_DET_SIZE_NOT_SET",
    "PREPARE_ACQUISITION", "CLEANUP_ACQUISITION", "REGISER_WRITE_READ",
    "VERSION_COMPATIBILITY", "SOME_ERROR"
  }

\* ... and after that.
ToldThen ==
  {
    "COULD_NOT_CONFIGURE_MAC", "COULDNOT_SET_NETWORK_PARAMETER",
    "COULDNOT_SET_ROI", "RECEIVER_READ_FREQUENCY", "SETTINGS_NOT_SET",
    "SETTINGS_FILE_NOT_OPEN", "COULDNOT_START_RECEIVER",
    "COULDNOT_STOP_RECEIVER", "DETECTOR_TIMER_VALUE_NOT_SET",
    "RECEIVER_ACQ_PERIOD_NOT_SET", "RECEIVER_FRAME_NUM_NOT_SET",
    "RECEIVER_DYNAMIC_RANGE", "RECEIVER_TEN_GIGA", "ALLTIMBITS_NOT_SET",
    "COULD_NOT_SET_SPEED_PARAMETERS", "COULD_NOT_SET_READOUT_FLAGS",
    "COULD_NOT_SET_FIFO_DEPTH", "COULD_NOT_SET_COUNTER_BIT",
    "COULD_NOT_PULSE_PIXEL", "COULD_NOT_PULSE_PIXEL_NMOVE",
    "COULD_NOT_PULSE_CHIP", "COULD_NOT_SET_RATE_CORRECTION",
    "DETECTOR_NETWORK_PARAMETER", "RATE_CORRECTION_NOT_32or16BIT",
    "RATE_CORRECTION_NO_TAU_PROVIDED", "PROGRAMMING_ERROR",
    "RECEIVER_ACTIVATE", "DATA_STREAMING", "RESET_ERROR", "POWER_CHIP",
    "RECEIVER_READ_TIMER", "RECEIVER_FLIPPED_DATA_NOT_SET",
    "THRESHOLD_NOT_SET", "RECEIVER_FILE_FORMAT", "RECEIVER_TIMER_NOT_SET",
    "RECEIVER_PARAMETER_NOT_SET", "RECEIVER_ENABLE_GAPPIXELS_NOT_SET",
    "RESTREAM_STOP_FROM_RECEIVER", "TEMPERATURE_CONTROL", "AUTO_COMP_DISABLE",
    "CONFIG_FILE"
  }

Told == ToldFirst \cup ToldThen

\* getErrorMessage, as the errors whose messages it returns.
ErrorMessage(m) == {e \in Told : Bit(e) \in m}

\* Fault: the bits of two modules in one.
ModuleBitHalved(id) == {id \div 2}

\* (1<<id), an int, widened to the 64 bits of the mask: its sign bit fills the
\* upper half, and the processor shifts by id modulo 32.
ModuleBit(id) ==
  IF id % 32 = 31 THEN 31..63 ELSE {id % 32}

ErrorsInit ==
  /\ mask = [m \in Modules |-> {}]
  /\ multi = {}
  /\ raised = [m \in Modules |-> {}]
  /\ failed = {}

\* A call outside the commands leaves an error in a module's mask: it is set
\* with setErrorMask to the old mask and the error.
RaiseError(m) ==
  /\ Cardinality({mb \in Modules \X (0..63) : mb[2] \in mask[mb[1]]}) < MaxErrors
  /\ \E e \in Errors :
       /\ mask' = [mask EXCEPT ![m] = @ \cup {Bit(e)}]
       /\ raised' = [raised EXCEPT ![m] = @ \cup {e}]
  /\ UNCHANGED <<multi, failed>>

\* executeLine on module m: when its mask is not 0 after the command, its bit is
\* set in the mask of the whole.
ExecuteLine(m) ==
  /\ multi' = IF mask[m] # {} THEN multi \cup ModuleBit(m) ELSE multi
  /\ failed' = IF mask[m] # {} THEN failed \cup {m} ELSE failed
  /\ UNCHANGED <<mask, raised>>

\* clearErrorMask of one module
ClearErrorMask(m) ==
  /\ mask' = [mask EXCEPT ![m] = {}]
  /\ raised' = [raised EXCEPT ![m] = {}]
  /\ UNCHANGED <<multi, failed>>

\* clearAllErrorMask, which the driver calls before a call to the library.
ClearAllErrorMask ==
  /\ mask' = [m \in Modules |-> {}]
  /\ multi' = {}
  /\ raised' = [m \in Modules |-> {}]
  /\ failed' = {}

ErrorsNext ==
  \/ \E m \in Modules : RaiseError(m) \/ ExecuteLine(m) \/ ClearErrorMask(m)
  \/ ClearAllErrorMask

ErrorsSpec == ErrorsInit /\ [][ErrorsNext]_errorsVars

-----------------------------------------------------------------------------
(* Properties *)

\* The messages of a mask are those of the errors that were raised, of which
\* none is taken for another (getErrorMessage, error_defs.h:119-314).
MessagesAreOfTheErrors ==
  \A m \in Modules : ErrorMessage(mask[m]) = raised[m] \cap Told

\* The mask of the whole tells that a command left errors on some module, and
\* names every such module with an id below 32.  It names no other as long as
\* none with an id above 30 has errors: from there on 1<<id sets bits of other
\* modules, all those from 31 on for id 31 and that of id - 32 for the next ones
\* (multiSlsDetectorCommand.h:36-44).
FlaggedAreFailed ==
  /\ multi = {} <=> failed = {}
  /\ \A m \in failed : m < 32 => m \in multi
  /\ failed \subseteq 0..30 => {m \in Modules : m \in multi} = failed

\* An error is told as itself and, of the modules up to 30, of the one that has it.
ErrorsAreTold == MessagesAreOfTheErrors /\ FlaggedAreFailed
=============================================================================
