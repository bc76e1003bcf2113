------------------------------ MODULE SlsDetFuncs ------------------------------
(***************************************************************************)
(* The functions a client calls on a detector and on a receiver by their   *)
(* index, and what the two servers make of an index when client and server *)
(* were built from different versions of the two lists, or the client is   *)
(* connected to the wrong one.                                             *)
(*                                                                         *)
(* The servers are external: a server carries out the function its own     *)
(* list has at the index it receives, or refuses it.  A version of a list  *)
(* is a beginning of it: "Always append functions" (both headers).         *)
(***************************************************************************)
EXTENDS Integers, Sequences

CONSTANTS
  Versions   \* how many functions the older versions lack

ASSUME FuncsConstants == Versions \subseteq 0..40

VARIABLES
  server,   \* which of the two the client is connected to, and what it lacks
  sent,     \* the index sent, and the function meant by it
  done      \* the function carried out, or "refused", or none yet

funcsVars == <<server, sent, done>>

\* enum detFuncs, from 0
DetFuncs ==
  <<
    "F_EXEC_COMMAND", "F_GET_ERROR", "F_GET_DETECTOR_TYPE",
    "F_SET_NUMBER_OF_MODULES", "F_GET_MAX_NUMBER_OF_MODULES",
    "F_SET_EXTERNAL_SIGNAL_FLAG", "F_SET_EXTERNAL_COMMUNICATION_MODE",
    "F_GET_ID", "F_DIGITAL_TEST", "F_ANALOG_TEST", "F_ENABLE_ANALOG_OUT",
    "F_CALIBRATION_PULSE", "F_SET_DAC", "F_GET_ADC", "F_WRITE_REGISTER",
    "F_READ_REGISTER", "F_WRITE_MEMORY", "F_READ_MEMORY", "F_SET_CHANNEL",
    "F_GET_CHANNEL", "F_SET_ALL_CHANNELS", "F_SET_CHIP", "F_GET_CHIP",
    "F_SET_ALL_CHIPS", "F_SET_MODULE", "F_GET_MODULE", "F_SET_ALL_MODULES",
    "F_SET_SETTINGS", "F_GET_THRESHOLD_ENERGY", "F_SET_THRESHOLD_ENERGY",
    "F_START_ACQUISITION", "F_STOP_ACQUISITION", "F_START_READOUT",
    "F_GET_RUN_STATUS", "F_START_AND_READ_ALL", "F_READ_FRAME", "F_READ_ALL",
    "F_SET_TIMER", "F_GET_TIME_LEFT", "F_SET_DYNAMIC_RANGE",
    "F_SET_READOUT_FLAGS", "F_SET_ROI", "F_SET_SPEED", "F_EXECUTE_TRIMMING",
    "F_EXIT_SERVER", "F_LOCK_SERVER", "F_GET_LAST_CLIENT_IP", "F_SET_PORT",
    "F_UPDATE_CLIENT", "F_CONFIGURE_MAC", "F_LOAD_IMAGE", "F_SET_MASTER",
    "F_SET_SYNCHRONIZATION_MODE", "F_READ_COUNTER_BLOCK",
    "F_RESET_COUNTER_BLOCK", "F_CALIBRATE_PEDESTAL", "F_ENABLE_TEN_GIGA",
    "F_SET_ALL_TRIMBITS", "F_SET_CTB_PATTERN", "F_WRITE_ADC_REG",
    "F_SET_COUNTER_BIT", "F_PULSE_PIXEL", "F_PULSE_PIXEL_AND_MOVE",
    "F_PULSE_CHIP", "F_SET_RATE_CORRECT", "F_GET_RATE_CORRECT",
    "F_SET_NETWORK_PARAMETER", "F_PROGRAM_FPGA", "F_RESET_FPGA",
    "F_POWER_CHIP", "F_ACTIVATE", "F_PREPARE_ACQUISITION",
    "F_CLEANUP_ACQUISITION", "F_THRESHOLD_TEMP", "F_TEMP_CONTROL",
    "F_TEMP_EVENT", "F_AUTO_COMP_DISABLE", "F_STORAGE_CELL_START",
    "F_CHECK_VERSION", "F_SOFTWARE_TRIGGER", "F_QUAD", "F_INTERRUPT_SUBFRAME"
  >>

\* enum recFuncs, from REC_FUNC_START_INDEX
RecFuncs ==
  <<
    "F_EXEC_RECEIVER_COMMAND", "F_EXIT_RECEIVER", "F_LOCK_RECEIVER",
    "F_GET_LAST_RECEIVER_CLIENT_IP", "F_SET_RECEIVER_PORT",
    "F_UPDATE_RECEIVER_CLIENT", "F_GET_RECEIVER_ID", "F_GET_RECEIVER_TYPE",
    "F_SEND_RECEIVER_DETHOSTNAME", "F_RECEIVER_SET_ROI",
    "F_SETUP_RECEIVER_UDP", "F_SET_RECEIVER_TIMER",
    "F_SET_RECEIVER_DYNAMIC_RANGE", "F_READ_RECEIVER_FREQUENCY",
    "F_GET_RECEIVER_STATUS", "F_START_RECEIVER", "F_STOP_RECEIVER",
    "F_START_RECEIVER_READOUT", "F_SET_RECEIVER_FILE_PATH",
    "F_SET_RECEIVER_FILE_NAME", "F_SET_RECEIVER_FILE_INDEX",
    "F_GET_RECEIVER_FRAME_INDEX", "F_GET_RECEIVER_FRAMES_CAUGHT",
    "F_RESET_RECEIVER_FRAMES_CAUGHT", "F_ENABLE_RECEIVER_FILE_WRITE",
    "F_ENABLE_RECEIVER_COMPRESSION", "F_ENABLE_RECEIVER_OVERWRITE",
    "F_ENABLE_RECEIVER_TEN_GIGA", "F_SET_RECEIVER_FIFO_DEPTH",
    "F_RECEIVER_ACTIVATE", "F_STREAM_DATA_FROM_RECEIVER",
    "F_READ_RECEIVER_TIMER", "F_SET_FLIPPED_DATA_RECEIVER",
    "F_SET_RECEIVER_FILE_FORMAT", "F_SEND_RECEIVER_DETPOSID",
    "F_SEND_RECEIVER_MULTIDETSIZE", "F_SET_RECEIVER_STREAMING_PORT",
    "F_RECEIVER_STREAMING_SRC_IP", "F_SET_RECEIVER_SILENT_MODE",
    "F_ENABLE_GAPPIXELS_IN_RECEIVER", "F_RESTREAM_STOP_FROM_RECEIVER",
    "F_ADDITIONAL_JSON_HEADER", "F_RECEIVER_UDP_SOCK_BUF_SIZE",
    "F_RECEIVER_REAL_UDP_SOCK_BUF_SIZE", "F_SET_RECEIVER_FRAMES_PER_FILE",
    "F_RECEIVER_CHECK_VERSION", "F_RECEIVER_DISCARD_POLICY",
    "F_RECEIVER_PADDING_ENABLE", "F_RECEIVER_DEACTIVATED_PADDING_ENABLE",
    "F_RECEIVER_QUAD"
  >>

\* Fault: the receiver's functions start where there is still room in a byte of
\* the detector's.
RecFuncStartIndexLow == 64

RecFuncStartIndex == 128

\* A function and the index its enumeration gives it.
DetIndexes == {<<DetFuncs[j], j - 1>> : j \in DOMAIN DetFuncs}
RecIndexes == {<<RecFuncs[j], j - 1 + RecFuncStartIndex>> : j \in DOMAIN RecFuncs}

\* What a server of an older version knows: the list without its end.
Known(s) ==
  IF s.kind = "detector" THEN {f \in DetIndexes : f[2] < Len(DetFuncs) - s.lacks}
  ELSE {f \in RecIndexes : f[2] - RecFuncStartIndex < Len(RecFuncs) - s.lacks}

NotSent == <<"none", 0>>

FuncsInit ==
  /\ server \in [kind : {"detector", "receiver"}, lacks : Versions]
  /\ sent = NotSent
  /\ done = "none"

\* The client sends the index its own enumeration gives the function.
Send ==
  /\ sent = NotSent
  /\ sent' \in DetIndexes \cup RecIndexes
  /\ done' = "none"
  /\ UNCHANGED server

\* The server looks the index up.
Serve ==
  /\ sent # NotSent
  /\ LET found == {f \in Known(server) : f[2] = sent[2]}
     IN  \/ \E f \in found : done' = f[1]
         \/ found = {} /\ done' = "refused"
  /\ sent' = NotSent
  /\ UNCHANGED server

FuncsNext == Send \/ Serve

FuncsSpec == FuncsInit /\ [][FuncsNext]_funcsVars

-----------------------------------------------------------------------------
(* Properties *)

\* A server carries out the function the client means or none: whatever its
\* version, and also when the client is connected to the wrong one of the two.
OnlyWhatIsMeant == [][Serve => done' \in {sent[1], "refused"}]_funcsVars
=============================================================================
