------------------------------ MODULE SlsDetDefs ------------------------------
(***************************************************************************)
(* The enumerations of the slsDetectorPackage headers and the functions    *)
(* that turn their values into names and names into values                 *)
(* (sls_receiver_defs.h, sls_detector_defs.h, slsDetectorBase.h,           *)
(* slsDetectorUsers.h).                                                    *)
(*                                                                         *)
(* Three classes hold such functions, each its own copy: slsReceiverDefs   *)
(* ("Receiver"), slsDetectorBase ("Base") and slsDetectorUsers ("Users").  *)
(* An enumeration is a function from its symbols to integers.  A printer   *)
(* is a table from symbols to names, a parser a table from names to        *)
(* symbols; whatever a table does not list falls back to one answer.       *)
(***************************************************************************)
EXTENDS Integers, Sequences, TLC

\* The symbols of seq with consecutive values.
EnumFrom(first, seq) ==
  [s \in {seq[i] : i \in DOMAIN seq} |->
     first - 1 + (CHOOSE i \in DOMAIN seq : seq[i] = s)]

\* An enumeration whose values go on elsewhere.
Joined(f, g) == [s \in DOMAIN f \cup DOMAIN g |-> IF s \in DOMAIN f THEN f[s] ELSE g[s]]

-----------------------------------------------------------------------------
(* Enumerations *)

detectorType ==
  EnumFrom(-1, <<"GET_DETECTOR_TYPE", "GENERIC", "MYTHEN", "PILATUS", "EIGER",
    "GOTTHARD", "PICASSO", "AGIPD", "MOENCH", "JUNGFRAU", "JUNGFRAUCTB", "PROPIX",
    "MYTHEN3">>)

timerIndex ==
  EnumFrom(0, <<"FRAME_NUMBER", "ACQUISITION_TIME", "FRAME_PERIOD",
    "DELAY_AFTER_TRIGGER", "GATES_NUMBER", "PROBES_NUMBER", "CYCLES_NUMBER",
    "ACTUAL_TIME", "MEASUREMENT_TIME", "PROGRESS", "MEASUREMENTS_NUMBER",
    "FRAMES_FROM_START", "FRAMES_FROM_START_PG", "SAMPLES_JCTB",
    "SUBFRAME_ACQUISITION_TIME", "STORAGE_CELL_NUMBER", "SUBFRAME_DEADTIME",
    "MEASURED_PERIOD", "MEASURED_SUBPERIOD", "MAX_TIMERS">>)

runStatus ==
  EnumFrom(0, <<"IDLE", "ERROR", "WAITING", "RUN_FINISHED", "TRANSMITTING",
    "RUNNING", "STOPPED">>)

frameDiscardPolicy ==
  EnumFrom(-1, <<"GET_FRAME_DISCARD_POLICY", "NO_DISCARD", "DISCARD_EMPTY_FRAMES",
    "DISCARD_PARTIAL_FRAMES", "NUM_DISCARD_POLICIES">>)

fileFormat ==
  EnumFrom(-1, <<"GET_FILE_FORMAT", "BINARY", "ASCII", "HDF5", "NUM_FILE_FORMATS">>)

externalSignalFlag ==
  EnumFrom(-1, <<"GET_EXTERNAL_SIGNAL_FLAG", "SIGNAL_OFF", "GATE_IN_ACTIVE_HIGH",
    "GATE_IN_ACTIVE_LOW", "TRIGGER_IN_RISING_EDGE", "TRIGGER_IN_FALLING_EDGE",
    "RO_TRIGGER_IN_RISING_EDGE", "RO_TRIGGER_IN_FALLING_EDGE",
    "GATE_OUT_ACTIVE_HIGH", "GATE_OUT_ACTIVE_LOW", "TRIGGER_OUT_RISING_EDGE",
    "TRIGGER_OUT_FALLING_EDGE", "RO_TRIGGER_OUT_RISING_EDGE",
    "RO_TRIGGER_OUT_FALLING_EDGE", "OUTPUT_LOW", "OUTPUT_HIGH",
    "MASTER_SLAVE_SYNCHRONIZATION">>)

externalCommunicationMode ==
  EnumFrom(-1, <<"GET_EXTERNAL_COMMUNICATION_MODE", "AUTO_TIMING",
    "TRIGGER_EXPOSURE", "TRIGGER_READOUT", "GATE_FIX_NUMBER",
    "GATE_WITH_START_TRIGGER", "BURST_TRIGGER">>)

detectorSettings ==
  Joined(EnumFrom(-1, <<"GET_SETTINGS", "STANDARD", "FAST", "HIGHGAIN", "DYNAMICGAIN",
    "LOWGAIN", "MEDIUMGAIN", "VERYHIGHGAIN", "LOWNOISE", "DYNAMICHG0", "FIXGAIN1",
    "FIXGAIN2", "FORCESWITCHG1", "FORCESWITCHG2", "VERYLOWGAIN">>),
         EnumFrom(200, <<"UNDEFINED", "UNINITIALIZED">>))

synchronizationMode ==
  EnumFrom(-1, <<"GET_SYNCHRONIZATION_MODE", "NO_SYNCHRONIZATION", "MASTER_GATES",
    "MASTER_TRIGGERS", "SLAVE_STARTS_WHEN_MASTER_STOPS">>)

dacIndex ==
  Joined(EnumFrom(0, <<"THRESHOLD", "CALIBRATION_PULSE", "TRIMBIT_SIZE", "PREAMP",
    "SHAPER1", "SHAPER2", "TEMPERATURE_ADC", "TEMPERATURE_FPGA", "HUMIDITY",
    "DETECTOR_BIAS", "VA_POT", "VDD_POT", "VSH_POT", "VIO_POT", "HV_POT",
    "G_VREF_DS", "G_VCASCN_PB", "G_VCASCP_PB", "G_VOUT_CM", "G_VCASC_OUT",
    "G_VIN_CM", "G_VREF_COMP", "G_IB_TESTC", "V_DAC0", "V_DAC1", "V_DAC2", "V_DAC3",
    "V_DAC4", "V_DAC5", "V_DAC6", "V_DAC7", "E_SvP", "E_SvN", "E_Vtr", "E_Vrf",
    "E_Vrs", "E_Vtgstv", "E_Vcmp_ll", "E_Vcmp_lr", "E_cal", "E_Vcmp_rl",
    "E_Vcmp_rr", "E_rxb_rb", "E_rxb_lb", "E_Vcp", "E_Vcn", "E_Vis", "IO_DELAY",
    "ADC_VPP", "HV_NEW", "TEMPERATURE_FPGAEXT", "TEMPERATURE_10GE",
    "TEMPERATURE_DCDC", "TEMPERATURE_SODL", "TEMPERATURE_SODR",
    "TEMPERATURE_FPGA2", "TEMPERATURE_FPGA3", "M_vIpre", "M_vIbias", "M_vIinSh",
    "M_VdcSh", "M_Vth2", "M_VPL", "M_Vth3", "M_casSh", "M_cas", "M_vIbiasSh",
    "M_vIcin", "M_vIpreOut">>),
         EnumFrom(100, <<"V_POWER_A", "V_POWER_B", "V_POWER_C", "V_POWER_D",
    "V_POWER_IO", "V_POWER_CHIP", "I_POWER_A", "I_POWER_B", "I_POWER_C",
    "I_POWER_D", "I_POWER_IO", "V_LIMIT">>))

-----------------------------------------------------------------------------
(* Values into names *)

baseDetectorTypeName ==
  [MYTHEN |-> "Mythen", PILATUS |-> "Pilatus", EIGER |-> "Eiger",
   GOTTHARD |-> "Gotthard", AGIPD |-> "Agipd", MOENCH |-> "Moench",
   JUNGFRAU |-> "Jungfrau", JUNGFRAUCTB |-> "JungfrauCTB", PROPIX |-> "Propix"]

receiverDetectorTypeName ==
  [MYTHEN |-> "Mythen", PILATUS |-> "Pilatus", EIGER |-> "Eiger",
   GOTTHARD |-> "Gotthard", AGIPD |-> "Agipd", MOENCH |-> "Moench",
   JUNGFRAU |-> "Jungfrau", JUNGFRAUCTB |-> "JungfrauCTB", PROPIX |-> "Propix",
   MYTHEN3 |-> "Mythen3"]

\* Base and Receiver print "idle" for everything that is not listed.
runStatusName ==
  [ERROR |-> "error", WAITING |-> "waiting", RUNNING |-> "running",
   TRANSMITTING |-> "data", RUN_FINISHED |-> "finished", STOPPED |-> "stopped"]

usersRunStatusName ==
  [IDLE |-> "idle", ERROR |-> "error", WAITING |-> "waiting",
   RUN_FINISHED |-> "finished", TRANSMITTING |-> "data", RUNNING |-> "running",
   STOPPED |-> "stoppped"]

fileFormatName == [BINARY |-> "binary", ASCII |-> "ascii", HDF5 |-> "hdf5"]

receiverDiscardPolicyName ==
  [NO_DISCARD |-> "No Discard", DISCARD_EMPTY_FRAMES |-> "Discard Empty Frames",
   DISCARD_PARTIAL_FRAMES |-> "Discard Partial Frames"]

baseDiscardPolicyName ==
  [NO_DISCARD |-> "nodiscard", DISCARD_EMPTY_FRAMES |-> "discardempty",
   DISCARD_PARTIAL_FRAMES |-> "discardpartial"]

syncName ==
  [NO_SYNCHRONIZATION |-> "none", MASTER_GATES |-> "gating",
   MASTER_TRIGGERS |-> "trigger", SLAVE_STARTS_WHEN_MASTER_STOPS |-> "complementary"]

signalName ==
  [SIGNAL_OFF |-> "off",
   GATE_IN_ACTIVE_HIGH |-> "gate_in_active_high",
   GATE_IN_ACTIVE_LOW |-> "gate_in_active_low",
   TRIGGER_IN_RISING_EDGE |-> "trigger_in_rising_edge",
   TRIGGER_IN_FALLING_EDGE |-> "trigger_in_falling_edge",
   RO_TRIGGER_IN_RISING_EDGE |-> "ro_trigger_in_rising_edge",
   RO_TRIGGER_IN_FALLING_EDGE |-> "ro_trigger_in_falling_edge",
   GATE_OUT_ACTIVE_HIGH |-> "gate_out_active_high",
   GATE_OUT_ACTIVE_LOW |-> "gate_out_active_low",
   TRIGGER_OUT_RISING_EDGE |-> "trigger_out_rising_edge",
   TRIGGER_OUT_FALLING_EDGE |-> "trigger_out_falling_edge",
   RO_TRIGGER_OUT_RISING_EDGE |-> "ro_trigger_out_rising_edge",
   RO_TRIGGER_OUT_FALLING_EDGE |-> "ro_trigger_out_falling_edge",
   MASTER_SLAVE_SYNCHRONIZATION |-> "sync",
   OUTPUT_LOW |-> "gnd", OUTPUT_HIGH |-> "vcc"]

baseSettingsName ==
  [STANDARD |-> "standard", FAST |-> "fast", HIGHGAIN |-> "highgain",
   DYNAMICGAIN |-> "dynamicgain", LOWGAIN |-> "lowgain", MEDIUMGAIN |-> "mediumgain",
   VERYHIGHGAIN |-> "veryhighgain", LOWNOISE |-> "lownoise",
   DYNAMICHG0 |-> "dynamichg0", FIXGAIN1 |-> "fixgain1", FIXGAIN2 |-> "fixgain2",
   FORCESWITCHG1 |-> "forceswitchg1", FORCESWITCHG2 |-> "forceswitchg2",
   VERYLOWGAIN |-> "verylowgain"]

usersSettingsName ==
  [STANDARD |-> "standard", FAST |-> "fast", HIGHGAIN |-> "highgain",
   DYNAMICGAIN |-> "dynamicgain", LOWGAIN |-> "lowgain", MEDIUMGAIN |-> "mediumgain",
   VERYHIGHGAIN |-> "veryhighgain"]

\* Base and Users.
timingName ==
  [AUTO_TIMING |-> "auto", TRIGGER_EXPOSURE |-> "trigger",
   TRIGGER_READOUT |-> "ro_trigger", GATE_FIX_NUMBER |-> "gating",
   GATE_WITH_START_TRIGGER |-> "triggered_gating", BURST_TRIGGER |-> "burst_trigger"]

timerName ==
  [FRAME_NUMBER |-> "frame_number", ACQUISITION_TIME |-> "acquisition_time",
   FRAME_PERIOD |-> "frame_period", DELAY_AFTER_TRIGGER |-> "delay_after_trigger",
   GATES_NUMBER |-> "gates_number", PROBES_NUMBER |-> "probes_number",
   CYCLES_NUMBER |-> "cycles_number", ACTUAL_TIME |-> "actual_time",
   MEASUREMENT_TIME |-> "measurement_time", PROGRESS |-> "progress",
   MEASUREMENTS_NUMBER |-> "measurements_number",
   FRAMES_FROM_START |-> "frames_from_start",
   FRAMES_FROM_START_PG |-> "frames_from_start_pg", SAMPLES_JCTB |-> "samples_jctb",
   SUBFRAME_ACQUISITION_TIME |-> "subframe_acquisition_time",
   SUBFRAME_DEADTIME |-> "subframe_deadtime",
   STORAGE_CELL_NUMBER |-> "storage_cell_number"]

-----------------------------------------------------------------------------
(* Names into values *)

baseDetectorTypeOf ==
  [Mythen |-> "MYTHEN", Pilatus |-> "PILATUS", Eiger |-> "EIGER",
   Gotthard |-> "GOTTHARD", Agipd |-> "AGIPD", Moench |-> "MOENCH",
   Jungfrau |-> "JUNGFRAU", JungfrauCTB |-> "JUNGFRAUCTB", Propix |-> "PROPIX"]

receiverDetectorTypeOf ==
  [Mythen |-> "MYTHEN", Pilatus |-> "PILATUS", Eiger |-> "EIGER",
   Gotthard |-> "GOTTHARD", Agipd |-> "AGIPD", Moench |-> "MOENCH",
   Jungfrau |-> "JUNGFRAU", JungfrauCTB |-> "JUNGFRAUCTB", Propix |-> "PROPIX",
   Mythen3 |-> "MYTHEN3"]

syncOf ==
  [none |-> "NO_SYNCHRONIZATION", gating |-> "MASTER_GATES",
   trigger |-> "MASTER_TRIGGERS", complementary |-> "SLAVE_STARTS_WHEN_MASTER_STOPS"]

signalOf ==
  [off |-> "SIGNAL_OFF",
   gate_in_active_high |-> "GATE_IN_ACTIVE_HIGH",
   gate_in_active_low |-> "GATE_IN_ACTIVE_LOW",
   trigger_in_rising_edge |-> "TRIGGER_IN_RISING_EDGE",
   trigger_in_falling_edge |-> "TRIGGER_IN_FALLING_EDGE",
   ro_trigger_in_rising_edge |-> "RO_TRIGGER_IN_RISING_EDGE",
   ro_trigger_in_falling_edge |-> "RO_TRIGGER_IN_FALLING_EDGE",
   gate_out_active_high |-> "GATE_OUT_ACTIVE_HIGH",
   gate_out_active_low |-> "GATE_OUT_ACTIVE_LOW",
   trigger_out_rising_edge |-> "TRIGGER_OUT_RISING_EDGE",
   trigger_out_falling_edge |-> "TRIGGER_OUT_FALLING_EDGE",
   ro_trigger_out_rising_edge |-> "RO_TRIGGER_OUT_RISING_EDGE",
   ro_trigger_out_falling_edge |-> "RO_TRIGGER_OUT_FALLING_EDGE",
   sync |-> "MASTER_SLAVE_SYNCHRONIZATION", gnd |-> "OUTPUT_LOW", vcc |-> "OUTPUT_HIGH"]

\* Fault: two lines of the same list got the same value.
baseSettingsOfPasted ==
  [standard |-> "STANDARD", fast |-> "FAST", highgain |-> "HIGHGAIN",
   dynamicgain |-> "DYNAMICGAIN", lowgain |-> "LOWGAIN", mediumgain |-> "MEDIUMGAIN",
   veryhighgain |-> "VERYHIGHGAIN", lownoise |-> "LOWNOISE",
   dynamichg0 |-> "DYNAMICHG0", fixgain1 |-> "FIXGAIN1", fixgain2 |-> "FIXGAIN1",
   forceswitchg1 |-> "FORCESWITCHG1", forceswitchg2 |-> "FORCESWITCHG2",
   verylowgain |-> "VERYLOWGAIN"]

baseSettingsOf ==
  [standard |-> "STANDARD", fast |-> "FAST", highgain |-> "HIGHGAIN",
   dynamicgain |-> "DYNAMICGAIN", lowgain |-> "LOWGAIN", mediumgain |-> "MEDIUMGAIN",
   veryhighgain |-> "VERYHIGHGAIN", lownoise |-> "LOWNOISE",
   dynamichg0 |-> "DYNAMICHG0", fixgain1 |-> "FIXGAIN1", fixgain2 |-> "FIXGAIN2",
   forceswitchg1 |-> "FORCESWITCHG1", forceswitchg2 |-> "FORCESWITCHG2",
   verylowgain |-> "VERYLOWGAIN"]

usersSettingsOf ==
  [standard |-> "STANDARD", fast |-> "FAST", highgain |-> "HIGHGAIN",
   dynamicgain |-> "DYNAMICGAIN", lowgain |-> "LOWGAIN", mediumgain |-> "MEDIUMGAIN",
   veryhighgain |-> "VERYHIGHGAIN"]

\* Fault: the list is one short and the last name takes the wrong place.
timingOfShifted ==
  [auto |-> "AUTO_TIMING", trigger |-> "TRIGGER_EXPOSURE", ro_trigger |-> "TRIGGER_READOUT",
   gating |-> "GATE_FIX_NUMBER", burst_trigger |-> "GATE_WITH_START_TRIGGER"]

\* Base and Users.
timingOf ==
  [auto |-> "AUTO_TIMING", trigger |-> "TRIGGER_EXPOSURE",
   ro_trigger |-> "TRIGGER_READOUT", gating |-> "GATE_FIX_NUMBER",
   triggered_gating |-> "GATE_WITH_START_TRIGGER", burst_trigger |-> "BURST_TRIGGER"]

adcOf ==
  [temp_fpga |-> "TEMPERATURE_FPGA", temp_fpgaext |-> "TEMPERATURE_FPGAEXT",
   temp_10ge |-> "TEMPERATURE_10GE", temp_dcdc |-> "TEMPERATURE_DCDC",
   temp_sodl |-> "TEMPERATURE_SODL", temp_sodr |-> "TEMPERATURE_SODR",
   temp_fpgafl |-> "TEMPERATURE_FPGA2", temp_fpgafr |-> "TEMPERATURE_FPGA3"]

dacOf ==
  [vcmp_ll |-> "E_Vcmp_ll", vcmp_lr |-> "E_Vcmp_lr", vcmp_rl |-> "E_Vcmp_rl",
   vcmp_rr |-> "E_Vcmp_rr", vthreshold |-> "THRESHOLD", vrf |-> "E_Vrf",
   vrs |-> "E_Vrs", vtr |-> "E_Vtr", vcall |-> "E_cal", vcp |-> "E_Vcp"]

discardPolicyOf ==
  [nodiscard |-> "NO_DISCARD", discardempty |-> "DISCARD_EMPTY_FRAMES",
   discardpartial |-> "DISCARD_PARTIAL_FRAMES"]
=============================================================================
