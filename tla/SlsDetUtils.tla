------------------------------ MODULE SlsDetUtils ------------------------------
(***************************************************************************)
(* The functions slsDetectorUtils, slsDetectorBase and postProcessing      *)
(* define in their headers on top of the library: the streams of data out  *)
(* of the receiver and into the client, and the readout modes.             *)
(*                                                                         *)
(* The library is external.  A stream started by it runs with the port and *)
(* the address set at that moment; setting a parameter may fail, and then  *)
(* leaves it as it was.  Readout flags of one group exclude each other.    *)
(***************************************************************************)
EXTENDS Integers, FiniteSets

CONSTANTS
  ParameterValues  \* what a port or an address is set to

VARIABLES
  param,     \* the network parameters of the streams
  on,        \* the streams that are enabled
  running,   \* the parameters each stream was started with
  flags,     \* the readout flags
  asked      \* the readout modes last asked for, -1 before that

utilsVars == <<param, on, running, flags, asked>>

Streams == {"receiver", "client"}
Parameters == {"port", "ip"}
Parallel == {"PARALLEL", "NONPARALLEL", "SAFE"}
Overflow == {"SHOW_OVERFLOW", "NOOVERFLOW"}

UtilsInit ==
  /\ \E v \in ParameterValues : param = [s \in Streams |-> [p \in Parameters |-> v]]
  /\ on = {}
  /\ running = param
  /\ flags = {"NONPARALLEL", "NOOVERFLOW"}
  /\ asked = [parallel |-> -1, overflow |-> -1]

-----------------------------------------------------------------------------
(* Streams *)

\* enableDataStreamingFromReceiver, enableDataStreamingToClient
Enabled(s, b) ==
  /\ on' = IF b THEN on \cup {s} ELSE on \ {s}
  /\ running' = IF b /\ s \notin on THEN [running EXCEPT ![s] = param[s]] ELSE running

EnableStreaming(s) ==
  /\ \E b \in BOOLEAN : Enabled(s, b)
  /\ UNCHANGED <<param, flags, asked>>

\* registerDataCallback: a callback enables the stream to the client, NULL
\* disables it.
RegisterDataCallback ==
  /\ \E b \in BOOLEAN : Enabled("client", b)
  /\ UNCHANGED <<param, flags, asked>>

\* Fault: a stream that runs is left running.
SetStreamingUnrestarted(s, p) ==
  /\ \E v \in ParameterValues : param' = [param EXCEPT ![s][p] = v]
  /\ UNCHANGED <<on, running, flags, asked>>

\* setReceiverDataStreamingOutPort, setClientDataStreamingInPort and the two
\* for the addresses: a stream that runs is stopped and started again.
SetStreaming(s, p) ==
  /\ \E v \in ParameterValues : param' \in {param, [param EXCEPT ![s][p] = v]}
  /\ running' = IF s \in on THEN [running EXCEPT ![s] = param'[s]] ELSE running
  /\ UNCHANGED <<on, flags, asked>>

-----------------------------------------------------------------------------
(* Readout modes *)

\* The flag setParallelMode hands to setReadOutFlags.
ParallelFlag(v) == CASE v = 0 -> "NONPARALLEL" [] v = 1 -> "PARALLEL" [] OTHER -> "SAFE"

SetParallelMode ==
  /\ \E v \in -1..3 :
       IF v >= 0
       THEN /\ flags' = (flags \ Parallel) \cup {ParallelFlag(v)}
            /\ asked' = [asked EXCEPT !.parallel = IF v > 2 THEN 2 ELSE v]
       ELSE UNCHANGED <<flags, asked>>
  /\ UNCHANGED <<param, on, running>>

SetOverflowMode ==
  /\ \E v \in -1..2 :
       IF v \in {0, 1}
       THEN /\ flags' = (flags \ Overflow) \cup {IF v = 1 THEN "SHOW_OVERFLOW" ELSE "NOOVERFLOW"}
            /\ asked' = [asked EXCEPT !.overflow = v]
       ELSE UNCHANGED <<flags, asked>>
  /\ UNCHANGED <<param, on, running>>

\* Fault: the safe mode is told as the serial one.
ParallelModeUnsafe ==
  CASE "NONPARALLEL" \in flags -> 0 [] "PARALLEL" \in flags -> 1 [] OTHER -> 0

\* getParallelMode, getOverflowMode
ParallelMode ==
  CASE "NONPARALLEL" \in flags -> 0 [] "PARALLEL" \in flags -> 1
    [] "SAFE" \in flags -> 2 [] OTHER -> -1
OverflowMode ==
  CASE "SHOW_OVERFLOW" \in flags -> 1 [] "NOOVERFLOW" \in flags -> 0 [] OTHER -> -1

UtilsNext ==
  \/ \E s \in Streams : EnableStreaming(s) \/ \E p \in Parameters : SetStreaming(s, p)
  \/ RegisterDataCallback
  \/ SetParallelMode
  \/ SetOverflowMode

UtilsSpec == UtilsInit /\ [][UtilsNext]_utilsVars

-----------------------------------------------------------------------------
(* Properties *)

\* A stream that is enabled runs with the port and the address that are set,
\* whatever they were when it was enabled.
StreamsRunAsSet == \A s \in on : running[s] = param[s]

\* The readout modes are read back as they were asked for, each whatever is
\* done to the other; a parallel mode above 2 is the safe one.
ModesAreReadBack ==
  /\ asked.parallel >= 0 => ParallelMode = asked.parallel
  /\ asked.overflow >= 0 => OverflowMode = asked.overflow

\* What was set is what holds: a stream runs with it, a readout mode is it.
SettingsHold == StreamsRunAsSet /\ ModesAreReadBack
=============================================================================
