---------------------------- MODULE SlsTables_proofs ----------------------------
(***************************************************************************)
(* Proofs about the parts that share no state with each other: the streams *)
(* and readout modes, the message, the masks of errors, the numbers of the *)
(* functions, the configuration of an IOC with its hostnames and shared    *)
(* memories, the bad channels of a module and the menus of the records.    *)
(***************************************************************************)
EXTENDS SlsDetConfig, SlsDetUtils, SlsDetMessageCell, SlsErrors, SlsDetFuncs, SlsDetEnums,
        SlsBadChannels,
        WellFoundedInduction, FiniteSetTheorems, SequenceTheorems, TLAPS

-----------------------------------------------------------------------------
(* Streams and readout modes *)

UtilsTypes ==
  /\ param \in [Streams -> [Parameters -> ParameterValues]]
  /\ running \in [Streams -> [Parameters -> ParameterValues]]
  /\ on \subseteq Streams
  /\ asked \in [parallel : -1..2, overflow : -1..1]

\* Of each group one flag is up, the one that was asked for if any was.
FlagsAsAsked ==
  /\ \E v \in 0..2 : flags \cap Parallel = {ParallelFlag(v)} /\ asked.parallel \in {-1, v}
  /\ \E f \in Overflow : flags \cap Overflow = {f}
  /\ asked.overflow = 1 => "SHOW_OVERFLOW" \in flags
  /\ asked.overflow = 0 => "NOOVERFLOW" \in flags

UtilsInv == UtilsTypes /\ StreamsRunAsSet /\ FlagsAsAsked

LEMMA UtilsInitially == UtilsInit => UtilsInv
<1> SUFFICES ASSUME UtilsInit PROVE UtilsInv
  OBVIOUS
<1>1. UtilsTypes
  BY DEF UtilsInit, UtilsTypes
<1>2. FlagsAsAsked
  <2>1. flags \cap Parallel = {ParallelFlag(0)} /\ asked.parallel = -1
    BY DEF UtilsInit, Parallel, ParallelFlag
  <2>2. flags \cap Overflow = {"NOOVERFLOW"} /\ asked.overflow = -1
    BY DEF UtilsInit, Overflow
  <2> QED BY <2>1, <2>2 DEF FlagsAsAsked, Overflow
<1> QED BY <1>1, <1>2 DEF UtilsInit, UtilsInv, StreamsRunAsSet

\* A stream that is switched on takes what is set, one that runs is left alone.
LEMMA EnabledInv ==
  ASSUME UtilsInv, NEW s \in Streams, NEW b \in BOOLEAN, Enabled(s, b),
         UNCHANGED <<param, flags, asked>>
  PROVE  UtilsInv'
<1>1. UtilsTypes'
  BY DEF UtilsInv, UtilsTypes, Enabled
<1>2. StreamsRunAsSet'
  BY DEF UtilsInv, UtilsTypes, StreamsRunAsSet, Enabled
<1>3. FlagsAsAsked'
  BY DEF UtilsInv, FlagsAsAsked
<1> QED BY <1>1, <1>2, <1>3 DEF UtilsInv

LEMMA SetStreamingInv ==
  ASSUME UtilsInv, NEW s \in Streams, NEW p \in Parameters, SetStreaming(s, p)
  PROVE  UtilsInv'
<1> USE DEF UtilsInv, UtilsTypes
<1>1. PICK v \in ParameterValues : param' = param \/ param' = [param EXCEPT ![s][p] = v]
  BY DEF SetStreaming
<1>2. param' \in [Streams -> [Parameters -> ParameterValues]]
  <2>1. [param[s] EXCEPT ![p] = v] \in [Parameters -> ParameterValues]
    OBVIOUS
  <2>2. [param EXCEPT ![s] = [param[s] EXCEPT ![p] = v]]
          \in [Streams -> [Parameters -> ParameterValues]]
    BY <2>1
  <2>3. [param EXCEPT ![s][p] = v] = [param EXCEPT ![s] = [param[s] EXCEPT ![p] = v]]
    OBVIOUS
  <2> QED BY <1>1, <2>2, <2>3
<1>3. running' = IF s \in on THEN [running EXCEPT ![s] = param'[s]] ELSE running
  BY DEF SetStreaming
<1>4. /\ \A r \in Streams \ {s} : param'[r] = param[r] /\ running'[r] = running[r]
      /\ s \in on => running'[s] = param'[s]
  BY <1>1, <1>3
<1>5. UtilsTypes'
  BY <1>2, <1>3 DEF SetStreaming
<1>6. StreamsRunAsSet'
  <2> SUFFICES ASSUME NEW r \in on PROVE running'[r] = param'[r]
    BY DEF StreamsRunAsSet, SetStreaming
  <2> QED BY <1>4 DEF StreamsRunAsSet
<1>7. FlagsAsAsked'
  BY DEF FlagsAsAsked, SetStreaming
<1> QED BY <1>5, <1>6, <1>7

LEMMA SetParallelModeInv == ASSUME UtilsInv, SetParallelMode PROVE UtilsInv'
<1>1. PICK v \in -1..3 :
        IF v >= 0
        THEN /\ flags' = (flags \ Parallel) \cup {ParallelFlag(v)}
             /\ asked' = [asked EXCEPT !.parallel = IF v > 2 THEN 2 ELSE v]
        ELSE UNCHANGED <<flags, asked>>
  BY DEF SetParallelMode
<1>2. UNCHANGED <<param, on, running>>
  BY DEF SetParallelMode
<1>3. CASE v >= 0
  <2> DEFINE w == IF v > 2 THEN 2 ELSE v
  <2>1. w \in 0..2 /\ ParallelFlag(v) = ParallelFlag(w) /\ ParallelFlag(v) \in Parallel
    BY <1>3 DEF ParallelFlag, Parallel
  <2>2. ParallelFlag(v) \notin Overflow /\ Overflow \cap Parallel = {}
    BY <1>3 DEF ParallelFlag, Overflow, Parallel
  <2>3. flags' \cap Parallel = {ParallelFlag(w)} /\ flags' \cap Overflow = flags \cap Overflow
    BY <1>1, <1>3, <2>1, <2>2
  <2>4. asked' = [asked EXCEPT !.parallel = w]
    BY <1>1, <1>3
  <2> HIDE DEF w
  <2>5. UtilsTypes'
    BY <1>2, <2>1, <2>4 DEF UtilsInv, UtilsTypes
  <2>6. asked'.parallel = w /\ asked'.overflow = asked.overflow
    BY <2>4 DEF UtilsInv, UtilsTypes
  <2>7. \A f \in Overflow : f \in flags' <=> f \in flags
    BY <2>3
  <2>8. FlagsAsAsked'
    BY <2>1, <2>3, <2>6, <2>7 DEF UtilsInv, FlagsAsAsked, Overflow
  <2> QED BY <1>2, <2>5, <2>8 DEF UtilsInv, StreamsRunAsSet
<1>4. CASE ~(v >= 0)
  BY <1>1, <1>2, <1>4 DEF UtilsInv, UtilsTypes, StreamsRunAsSet, FlagsAsAsked
<1> QED BY <1>3, <1>4

LEMMA SetOverflowModeInv == ASSUME UtilsInv, SetOverflowMode PROVE UtilsInv'
<1>1. PICK v \in -1..2 :
        IF v \in {0, 1}
        THEN /\ flags' = (flags \ Overflow) \cup {IF v = 1 THEN "SHOW_OVERFLOW" ELSE "NOOVERFLOW"}
             /\ asked' = [asked EXCEPT !.overflow = v]
        ELSE UNCHANGED <<flags, asked>>
  BY DEF SetOverflowMode
<1>2. UNCHANGED <<param, on, running>>
  BY DEF SetOverflowMode
<1>3. CASE v \in {0, 1}
  <2> DEFINE f == IF v = 1 THEN "SHOW_OVERFLOW" ELSE "NOOVERFLOW"
  <2>1. f \in Overflow /\ f \notin Parallel /\ Overflow \cap Parallel = {}
    BY DEF Overflow, Parallel
  <2>2. flags' = (flags \ Overflow) \cup {f} /\ asked' = [asked EXCEPT !.overflow = v]
    BY <1>1, <1>3
  <2>3. (v = 1 => f = "SHOW_OVERFLOW") /\ (v = 0 => f = "NOOVERFLOW")
    OBVIOUS
  <2> HIDE DEF f
  <2>4. flags' \cap Overflow = {f} /\ flags' \cap Parallel = flags \cap Parallel /\ f \in flags'
    BY <2>1, <2>2
  <2>5. UtilsTypes'
    BY <1>2, <1>3, <2>2 DEF UtilsInv, UtilsTypes
  <2>6. asked'.overflow = v /\ asked'.parallel = asked.parallel
    BY <2>2 DEF UtilsInv, UtilsTypes
  <2>7. FlagsAsAsked'
    BY <2>1, <2>3, <2>4, <2>6 DEF UtilsInv, FlagsAsAsked
  <2> QED BY <1>2, <2>5, <2>7 DEF UtilsInv, StreamsRunAsSet
<1>4. CASE v \notin {0, 1}
  BY <1>1, <1>2, <1>4 DEF UtilsInv, UtilsTypes, StreamsRunAsSet, FlagsAsAsked
<1> QED BY <1>3, <1>4

LEMMA UtilsInductive == UtilsInv /\ [UtilsNext]_utilsVars => UtilsInv'
<1> SUFFICES ASSUME UtilsInv, [UtilsNext]_utilsVars PROVE UtilsInv'
  OBVIOUS
<1>1. ASSUME NEW s \in Streams, EnableStreaming(s) PROVE UtilsInv'
  BY <1>1, EnabledInv DEF EnableStreaming
<1>2. ASSUME RegisterDataCallback PROVE UtilsInv'
  BY <1>2, EnabledInv DEF RegisterDataCallback, Streams
<1>3. CASE UNCHANGED utilsVars
  BY <1>3 DEF utilsVars, UtilsInv, UtilsTypes, StreamsRunAsSet, FlagsAsAsked
<1> QED BY <1>1, <1>2, <1>3, SetStreamingInv, SetParallelModeInv, SetOverflowModeInv DEF UtilsNext

\* What was set holds, whatever else is set, switched on or off in between: a
\* stream runs with the port and the address that are set, and a readout mode is
\* read back as it was asked for (slsDetectorUtils.h, slsDetectorBase.h,
\* postProcessing.h).
THEOREM SettingsDoHold == UtilsSpec => []SettingsHold
<1>1. UtilsInv => SettingsHold
  <2> SUFFICES ASSUME UtilsInv PROVE ModesAreReadBack
    BY DEF UtilsInv, SettingsHold
  <2>1. PICK v \in 0..2 : flags \cap Parallel = {ParallelFlag(v)} /\ asked.parallel \in {-1, v}
    BY DEF UtilsInv, FlagsAsAsked
  <2>2. \A f \in Parallel : f \in flags <=> f = ParallelFlag(v)
    BY <2>1
  <2>3. ParallelMode = v
    <3>1. ("NONPARALLEL" \in flags <=> v = 0) /\ ("PARALLEL" \in flags <=> v = 1)
          /\ ("SAFE" \in flags <=> v = 2)
      BY <2>2 DEF Parallel, ParallelFlag
    <3> QED BY <3>1 DEF ParallelMode
  <2>4. PICK f \in Overflow : flags \cap Overflow = {f}
    BY DEF UtilsInv, FlagsAsAsked
  <2>5. asked.overflow \in -1..1 /\ asked.parallel \in -1..2
    BY DEF UtilsInv, UtilsTypes
  <2>6. ~("SHOW_OVERFLOW" \in flags /\ "NOOVERFLOW" \in flags)
    BY <2>4 DEF Overflow
  <2>7. asked.overflow >= 0 => OverflowMode = asked.overflow
    BY <2>5, <2>6 DEF OverflowMode, UtilsInv, FlagsAsAsked
  <2> QED BY <2>1, <2>3, <2>5, <2>7 DEF ModesAreReadBack
<1> QED BY <1>1, UtilsInitially, UtilsInductive, PTL DEF UtilsSpec

-----------------------------------------------------------------------------
(* The message *)

Storages == [member : {"zero", "String"} \cup NumberTypes, v : Int \cup Buffers]

CellTypes ==
  /\ text \in [Buffers -> Numbers]
  /\ cell \in [Cells -> [dtype : DataType, data : Storages]]
  /\ last \in [Cells -> Int]

\* A message that is no string has its zeroed storage or what it was last set
\* to, written as its own type.
StandsForLast(c) ==
  cell[c].dtype # "String" =>
    \/ cell[c].data = Zeroed /\ last[c] = 0
    \/ cell[c].data = Storage(cell[c].dtype, last[c])

CellInv == CellTypes /\ (\A c \in Cells : StandsForLast(c)) /\ GotIsWhatWasSet

\* What a message reads as through its own type is what it stands for.
LEMMA MemberIsWanted ==
  ASSUME CellInv, NEW c \in Cells, NEW t \in DataType \ {"None"}, cell[c].dtype = t
  PROVE  Member(c, t) = Want(c)
<1>1. CASE t = "String"
  BY <1>1 DEF Want
<1>2. CASE t # "String"
  <2>1. StandsForLast(c)
    BY DEF CellInv
  <2>2. CASE cell[c].data = Zeroed /\ last[c] = 0
    BY <1>2, <2>2 DEF Zeroed, Storage, Member, Want, DataType
  <2>3. CASE cell[c].data = Storage(t, last[c])
    <3>1. cell[c].data.member = t /\ cell[c].data.v = last[c]
      BY <2>3 DEF Storage
    <3> QED BY <1>2, <3>1 DEF Member, Want
  <2> QED BY <1>2, <2>1, <2>2, <2>3 DEF StandsForLast
<1> QED BY <1>1, <1>2

\* A step that gets nothing and leaves every message standing for what it was
\* last set to.
LEMMA CellKept ==
  ASSUME CellInv, CellTypes', got' = got, \A c \in Cells : StandsForLast(c)'
  PROVE  CellInv'
BY DEF CellInv, GotIsWhatWasSet

LEMMA CellInductive == CellInv /\ [CellNext]_cellVars => CellInv'
<1> SUFFICES ASSUME CellInv, [CellNext]_cellVars PROVE CellInv'
  OBVIOUS
<1> USE DEF CellTypes
<1>1. CellTypes /\ \A c \in Cells : StandsForLast(c)
  BY DEF CellInv
<1>2. Zeroed \in Storages
  BY DEF Zeroed, Storage, Storages
<1>3. ASSUME NEW c \in Cells, NEW t \in DataType, Construct(c, t) PROVE CellInv'
  <2>1. CellTypes'
    BY <1>1, <1>2, <1>3 DEF Construct
  <2>2. ASSUME NEW d \in Cells PROVE StandsForLast(d)'
    BY <1>1, <1>3 DEF Construct, StandsForLast
  <2> QED BY <1>3, <2>1, <2>2, CellKept DEF Construct
<1>4. ASSUME NEW c \in Cells, NEW t \in NumberTypes, NEW v \in Numbers, SetNumber(c, t, v)
      PROVE  CellInv'
  <2>1. Storage(t, v) \in Storages /\ v \in Int
    BY CellConstants DEF Storage, Storages
  <2>2. CellTypes'
    BY <1>1, <1>4, <2>1 DEF SetNumber
  <2>3. ASSUME NEW d \in Cells PROVE StandsForLast(d)'
    BY <1>1, <1>4 DEF SetNumber, Accepts, StandsForLast
  <2> QED BY <1>4, <2>2, <2>3, CellKept DEF SetNumber
<1>5. ASSUME NEW c \in Cells, NEW b \in Buffers, SetString(c, b) PROVE CellInv'
  <2>1. Storage("String", b) \in Storages
    BY DEF Storage, Storages
  <2>2. CellTypes'
    BY <1>1, <1>5, <2>1 DEF SetString
  <2>3. ASSUME NEW d \in Cells PROVE StandsForLast(d)'
    BY <1>1, <1>5 DEF SetString, Accepts, StandsForLast
  <2> QED BY <1>5, <2>2, <2>3, CellKept DEF SetString
<1>6. ASSUME NEW b \in Buffers, NEW v \in Numbers, WriteText(b, v) PROVE CellInv'
  <2>1. CellTypes' /\ \A d \in Cells : StandsForLast(d)'
    BY <1>1, <1>6 DEF WriteText, StandsForLast
  <2> QED BY <1>6, <2>1, CellKept DEF WriteText
<1>7. ASSUME NEW c \in Cells, NEW d \in Cells, Copy(c, d) PROVE CellInv'
  <2>1. CellTypes'
    BY <1>1, <1>7 DEF Copy
  <2>2. ASSUME NEW e \in Cells PROVE StandsForLast(e)'
    BY <1>1, <1>7 DEF Copy, StandsForLast
  <2> QED BY <1>7, <2>1, <2>2, CellKept DEF Copy
<1>8. ASSUME NEW c \in Cells, NEW t \in DataType \ {"None"}, Get(c, t) \/ As(c, t) PROVE CellInv'
  <2>1. CellTypes' /\ \A d \in Cells : StandsForLast(d)'
    BY <1>1, <1>8 DEF Get, As, StandsForLast
  <2>2. got'.asked = t /\ got'.of = cell[c].dtype /\ got'.want = Want(c)
    BY <1>8 DEF Get, As
  <2>3. cell[c].dtype = t => got'.v = Member(c, t)
    BY <1>8 DEF Get, As
  <2>4. GotIsWhatWasSet'
    BY <2>2, <2>3, MemberIsWanted DEF GotIsWhatWasSet
  <2> QED BY <2>1, <2>4 DEF CellInv
<1>9. CASE UNCHANGED cellVars
  BY <1>9 DEF cellVars, CellInv, StandsForLast, GotIsWhatWasSet
<1> QED BY <1>3, <1>4, <1>5, <1>6, <1>7, <1>8, <1>9 DEF CellNext

\* What is got of a message as its own type is what it was last set to, through
\* any number of copies, and of a string what its text says at that moment
\* (slsDetMessage.cpp; slsDetMessage.h).
THEOREM GotIsSet == CellSpec => []GotIsWhatWasSet
<1>1. CellInit => CellInv
  <2> SUFFICES ASSUME CellInit PROVE CellInv
    OBVIOUS
  <2>1. CellTypes
    BY DEF CellInit, CellTypes, Storages, Zeroed, Storage, DataType
  <2>2. (\A c \in Cells : StandsForLast(c)) /\ GotIsWhatWasSet
    BY DEF CellInit, StandsForLast, GotIsWhatWasSet
  <2> QED BY <2>1, <2>2 DEF CellInv
<1>2. CellInv => GotIsWhatWasSet
  BY DEF CellInv
<1> QED BY <1>1, <1>2, CellInductive, PTL DEF CellSpec

-----------------------------------------------------------------------------
(* The masks of errors *)

\* No two of the errors have a bit in common.
LEMMA BitsAreDistinct ==
  ASSUME NEW e \in Errors, NEW f \in Errors, Bit(e) = Bit(f)
  PROVE  e = f
BY SMTT(60) DEF Errors, Bit, HighBit, LowBit

\* There is no message without an error.
LEMMA ToldAreErrors == Told \subseteq Errors
BY SMTT(60) DEF Errors, HighBit, LowBit, Told, ToldFirst, ToldThen

\* A mask is the bits of the errors that were raised.
MasksOfErrors ==
  /\ mask \in [Modules -> SUBSET Int]
  /\ raised \in [Modules -> SUBSET Errors]
  /\ \A m \in Modules : mask[m] = {Bit(e) : e \in raised[m]}

LEMMA MasksInitially == ErrorsInit => MasksOfErrors
BY DEF ErrorsInit, MasksOfErrors

LEMMA BitsAreIntegers == \A e \in Errors : Bit(e) \in Int
BY SMTT(60) DEF Errors, Bit, HighBit, LowBit

LEMMA MasksInductive == MasksOfErrors /\ [ErrorsNext]_errorsVars => MasksOfErrors'
<1> SUFFICES ASSUME MasksOfErrors, [ErrorsNext]_errorsVars PROVE MasksOfErrors'
  OBVIOUS
<1>1. ASSUME NEW m \in Modules, RaiseError(m) PROVE MasksOfErrors'
  <2>1. PICK e \in Errors :
          /\ mask' = [mask EXCEPT ![m] = @ \cup {Bit(e)}]
          /\ raised' = [raised EXCEPT ![m] = @ \cup {e}]
    BY <1>1 DEF RaiseError
  <2>2. mask' \in [Modules -> SUBSET Int] /\ raised' \in [Modules -> SUBSET Errors]
    BY <2>1, BitsAreIntegers DEF MasksOfErrors
  <2>3. ASSUME NEW n \in Modules PROVE mask'[n] = {Bit(f) : f \in raised'[n]}
    BY <2>1 DEF MasksOfErrors
  <2> QED BY <2>2, <2>3 DEF MasksOfErrors
<1>2. ASSUME NEW m \in Modules, ExecuteLine(m) PROVE MasksOfErrors'
  BY <1>2 DEF ExecuteLine, MasksOfErrors
<1>3. ASSUME NEW m \in Modules, ClearErrorMask(m) PROVE MasksOfErrors'
  BY <1>3 DEF ClearErrorMask, MasksOfErrors
<1>4. ASSUME ClearAllErrorMask PROVE MasksOfErrors'
  BY <1>4 DEF ClearAllErrorMask, MasksOfErrors
<1>5. CASE UNCHANGED errorsVars
  BY <1>5 DEF errorsVars, MasksOfErrors
<1> QED BY <1>1, <1>2, <1>3, <1>4, <1>5 DEF ErrorsNext

\* The messages of a mask are those of the errors that were raised: no error is
\* told as another, for any number of errors in a mask (getErrorMessage,
\* error_defs.h:119-314).
THEOREM MessagesOfTheErrors == ErrorsSpec => []MessagesAreOfTheErrors
<1>1. MasksOfErrors => MessagesAreOfTheErrors
  <2> SUFFICES ASSUME MasksOfErrors, NEW m \in Modules
               PROVE  ErrorMessage(mask[m]) = raised[m] \cap Told
    BY DEF MessagesAreOfTheErrors
  <2>1. raised[m] \subseteq Errors /\ mask[m] = {Bit(e) : e \in raised[m]}
    BY DEF MasksOfErrors
  <2>2. ASSUME NEW e \in Told PROVE Bit(e) \in mask[m] <=> e \in raised[m]
    BY <2>1, BitsAreDistinct, ToldAreErrors
  <2> QED BY <2>2 DEF ErrorMessage
<1> QED BY <1>1, MasksInitially, MasksInductive, PTL DEF ErrorsSpec

\* What 1<<id sets.
LEMMA BitOfModule ==
  ASSUME NEW id \in 0..62
  PROVE  /\ ModuleBit(id) # {}
         /\ id < 32 => id \in ModuleBit(id)
         /\ id <= 30 => ModuleBit(id) = {id}
<1>1. CASE id % 32 = 31
  BY <1>1 DEF ModuleBit
<1>2. CASE id % 32 # 31
  BY <1>2 DEF ModuleBit
<1> QED BY <1>1, <1>2

\* The mask of the whole has the bits of the modules on which commands have left
\* errors, whatever those bits are.
MaskOfFailed ==
  failed \subseteq Modules /\ multi = UNION {ModuleBit(m) : m \in failed}

LEMMA MaskOfFailedInductive ==
  /\ ErrorsInit => MaskOfFailed
  /\ MaskOfFailed /\ [ErrorsNext]_errorsVars => MaskOfFailed'
<1>1. ErrorsInit => MaskOfFailed
  BY DEF ErrorsInit, MaskOfFailed
<1>2. ASSUME MaskOfFailed, [ErrorsNext]_errorsVars PROVE MaskOfFailed'
  <2> USE <1>2
  <2>1. ASSUME NEW m \in Modules, ExecuteLine(m) PROVE MaskOfFailed'
    <3>1. CASE mask[m] # {}
      BY <2>1, <3>1 DEF ExecuteLine, MaskOfFailed
    <3>2. CASE mask[m] = {}
      BY <2>1, <3>2 DEF ExecuteLine, MaskOfFailed
    <3> QED BY <3>1, <3>2
  <2>2. ASSUME NEW m \in Modules, RaiseError(m) \/ ClearErrorMask(m) PROVE MaskOfFailed'
    BY <2>2 DEF RaiseError, ClearErrorMask, MaskOfFailed
  <2>3. ASSUME ClearAllErrorMask PROVE MaskOfFailed'
    BY <2>3 DEF ClearAllErrorMask, MaskOfFailed
  <2>4. CASE UNCHANGED errorsVars
    BY <2>4 DEF errorsVars, MaskOfFailed
  <2> QED BY <2>1, <2>2, <2>3, <2>4 DEF ErrorsNext
<1> QED BY <1>1, <1>2

LEMMA FailedAreFlagged == MaskOfFailed => FlaggedAreFailed
<1> SUFFICES ASSUME MaskOfFailed PROVE FlaggedAreFailed
  OBVIOUS
<1>1. failed \subseteq 0..62 /\ failed \subseteq Modules
  BY ErrorsConstants DEF MaskOfFailed
<1>2. \A b : b \in multi <=> \E m \in failed : b \in ModuleBit(m)
  BY DEF MaskOfFailed
<1>3. multi = {} <=> failed = {}
  <2>1. ASSUME NEW m \in failed PROVE multi # {}
    <3>1. ModuleBit(m) # {}
      BY <1>1, BitOfModule
    <3> QED BY <1>2, <3>1, Zenon
  <2> QED BY <1>2, <2>1, Zenon
<1>4. \A m \in failed : m < 32 => m \in multi
  BY <1>1, <1>2, BitOfModule
<1>5. ASSUME failed \subseteq 0..30 PROVE {m \in Modules : m \in multi} = failed
  <2>1. ASSUME NEW m \in failed PROVE ModuleBit(m) = {m}
    <3>1. m \in 0..62 /\ m <= 30
      BY <1>1, <1>5
    <3> QED BY <3>1, BitOfModule
  <2>2. \A b : b \in multi <=> b \in failed
    BY <1>2, <2>1
  <2> QED BY <1>1, <2>2
<1> QED BY <1>3, <1>4, <1>5 DEF FlaggedAreFailed

\* Of any set of modules: the mask of the whole detector tells that a command has
\* left errors, names every module below 32 that has them, and exactly those
\* when none is above 30; and the messages of a mask are those of its errors
\* (multiSlsDetectorCommand.h:36-44; error_defs.h:119-314).
THEOREM ErrorsAreToldOfTheModules == ErrorsSpec => []ErrorsAreTold
<1>1. MaskOfFailed /\ MessagesAreOfTheErrors => ErrorsAreTold
  BY FailedAreFlagged DEF ErrorsAreTold
<1> QED BY <1>1, MaskOfFailedInductive, MessagesOfTheErrors, PTL DEF ErrorsSpec

-----------------------------------------------------------------------------
(* The numbers of the functions *)

\* The detector's numbers end below the receiver's.
LEMMA ListsAreApart ==
  ASSUME NEW f \in DetIndexes, NEW g \in RecIndexes
  PROVE  f[2] # g[2]
<1>1. DOMAIN DetFuncs = 1..82
  BY SMTT(60) DEF DetFuncs
<1>2. DOMAIN RecFuncs = 1..50
  BY SMTT(60) DEF RecFuncs
<1>3. f[2] < 82
  BY <1>1 DEF DetIndexes
<1>4. g[2] >= 128
  BY <1>2 DEF RecIndexes, RecFuncStartIndex
<1> QED BY <1>1, <1>2, <1>3, <1>4 DEF DetIndexes, RecIndexes, RecFuncStartIndex

\* An index of one list is that of one function.
LEMMA OneFunctionEach ==
  ASSUME NEW f \in DetIndexes \cup RecIndexes, NEW g \in DetIndexes \cup RecIndexes, f[2] = g[2]
  PROVE  f[1] = g[1]
<1>1. DOMAIN DetFuncs \subseteq Int /\ DOMAIN RecFuncs \subseteq Int
  BY SMTT(60) DEF DetFuncs, RecFuncs
<1>2. CASE f \in DetIndexes /\ g \in DetIndexes
  BY <1>1, <1>2 DEF DetIndexes
<1>3. CASE f \in RecIndexes /\ g \in RecIndexes
  BY <1>1, <1>3 DEF RecIndexes, RecFuncStartIndex
<1> QED BY <1>2, <1>3, ListsAreApart

\* What is sent is a function of one of the lists.
SentIsListed == sent \in DetIndexes \cup RecIndexes \cup {NotSent}

\* A server carries out the function the client means or none, however much of
\* the lists it lacks and whichever of the two servers it is
\* (sls_detector_funcs.h, sls_receiver_funcs.h).
THEOREM MeantOrRefused == FuncsSpec => OnlyWhatIsMeant
<1>1. FuncsInit => SentIsListed
  BY DEF FuncsInit, SentIsListed
<1>2. SentIsListed /\ [FuncsNext]_funcsVars => SentIsListed'
  BY DEF SentIsListed, FuncsNext, Send, Serve, funcsVars
<1>3. SentIsListed /\ [FuncsNext]_funcsVars => [Serve => done' \in {sent[1], "refused"}]_funcsVars
  <2> SUFFICES ASSUME SentIsListed, Serve PROVE done' \in {sent[1], "refused"}
    OBVIOUS
  <2>1. sent \in DetIndexes \cup RecIndexes
    BY DEF SentIsListed, Serve
  <2>2. Known(server) \subseteq DetIndexes \cup RecIndexes
    BY DEF Known
  <2>3. ASSUME NEW f \in Known(server), f[2] = sent[2], done' = f[1] PROVE done' = sent[1]
    BY <2>1, <2>2, <2>3, OneFunctionEach
  <2> QED BY <2>3 DEF Serve
<1> QED BY <1>1, <1>2, <1>3, PTL DEF FuncsSpec, OnlyWhatIsMeant

-----------------------------------------------------------------------------
(* Configuration: induction, for the loop of SlsDetConfigure *)

\* A set of natural numbers has a first element.
LEMMA FirstIsLeast ==
  ASSUME NEW T, T \subseteq Nat, T # {}
  PROVE  First(T) \in T /\ \A j \in T : First(T) <= j
<1> DEFINE R == OpToRel(<, Nat)
<1>1. IsWellFoundedOn(R, Nat)
  BY NatLessThanWellFounded, Zenon
<1>2. \A x, y \in Nat : x < y => <<x, y>> \in R
  BY Zenon DEF OpToRel
<1> HIDE DEF R
<1>3. PICK x \in T : \A y \in T : ~(<<y, x>> \in R)
  BY <1>1, WFMin
<1>4. ASSUME NEW y \in T PROVE x <= y
  <2>1. x \in Nat /\ y \in Nat
    OBVIOUS
  <2>2. ~(y < x)
    BY <1>2, <1>3, <2>1, Zenon
  <2> QED BY <2>1, <2>2
<1> QED BY <1>3, <1>4 DEF First

\* Induction over the natural numbers, for a set of them.
LEMMA SetInduction ==
  ASSUME NEW T, 0 \in T, \A n \in Nat : n \in T => n + 1 \in T
  PROVE  \A n \in Nat : n \in T
<1> DEFINE U == Nat \ T
<1> SUFFICES ASSUME U # {} PROVE FALSE
  OBVIOUS
<1>1. First(U) \in U /\ \A j \in U : First(U) <= j
  BY FirstIsLeast
<1>2. First(U) - 1 \in Nat \ U
  BY <1>1
<1> QED BY <1>1, <1>2

-----------------------------------------------------------------------------
(* The loop of SlsDetConfigure ends, and is one function *)

\* One turn of the loop, with what the later turns find.
SplitAt(line, f, start) ==
  IF Found(line, start) = {} THEN Pushed(SubSeq(line, start, Len(line)))
  ELSE LET next == First(Found(line, start))
       IN  Pushed(SubSeq(line, start, next - 1)) \o f[next + 1]

Splits(line, f) == f = [start \in 1..(Len(line) + 1) |-> SplitAt(line, f, start)]

LEMMA HostnamesAreSplit == ASSUME NEW line PROVE Hostnames(line) = (CHOOSE f : Splits(line, f))[1]
BY Zenon DEF Hostnames, Splits, SplitAt

\* The '+' that ends a token.
LEMMA NextPlus ==
  ASSUME NEW line \in Seq(STRING), NEW start \in 1..(Len(line) + 1), Found(line, start) # {},
         NEW next, next = First(Found(line, start))
  PROVE  /\ next \in start..Len(line) /\ line[next] = Plus
         /\ \A i \in start..(next - 1) : line[i] # Plus
<1>1. Len(line) \in Nat
  OBVIOUS
<1>2. Found(line, start) \subseteq Nat
  BY <1>1 DEF Found
<1>3. next \in Found(line, start) /\ \A j \in Found(line, start) : next <= j
  BY <1>2, FirstIsLeast
<1>4. next \in start..Len(line) /\ line[next] = Plus
  BY <1>3 DEF Found
<1>5. ASSUME NEW i \in start..(next - 1) PROVE line[i] # Plus
  <2>1. i \in start..Len(line) /\ ~(next <= i)
    BY <1>1, <1>4
  <2> QED BY <1>3, <2>1 DEF Found
<1> QED BY <1>4, <1>5

\* A turn depends on later turns only.
LEMMA SplitAtLater ==
  ASSUME NEW line \in Seq(STRING), NEW start \in 1..(Len(line) + 1), NEW f, NEW g,
         \A i \in (start + 1)..(Len(line) + 1) : f[i] = g[i]
  PROVE  SplitAt(line, f, start) = SplitAt(line, g, start)
<1>1. CASE Found(line, start) = {}
  BY <1>1 DEF SplitAt
<1>2. CASE Found(line, start) # {}
  <2> DEFINE next == First(Found(line, start))
  <2>1. next \in start..Len(line)
    BY <1>2, NextPlus
  <2>2. f[next + 1] = g[next + 1]
    BY <2>1
  <2> HIDE DEF next
  <2> QED BY <1>2, <2>2 DEF SplitAt, next
<1> QED BY <1>1, <1>2

LEMMA SplitExists == ASSUME NEW line \in Seq(STRING) PROVE \E f : Splits(line, f)
<1> DEFINE N == Len(line) + 1
           Solves(g, m) == \A i \in m..N : g[i] = SplitAt(line, g, i)
           T == {k \in Nat : k < N => \E g : Solves(g, N - k)}
<1>1. N \in Nat \ {0}
  OBVIOUS
<1> HIDE DEF N
<1>2. 0 \in T
  <2> DEFINE g == [i \in {N} |-> SplitAt(line, <<>>, N)]
  <2>1. SplitAt(line, g, N) = SplitAt(line, <<>>, N)
    BY <1>1, SplitAtLater DEF N
  <2>2. Solves(g, N - 0)
    BY <1>1, <2>1
  <2> QED BY <2>2
<1>3. ASSUME NEW k \in Nat, k \in T PROVE k + 1 \in T
  <2> SUFFICES ASSUME k + 1 < N PROVE \E g : Solves(g, N - (k + 1))
    OBVIOUS
  <2>1. PICK g : Solves(g, N - k)
    BY <1>1, <1>3
  <2> DEFINE m == N - (k + 1)
             h == [i \in m..N |-> IF i = m THEN SplitAt(line, g, m) ELSE g[i]]
  <2>2. m \in 1..N /\ m + 1 = N - k
    BY <1>1
  <2>3. ASSUME NEW i \in m..N PROVE h[i] = SplitAt(line, h, i)
    <3>1. SplitAt(line, h, i) = SplitAt(line, g, i)
      <4>1. i \in 1..(Len(line) + 1) /\ \A j \in (i + 1)..(Len(line) + 1) : h[j] = g[j]
        BY <1>1, <2>2 DEF N
      <4> HIDE DEF h
      <4> QED BY <4>1, SplitAtLater
    <3>2. CASE i = m
      BY <3>1, <3>2
    <3>3. CASE i # m
      BY <1>1, <2>1, <2>2, <3>1, <3>3
    <3> QED BY <3>2, <3>3
  <2> HIDE DEF h
  <2> QED BY <2>3
<1>4. \E g : Solves(g, 1)
  <2>1. N - 1 \in T
    <3> HIDE DEF T
    <3>1. \A n \in Nat : n \in T
      BY <1>2, <1>3, SetInduction
    <3> QED BY <1>1, <3>1
  <2> QED BY <1>1, <2>1
<1>5. PICK g : Solves(g, 1)
  BY <1>4
<1> DEFINE h == [i \in 1..(Len(line) + 1) |-> SplitAt(line, g, i)]
<1>6. \A i \in 1..(Len(line) + 1) : h[i] = g[i]
  BY <1>5 DEF N
<1>7. ASSUME NEW i \in 1..(Len(line) + 1) PROVE SplitAt(line, h, i) = SplitAt(line, g, i)
  <2>1. \A j \in (i + 1)..(Len(line) + 1) : h[j] = g[j]
    BY <1>1, <1>6 DEF N
  <2> HIDE DEF h
  <2> QED BY <2>1, SplitAtLater
<1>8. h = [i \in 1..(Len(line) + 1) |-> SplitAt(line, h, i)]
  BY <1>7
<1> QED BY <1>8 DEF Splits

LEMMA HostnamesSplit ==
  ASSUME NEW line \in Seq(STRING)
  PROVE  \E f : Splits(line, f) /\ Hostnames(line) = f[1]
BY SplitExists, HostnamesAreSplit

-----------------------------------------------------------------------------
(* The hostnames are the names of the line, in its order *)

\* The names that start at x or later, and how many of them start up to r.
NamesFrom(line, x) == {r \in Names(line) : x <= r[1]}
Rank(line, x, r) == Cardinality({s \in NamesFrom(line, x) : s[1] <= r[1]})

\* q is the names from x on, in order.
Lists(line, x, q) ==
  /\ q \in Seq(Seq(STRING))
  /\ Len(q) = Cardinality(NamesFrom(line, x))
  /\ \A r \in NamesFrom(line, x) : q[Rank(line, x, r)] = SubSeq(line, r[1], r[2])

\* The members of NamesFrom.
LEMMA NameShape ==
  ASSUME NEW line \in Seq(STRING), NEW x \in Nat, NEW r \in NamesFrom(line, x)
  PROVE  /\ r[1] \in 1..Len(line) /\ r[2] \in 1..Len(line) /\ r = <<r[1], r[2]>>
         /\ r[1] <= r[2] /\ x <= r[1]
         /\ \A i \in r[1]..r[2] : line[i] # Plus
         /\ r[1] = 1 \/ line[r[1] - 1] = Plus
         /\ r[2] = Len(line) \/ line[r[2] + 1] = Plus
BY DEF NamesFrom, Names

LEMMA NameIn ==
  ASSUME NEW line \in Seq(STRING), NEW x \in Nat, NEW a \in 1..Len(line), NEW b \in 1..Len(line),
         a <= b, x <= a, \A i \in a..b : line[i] # Plus,
         a = 1 \/ line[a - 1] = Plus, b = Len(line) \/ line[b + 1] = Plus
  PROVE  <<a, b>> \in NamesFrom(line, x)
BY DEF NamesFrom, Names

LEMMA NamesLater ==
  ASSUME NEW line \in Seq(STRING), NEW x \in Nat, NEW y \in Nat, x <= y
  PROVE  NamesFrom(line, y) = {r \in NamesFrom(line, x) : y <= r[1]}
<1>1. \A r \in Names(line) : r[1] \in Nat
  BY DEF Names
<1> QED BY <1>1 DEF NamesFrom

LEMMA NamesAreFinite ==
  ASSUME NEW line \in Seq(STRING), NEW x
  PROVE  IsFiniteSet(NamesFrom(line, x))
<1>1. Len(line) \in Nat
  OBVIOUS
<1>2. IsFiniteSet((1..Len(line)) \X (1..Len(line)))
  <2>1. IsFiniteSet(1..Len(line))
    BY <1>1, FS_Interval
  <2> QED BY <2>1, FS_Product, Zenon
<1>3. NamesFrom(line, x) \in SUBSET ((1..Len(line)) \X (1..Len(line)))
  BY DEF NamesFrom, Names
<1> QED BY <1>2, <1>3, FS_Subset

\* No name is left: nothing is pushed.
LEMMA NoNameListed ==
  ASSUME NEW line \in Seq(STRING), NEW x, NamesFrom(line, x) = {}
  PROVE  Lists(line, x, <<>>)
<1>1. Cardinality(NamesFrom(line, x)) = 0
  BY FS_EmptySet
<1> QED BY <1>1 DEF Lists

\* A name is pushed before the later ones.
LEMMA NameListedFirst ==
  ASSUME NEW line \in Seq(STRING), NEW x \in 1..Len(line), NEW e \in x..Len(line),
         NEW y \in Nat, e < y, NEW q, Lists(line, y, q),
         NamesFrom(line, x) = NamesFrom(line, y) \cup {<<x, e>>}
  PROVE  Lists(line, x, <<SubSeq(line, x, e)>> \o q)
<1> DEFINE A == NamesFrom(line, x)
           B == NamesFrom(line, y)
           c == SubSeq(line, x, e)
           r0 == <<x, e>>
<1>1. IsFiniteSet(A) /\ IsFiniteSet(B)
  BY NamesAreFinite
<1>2. \A r \in B : y <= r[1] /\ r[1] \in Nat
  BY NameShape
<1>3. r0 \notin B
  BY <1>2
<1>4. Cardinality(A) = Cardinality(B) + 1 /\ Cardinality(B) \in Nat
  BY <1>1, <1>3, FS_AddElement, FS_CardinalityType
<1>5. c \in Seq(STRING)
  BY SubSeqProperties
<1>6. /\ <<c>> \o q \in Seq(Seq(STRING))
      /\ Len(<<c>> \o q) = 1 + Len(q)
      /\ (<<c>> \o q)[1] = c
      /\ \A k \in 1..Len(q) : (<<c>> \o q)[k + 1] = q[k]
  <2>1. <<c>> \in Seq(Seq(STRING)) /\ Len(<<c>>) = 1 /\ <<c>>[1] = c /\ q \in Seq(Seq(STRING))
    BY <1>5 DEF Lists
  <2> HIDE DEF c
  <2>2. Len(q) \in Nat
    BY <2>1
  <2> QED BY <2>1, <2>2, ConcatProperties
<1>7. Len(q) = Cardinality(B)
  BY DEF Lists
<1>8. Rank(line, x, r0) = 1
  <2>1. {s \in A : s[1] <= r0[1]} = {r0}
    BY <1>2
  <2> QED BY <2>1, FS_Singleton DEF Rank
<1>9. ASSUME NEW r \in B
      PROVE  Rank(line, x, r) = Rank(line, y, r) + 1 /\ Rank(line, y, r) \in 1..Len(q)
  <2> DEFINE Sx == {s \in A : s[1] <= r[1]}
             Sy == {s \in B : s[1] <= r[1]}
  <2>1. Sx = Sy \cup {r0} /\ r0 \notin Sy
    BY <1>2, <1>3
  <2>2. IsFiniteSet(Sy) /\ Cardinality(Sy) <= Cardinality(B) /\ Cardinality(Sy) \in Nat
    BY <1>1, FS_Subset, FS_CardinalityType
  <2>3. Cardinality(Sx) = Cardinality(Sy) + 1
    <3> HIDE DEF Sx, Sy
    <3> QED BY <2>1, <2>2, FS_AddElement
  <2>4. Cardinality(Sy) # 0
    <3>1. r \in Sy
      BY <1>2
    <3> HIDE DEF Sy
    <3> QED BY <2>2, <3>1, FS_EmptySet
  <2> QED BY <1>4, <1>7, <2>2, <2>3, <2>4 DEF Rank
<1>10. \A r \in A : (<<c>> \o q)[Rank(line, x, r)] = SubSeq(line, r[1], r[2])
  <2> SUFFICES ASSUME NEW r \in A PROVE (<<c>> \o q)[Rank(line, x, r)] = SubSeq(line, r[1], r[2])
    OBVIOUS
  <2>1. CASE r = r0
    BY <1>6, <1>8, <2>1
  <2>2. CASE r \in B
    <3>1. q[Rank(line, y, r)] = SubSeq(line, r[1], r[2])
      BY <2>2 DEF Lists
    <3> HIDE DEF c
    <3> QED BY <1>6, <1>9, <2>2, <3>1
  <2> QED BY <2>1, <2>2
<1>11. Len(<<c>> \o q) = Cardinality(NamesFrom(line, x))
  <2> HIDE DEF c
  <2> QED BY <1>4, <1>6, <1>7
<1> QED BY <1>6, <1>10, <1>11, Zenon DEF Lists

\* A token may start at x.
Starts(line, x) == x = 1 \/ line[x - 1] = Plus

\* The name that starts where a token does.
LEMMA NameThenLater ==
  ASSUME NEW line \in Seq(STRING), NEW x \in 1..Len(line), NEW e \in x..Len(line),
         Starts(line, x), \A i \in x..e : line[i] # Plus, e = Len(line) \/ line[e + 1] = Plus
  PROVE  NamesFrom(line, x) = NamesFrom(line, e + 2) \cup {<<x, e>>}
<1>1. Len(line) \in Nat
  OBVIOUS
<1>2. <<x, e>> \in NamesFrom(line, x)
  BY <1>1, NameIn DEF Starts
<1>3. NamesFrom(line, e + 2) \subseteq NamesFrom(line, x)
  <2>1. x \in Nat /\ e + 2 \in Nat /\ x <= e + 2
    BY <1>1
  <2> QED BY <2>1, NamesLater
<1>4. ASSUME NEW r \in NamesFrom(line, x), r[1] = x PROVE r = <<x, e>>
  <2>1. r[2] \in x..Len(line) /\ r = <<x, r[2]>>
    BY <1>4, NameShape
  <2>2. \A i \in x..r[2] : line[i] # Plus
    BY <1>4, NameShape
  <2>3. r[2] = Len(line) \/ line[r[2] + 1] = Plus
    BY NameShape
  <2>4. ~(r[2] < e)
    <3> SUFFICES ASSUME r[2] < e PROVE FALSE
      OBVIOUS
    <3>1. r[2] + 1 \in x..e
      BY <1>1, <2>1
    <3> QED BY <1>1, <2>3, <3>1
  <2>5. ~(e < r[2])
    <3> SUFFICES ASSUME e < r[2] PROVE FALSE
      OBVIOUS
    <3>1. e + 1 \in x..r[2] /\ e # Len(line)
      BY <1>1, <2>1
    <3> QED BY <2>2, <3>1
  <2>6. r[2] = e
    BY <1>1, <2>1, <2>4, <2>5
  <2> QED BY <2>1, <2>6
<1>5. ASSUME NEW r \in NamesFrom(line, x), r[1] # x PROVE r \in NamesFrom(line, e + 2)
  <2>1. r[1] \in (x + 1)..Len(line) /\ r[1] # 1
    BY <1>1, <1>5, NameShape
  <2>2. line[r[1] - 1] = Plus
    BY <2>1, NameShape
  <2>3. ~(r[1] - 1 <= e)
    BY <1>1, <2>1, <2>2
  <2> QED BY <1>1, <2>1, <2>3 DEF NamesFrom
<1> QED BY <1>2, <1>3, <1>4, <1>5

\* One turn of the loop lists the names from its start on.
LEMMA SplitStep ==
  ASSUME NEW line \in Seq(STRING), NEW f, Splits(line, f), NEW x \in 1..(Len(line) + 1),
         Starts(line, x),
         \A y \in (x + 1)..(Len(line) + 1) : Starts(line, y) => Lists(line, y, f[y])
  PROVE  Lists(line, x, f[x])
<1>1. Len(line) \in Nat
  OBVIOUS
<1>2. f[x] = SplitAt(line, f, x)
  BY DEF Splits
<1>3. \A y \in Nat : Len(line) < y => NamesFrom(line, y) = {}
  BY <1>1, NameShape
<1>4. CASE Found(line, x) = {}
  <2>1. f[x] = Pushed(SubSeq(line, x, Len(line)))
    BY <1>2, <1>4 DEF SplitAt
  <2>2. CASE x = Len(line) + 1
    <3>1. SubSeq(line, x, Len(line)) = <<>>
      BY <1>1, <2>2, SubSeqEmpty
    <3>2. f[x] = <<>>
      BY <2>1, <3>1 DEF Pushed, NotEmpty
    <3> QED BY <1>1, <1>3, <2>2, <3>2, NoNameListed
  <2>3. CASE x \in 1..Len(line)
    <3> DEFINE c == SubSeq(line, x, Len(line))
    <3>1. c \in Seq(STRING) /\ c # <<>>
      <4>1. \A i \in x..Len(line) : line[i] \in STRING
        BY <2>3
      <4>2. c \in Seq(STRING) /\ Len(c) = Len(line) - x + 1
        BY <1>1, <2>3, <4>1, SubSeqProperties
      <4> HIDE DEF c
      <4> QED BY <1>1, <2>3, <4>2
    <3>2. f[x] = <<c>> \o <<>>
      <4>1. f[x] = <<c>>
        BY <2>1, <3>1 DEF Pushed, NotEmpty
      <4>2. <<c>> \in Seq(Seq(STRING))
        BY <3>1
      <4> HIDE DEF c
      <4> QED BY <4>1, <4>2, ConcatEmptySeq
    <3>3. \A i \in x..Len(line) : line[i] # Plus
      BY <1>4 DEF Found
    <3>4. NamesFrom(line, x) = NamesFrom(line, Len(line) + 2) \cup {<<x, Len(line)>>}
      BY <1>1, <2>3, <3>3, NameThenLater
    <3>5. Lists(line, Len(line) + 2, <<>>)
      BY <1>1, <1>3, NoNameListed
    <3> HIDE DEF c
    <3>6. Lists(line, x, <<c>> \o <<>>)
      <4>1. Len(line) \in x..Len(line) /\ Len(line) + 2 \in Nat /\ Len(line) < Len(line) + 2
        BY <1>1, <2>3
      <4> QED BY <2>3, <3>4, <3>5, <4>1, NameListedFirst DEF c
    <3> QED BY <3>2, <3>6
  <2> QED BY <1>1, <2>2, <2>3
<1>5. CASE Found(line, x) # {}
  <2> DEFINE next == First(Found(line, x))
             c == SubSeq(line, x, next - 1)
  <2>1. next \in x..Len(line) /\ line[next] = Plus /\ \A i \in x..(next - 1) : line[i] # Plus
    BY <1>5, NextPlus
  <2>2. f[x] = Pushed(c) \o f[next + 1]
    BY <1>2, <1>5 DEF SplitAt
  <2> HIDE DEF next
  <2>3. next + 1 \in (x + 1)..(Len(line) + 1) /\ Starts(line, next + 1)
    BY <1>1, <2>1 DEF Starts
  <2>4. Lists(line, next + 1, f[next + 1])
    BY <2>3
  <2>5. CASE next = x
    <3>1. c = <<>>
      BY <1>1, <2>5, SubSeqEmpty
    <3>2. f[x] = f[next + 1]
      <4>1. f[next + 1] \in Seq(Seq(STRING))
        BY <2>4 DEF Lists
      <4>2. Pushed(c) = <<>>
        BY <3>1 DEF Pushed, NotEmpty
      <4> QED BY <2>2, <4>1, <4>2, ConcatEmptySeq
    <3>3. NamesFrom(line, x) = NamesFrom(line, next + 1)
      <4>1. \A r \in NamesFrom(line, x) : r[1] # x
        BY <1>1, <2>1, <2>5, NameShape
      <4>2. \A r \in NamesFrom(line, x) : r[1] \in Nat /\ x <= r[1]
        BY NameShape
      <4>3. \A r \in NamesFrom(line, x) : next + 1 <= r[1]
        BY <2>1, <2>5, <4>1, <4>2
      <4>4. x \in Nat /\ next + 1 \in Nat /\ x <= next + 1
        BY <2>1, <2>5
      <4>5. ASSUME NEW y \in Nat, x <= y, \A r \in NamesFrom(line, x) : y <= r[1]
            PROVE  NamesFrom(line, y) = NamesFrom(line, x)
        <5>1. NamesFrom(line, y) = {r \in NamesFrom(line, x) : y <= r[1]}
          BY <4>4, <4>5, NamesLater
        <5> QED BY <4>5, <5>1
      <4> QED BY <4>3, <4>4, <4>5
    <3> QED BY <2>4, <3>2, <3>3 DEF Lists, Rank
  <2>6. CASE x < next
    <3>1. c \in Seq(STRING) /\ c # <<>>
      BY <1>1, <2>1, <2>6, SubSeqProperties
    <3>2. f[x] = <<c>> \o f[next + 1]
      BY <2>2, <3>1 DEF Pushed, NotEmpty
    <3>3. next - 1 \in x..Len(line) /\ x \in 1..Len(line) /\ next - 1 < next + 1 /\ next + 1 \in Nat
      BY <1>1, <2>1, <2>6
    <3>4. NamesFrom(line, x) = NamesFrom(line, next + 1) \cup {<<x, next - 1>>}
      <4>1. (next - 1) + 1 = next /\ (next - 1) + 2 = next + 1
        BY <2>1
      <4>2. ASSUME NEW e, e = next - 1
            PROVE  NamesFrom(line, x) = NamesFrom(line, e + 2) \cup {<<x, e>>}
        <5>1. e \in x..Len(line) /\ e + 1 = next /\ \A i \in x..e : line[i] # Plus
          BY <2>1, <3>3, <4>2
        <5> QED BY <2>1, <3>3, <5>1, NameThenLater
      <4> QED BY <4>1, <4>2
    <3>5. Lists(line, x, <<c>> \o f[next + 1])
      BY <2>4, <3>3, <3>4, NameListedFirst
    <3> QED BY <3>2, <3>5
  <2> QED BY <2>1, <2>5, <2>6
<1> QED BY <1>4, <1>5

\* What the loop pushes is the names of the line, in its order.
LEMMA HostnamesAreNames ==
  ASSUME NEW line \in Seq(STRING)
  PROVE  Lists(line, 1, Hostnames(line))
<1>1. PICK f : Splits(line, f) /\ Hostnames(line) = f[1]
  BY HostnamesSplit
<1> DEFINE N == Len(line) + 1
           T == {k \in Nat :
                  \A x \in 1..N : (N - x <= k /\ Starts(line, x)) => Lists(line, x, f[x])}
<1>2. N \in Nat \ {0}
  OBVIOUS
<1>3. ASSUME NEW x \in 1..N, Starts(line, x),
             \A y \in (x + 1)..N : Starts(line, y) => Lists(line, y, f[y])
      PROVE  Lists(line, x, f[x])
  BY <1>1, <1>3, SplitStep
<1> HIDE DEF N
<1>4. 0 \in T
  <2>1. ASSUME NEW x \in 1..N, N - x <= 0, Starts(line, x) PROVE Lists(line, x, f[x])
    <3>1. (x + 1)..N = {}
      BY <1>2, <2>1
    <3> QED BY <1>3, <2>1, <3>1
  <2> QED BY <2>1
<1>5. ASSUME NEW k \in Nat, k \in T PROVE k + 1 \in T
  <2>1. ASSUME NEW x \in 1..N, N - x <= k + 1, Starts(line, x) PROVE Lists(line, x, f[x])
    <3>1. ASSUME NEW y \in (x + 1)..N, Starts(line, y) PROVE Lists(line, y, f[y])
      <4>1. y \in 1..N /\ N - y <= k
        BY <1>2, <2>1
      <4> QED BY <1>5, <3>1, <4>1
    <3> QED BY <1>3, <2>1, <3>1
  <2> QED BY <2>1
<1>6. \A k \in Nat : k \in T
  <2> HIDE DEF T
  <2> QED BY <1>4, <1>5, SetInduction
<1>7. N \in T /\ 1 \in 1..N /\ N - 1 <= N /\ Starts(line, 1)
  BY <1>2, <1>6 DEF Starts
<1> QED BY <1>1, <1>7

-----------------------------------------------------------------------------
(* The ports and their modules *)

ConfigTypes ==
  /\ ports \in Seq([line : Seq(STRING), id : Int, hosts : Seq(Seq(STRING))])
  /\ det \in Seq(Seq(BOOLEAN))
  /\ Len(det) = Len(ports)
  /\ \A p \in 1..Len(ports) : /\ Len(det[p]) = Len(ports[p].hosts)
                             /\ ports[p].hosts = Hostnames(ports[p].line)

\* A port of a typed state.
LEMMA PortTypes ==
  ASSUME ConfigTypes
  PROVE  /\ Len(ports) \in Nat /\ DOMAIN ports = 1..Len(ports) /\ DOMAIN ports = 1..Len(det)
         /\ \A p \in DOMAIN ports :
              /\ ports[p].line \in Seq(STRING) /\ ports[p].id \in Int
              /\ ports[p].hosts \in Seq(Seq(STRING)) /\ Len(ports[p].hosts) \in Nat
              /\ ports[p].hosts = Hostnames(ports[p].line)
              /\ det[p] \in Seq(BOOLEAN) /\ Len(det[p]) = Len(ports[p].hosts)
<1> DEFINE P == [line : Seq(STRING), id : Int, hosts : Seq(Seq(STRING))]
<1>1. /\ ports \in Seq(P) /\ det \in Seq(Seq(BOOLEAN)) /\ Len(det) = Len(ports)
      /\ \A p \in 1..Len(ports) : /\ Len(det[p]) = Len(ports[p].hosts)
                                 /\ ports[p].hosts = Hostnames(ports[p].line)
  BY DEF ConfigTypes
<1>2. \A q \in P : q.line \in Seq(STRING) /\ q.id \in Int /\ q.hosts \in Seq(Seq(STRING))
  OBVIOUS
<1>3. \A h \in Seq(Seq(STRING)) : Len(h) \in Nat
  OBVIOUS
<1> HIDE DEF P
<1>4. Len(ports) \in Nat /\ DOMAIN ports = 1..Len(ports) /\ DOMAIN ports = 1..Len(det)
  BY <1>1
<1>5. ASSUME NEW p \in DOMAIN ports PROVE ports[p] \in P /\ det[p] \in Seq(BOOLEAN)
  BY <1>1, <1>4
<1> QED BY <1>1, <1>2, <1>3, <1>4, <1>5

LEMMA ElementReplaced ==
  ASSUME NEW S, NEW s \in Seq(S), NEW i \in 1..Len(s), NEW e \in S, NEW t, t = [s EXCEPT ![i] = e]
  PROVE  /\ t \in Seq(S) /\ Len(t) = Len(s)
         /\ \A j \in 1..Len(s) : t[j] = IF j = i THEN e ELSE s[j]
OBVIOUS

\* A port, with what the loop pushed.
LEMMA PortOfLine ==
  ASSUME NEW line \in Lines, NEW id \in Ids
  PROVE  [line |-> line, id |-> id, hosts |-> Hostnames(line)]
           \in [line : Seq(STRING), id : Int, hosts : Seq(Seq(STRING))]
BY HostnamesAreNames, ConfigLines, ConfigIds DEF Lists

\* What Configure leaves.
LEMMA Configured ==
  ASSUME ConfigTypes, NEW line \in Lines, NEW id \in Ids, Configure(line, id)
  PROVE  /\ ports' \in Seq([line : Seq(STRING), id : Int, hosts : Seq(Seq(STRING))])
         /\ det' \in Seq(Seq(BOOLEAN))
         /\ Len(ports') = Len(ports) + 1 /\ Len(det') = Len(ports) + 1
         /\ \A p \in 1..Len(ports) : ports'[p] = ports[p] /\ det'[p] = det[p]
         /\ ports'[Len(ports) + 1] = [line |-> line, id |-> id, hosts |-> Hostnames(line)]
         /\ Len(det'[Len(ports) + 1]) = Len(Hostnames(line))
         /\ \A a \in 1..Len(Hostnames(line)) : ~det'[Len(ports) + 1][a]
<1> DEFINE port == [line |-> line, id |-> id, hosts |-> Hostnames(line)]
           N == Len(Hostnames(line))
           none == [a \in 1..N |-> FALSE]
           P == [line : Seq(STRING), id : Int, hosts : Seq(Seq(STRING))]
<1>1. port \in P
  BY PortOfLine
<1>2. N \in Nat
  BY HostnamesAreNames, ConfigLines DEF Lists
<1>3. ports \in Seq(P) /\ det \in Seq(Seq(BOOLEAN)) /\ Len(det) = Len(ports)
  BY DEF ConfigTypes
<1>4. ports' = Append(ports, port) /\ det' = Append(det, none)
  BY DEF Configure
<1> HIDE DEF N, port, P
<1>5. none \in Seq(BOOLEAN) /\ Len(none) = N
  BY <1>2
<1>6. \A a \in 1..N : ~none[a]
  OBVIOUS
<1> HIDE DEF none
<1>7. /\ ports' \in Seq(P) /\ Len(ports') = Len(ports) + 1
      /\ \A p \in 1..Len(ports) : ports'[p] = ports[p]
      /\ ports'[Len(ports) + 1] = port
  BY <1>1, <1>3, <1>4, AppendProperties
<1>8. /\ det' \in Seq(Seq(BOOLEAN)) /\ Len(det') = Len(ports) + 1
      /\ \A p \in 1..Len(ports) : det'[p] = det[p]
      /\ det'[Len(ports) + 1] = none
  BY <1>3, <1>4, <1>5, AppendProperties
<1> QED BY <1>5, <1>6, <1>7, <1>8 DEF N, port, P

LEMMA NestedReplaced ==
  ASSUME NEW s \in Seq(Seq(BOOLEAN)), NEW p \in 1..Len(s), NEW a \in 1..Len(s[p]),
         NEW b \in BOOLEAN
  PROVE  \A t : t = [s EXCEPT ![p][a] = b] =>
           /\ t \in Seq(Seq(BOOLEAN)) /\ Len(t) = Len(s)
           /\ \A q \in 1..Len(s) :
                /\ Len(t[q]) = Len(s[q])
                /\ \A c \in 1..Len(s[q]) : t[q][c] = IF q = p /\ c = a THEN b ELSE s[q][c]
<1>1. s[p] \in Seq(BOOLEAN)
  OBVIOUS
<1>2. PICK d : d = [s[p] EXCEPT ![a] = b]
  OBVIOUS
<1>3. d \in Seq(BOOLEAN) /\ Len(d) = Len(s[p])
      /\ \A c \in 1..Len(s[p]) : d[c] = IF c = a THEN b ELSE s[p][c]
  BY <1>1, <1>2, ElementReplaced
<1>4. PICK t : t = [s EXCEPT ![p] = d]
  OBVIOUS
<1>5. t \in Seq(Seq(BOOLEAN)) /\ Len(t) = Len(s)
      /\ \A q \in 1..Len(s) : t[q] = IF q = p THEN d ELSE s[q]
  BY <1>3, <1>4, ElementReplaced
<1>6. t = [s EXCEPT ![p][a] = b]
  BY <1>2, <1>4
<1>7. /\ t \in Seq(Seq(BOOLEAN)) /\ Len(t) = Len(s)
      /\ \A q \in 1..Len(s) :
           /\ Len(t[q]) = Len(s[q])
           /\ \A c \in 1..Len(s[q]) : t[q][c] = IF q = p /\ c = a THEN b ELSE s[q][c]
  BY <1>3, <1>5
<1> QED BY <1>6, <1>7, Zenon

\* What Initialize and Shutdown leave.
LEMMA DetIsSet ==
  ASSUME ConfigTypes, NEW p \in DOMAIN ports, NEW a \in PortAddrs(p), NEW b \in BOOLEAN,
         det' = [det EXCEPT ![p][a] = b]
  PROVE  /\ det' \in Seq(Seq(BOOLEAN)) /\ Len(det') = Len(det)
         /\ \A q \in 1..Len(det) :
              /\ Len(det'[q]) = Len(det[q])
              /\ \A c \in 1..Len(det[q]) : det'[q][c] = IF q = p /\ c = a THEN b ELSE det[q][c]
<1>1. p \in 1..Len(det) /\ a \in 1..Len(det[p]) /\ det \in Seq(Seq(BOOLEAN))
  BY DEF ConfigTypes, PortAddrs
<1>2. \A t : t = [det EXCEPT ![p][a] = b] =>
           /\ t \in Seq(Seq(BOOLEAN)) /\ Len(t) = Len(det)
           /\ \A q \in 1..Len(det) :
                /\ Len(t[q]) = Len(det[q])
                /\ \A c \in 1..Len(det[q]) : t[q][c] = IF q = p /\ c = a THEN b ELSE det[q][c]
  BY <1>1, NestedReplaced
<1>3. det' \in Seq(Seq(BOOLEAN))
  BY <1>2
<1>4. Len(det') = Len(det)
  BY <1>2
<1>5. \A q \in 1..Len(det) : Len(det'[q]) = Len(det[q])
  BY <1>2
<1>6. ASSUME NEW q \in 1..Len(det), NEW c \in 1..Len(det[q])
      PROVE  det'[q][c] = IF q = p /\ c = a THEN b ELSE det[q][c]
  BY <1>2
<1> QED BY <1>3, <1>4, <1>5, <1>6, Zenon

LEMMA ConfigTypesInit == ASSUME Init PROVE ConfigTypes
BY DEF Init, ConfigTypes

LEMMA ConfigTypesStep == ASSUME ConfigTypes, [Next]_vars PROVE ConfigTypes'
<1>1. ASSUME NEW line \in Lines, NEW id \in Ids, Configure(line, id) PROVE ConfigTypes'
  <2>1. \A p \in 1..Len(ports) : /\ Len(det[p]) = Len(ports[p].hosts)
                                /\ ports[p].hosts = Hostnames(ports[p].line)
    BY DEF ConfigTypes
  <2>2. Len(ports) \in Nat
    BY DEF ConfigTypes
  <2>3. ASSUME NEW p \in 1..Len(ports')
        PROVE  Len(det'[p]) = Len(ports'[p].hosts) /\ ports'[p].hosts = Hostnames(ports'[p].line)
    <3>1. p \in 1..Len(ports) \/ p = Len(ports) + 1
      <4>1. Len(ports') = Len(ports) + 1
        BY <1>1, Configured
      <4> QED BY <2>2, <2>3, <4>1
    <3>2. CASE p \in 1..Len(ports)
      <4>1. ports'[p] = ports[p] /\ det'[p] = det[p]
        BY <1>1, <3>2, Configured
      <4> QED BY <2>1, <3>2, <4>1
    <3>3. CASE p = Len(ports) + 1
      <4>1. /\ ports'[p] = [line |-> line, id |-> id, hosts |-> Hostnames(line)]
            /\ Len(det'[p]) = Len(Hostnames(line))
        BY <1>1, <3>3, Configured
      <4> QED BY <4>1
    <3> QED BY <3>1, <3>2, <3>3
  <2> QED BY <1>1, <2>3, Configured DEF ConfigTypes
<1>2. ASSUME NEW p \in DOMAIN ports, NEW a \in PortAddrs(p), NEW b \in BOOLEAN,
             det' = [det EXCEPT ![p][a] = b], ports' = ports
      PROVE  ConfigTypes'
  <2>1. /\ det' \in Seq(Seq(BOOLEAN)) /\ Len(det') = Len(det)
        /\ \A q \in 1..Len(det) : Len(det'[q]) = Len(det[q])
    BY <1>2, DetIsSet
  <2> QED BY <1>2, <2>1 DEF ConfigTypes
<1>3. CASE UNCHANGED vars
  BY <1>3 DEF vars, ConfigTypes
<1> QED BY <1>1, <1>2, <1>3 DEF Next, Initialize, Shutdown

\* The hosts of a typed port are the names of its line.
LEMMA TypedAreListed == ASSUME ConfigTypes PROVE ModulesAsListed
<1> SUFFICES ASSUME NEW p \in DOMAIN ports
             PROVE  /\ Len(ports[p].hosts) = Cardinality(Names(ports[p].line))
                    /\ \A r \in Names(ports[p].line) :
                         ports[p].hosts[Cardinality({s \in Names(ports[p].line) : s[1] <= r[1]})]
                           = SubSeq(ports[p].line, r[1], r[2])
  BY DEF ModulesAsListed
<1> DEFINE line == ports[p].line
<1>1. line \in Seq(STRING) /\ ports[p].hosts = Hostnames(line)
  BY PortTypes
<1> HIDE DEF line
<1>2. NamesFrom(line, 1) = Names(line)
  BY <1>1 DEF NamesFrom, Names
<1>3. Lists(line, 1, ports[p].hosts)
  BY <1>1, HostnamesAreNames
<1> QED BY <1>2, <1>3 DEF Lists, Rank, line

\* The modules of every port are the names of its line, in their order, however
\* many '+' the line has and wherever (SlsDetConfigure).
THEOREM ModulesFollowTheLine == Spec => []ModulesAsListed
<1>1. Init => ConfigTypes
  BY ConfigTypesInit
<1>2. ConfigTypes /\ [Next]_vars => ConfigTypes'
  BY ConfigTypesStep
<1>3. ConfigTypes => ModulesAsListed
  BY TypedAreListed
<1> QED BY <1>1, <1>2, <1>3, PTL DEF Spec

-----------------------------------------------------------------------------
(* The shared memory of a module *)

LEMMA Stored ==
  ASSUME NEW i, NEW host, Store(i, host)
  PROVE  \A j : Content(j)' = IF j = i THEN host ELSE Content(j)
BY DEF Store, Content

\* Two modules of ports whose ids are spaced have memories of their own.
LEMMA SpacedIdsDiffer ==
  ASSUME ConfigTypes, IdsAreSpaced,
         NEW p \in DOMAIN ports, NEW a \in PortAddrs(p),
         NEW q \in DOMAIN ports, NEW b \in PortAddrs(q), p # q \/ a # b
  PROVE  MemoryId(ports[p], a) # MemoryId(ports[q], b)
<1>1. /\ ports[p].id \in Int /\ ports[q].id \in Int
      /\ Len(ports[p].hosts) \in Nat /\ Len(ports[q].hosts) \in Nat
  BY PortTypes
<1>2. a \in 1..Len(ports[p].hosts) /\ b \in 1..Len(ports[q].hosts)
  BY DEF PortAddrs
<1>3. CASE p = q
  BY <1>1, <1>2, <1>3 DEF MemoryId
<1>4. CASE p # q
  <2>1. \/ ports[p].id + Len(ports[p].hosts) <= ports[q].id
        \/ ports[q].id + Len(ports[q].hosts) <= ports[p].id
    BY <1>4 DEF IdsAreSpaced
  <2> QED BY <1>1, <1>2, <2>1 DEF MemoryId
<1> QED BY <1>3, <1>4

LEMMA SpacedStep == ASSUME ConfigTypes, SpacedMemoryIsOwn, [Next]_vars PROVE SpacedMemoryIsOwn'
<1> SUFFICES ASSUME IdsAreSpaced' PROVE MemoryIsOwn'
  BY DEF SpacedMemoryIsOwn
<1>1. ASSUME NEW line \in Lines, NEW id \in Ids, Configure(line, id) PROVE MemoryIsOwn'
  <2>1. /\ Len(ports) \in Nat /\ DOMAIN ports = 1..Len(ports)
        /\ DOMAIN ports' = 1..(Len(ports) + 1) /\ memory' = memory
    BY <1>1, Configured DEF ConfigTypes, Configure
  <2>2. IdsAreSpaced
    <3>1. \A p \in 1..Len(ports) : ports'[p] = ports[p]
      BY <1>1, Configured
    <3>2. \A p \in DOMAIN ports : p \in DOMAIN ports' /\ ports'[p] = ports[p]
      BY <2>1, <3>1
    <3> QED BY <3>2 DEF IdsAreSpaced
  <2>3. MemoryIsOwn
    BY <2>2 DEF SpacedMemoryIsOwn
  <2>4. ASSUME NEW p \in 1..(Len(ports) + 1), NEW a \in 1..Len(ports'[p].hosts), det'[p][a]
        PROVE  Content(MemoryId(ports'[p], a)) = ports'[p].hosts[a]
    <3>1. CASE p \in 1..Len(ports)
      <4>1. ports'[p] = ports[p] /\ det'[p] = det[p]
        BY <1>1, <3>1, Configured
      <4> QED BY <2>1, <2>3, <2>4, <3>1, <4>1 DEF MemoryIsOwn, PortAddrs
    <3>2. CASE p = Len(ports) + 1
      <4>1. ports'[p] = [line |-> line, id |-> id, hosts |-> Hostnames(line)]
        BY <1>1, <3>2, Configured
      <4>2. \A c \in 1..Len(Hostnames(line)) : ~det'[p][c]
        BY <1>1, <3>2, Configured
      <4> QED BY <2>4, <4>1, <4>2
    <3> QED BY <2>1, <3>1, <3>2
  <2> QED BY <2>1, <2>4 DEF MemoryIsOwn, PortAddrs, Content
<1>2. ASSUME NEW p \in DOMAIN ports, NEW a \in PortAddrs(p), NEW b \in BOOLEAN, NEW host,
             det' = [det EXCEPT ![p][a] = b], ports' = ports,
             Store(MemoryId(ports[p], a), host), b => host = ports[p].hosts[a]
      PROVE  MemoryIsOwn'
  <2>1. IdsAreSpaced
    BY <1>2 DEF IdsAreSpaced
  <2>2. MemoryIsOwn
    BY <2>1 DEF SpacedMemoryIsOwn
  <2>3. ASSUME NEW q \in DOMAIN ports, NEW c \in PortAddrs(q), det'[q][c]
        PROVE  Content(MemoryId(ports[q], c))' = ports[q].hosts[c]
    <3>1. q \in 1..Len(det) /\ c \in 1..Len(det[q])
      BY PortTypes DEF PortAddrs
    <3>2. det'[q][c] = IF q = p /\ c = a THEN b ELSE det[q][c]
      BY <1>2, <3>1, DetIsSet
    <3>3. \A j : Content(j)' = IF j = MemoryId(ports[p], a) THEN host ELSE Content(j)
      BY <1>2, Stored
    <3>4. CASE q = p /\ c = a
      BY <1>2, <2>3, <3>2, <3>3, <3>4
    <3>5. CASE ~(q = p /\ c = a)
      <4>1. MemoryId(ports[q], c) # MemoryId(ports[p], a)
        BY <2>1, <3>5, SpacedIdsDiffer
      <4>2. Content(MemoryId(ports[q], c)) = ports[q].hosts[c]
        BY <2>2, <2>3, <3>2, <3>5 DEF MemoryIsOwn
      <4> QED BY <1>2, <3>3, <4>1, <4>2
    <3> QED BY <3>4, <3>5
  <2> QED BY <1>2, <2>3 DEF MemoryIsOwn, PortAddrs
<1>3. CASE UNCHANGED vars
  BY <1>3 DEF vars, SpacedMemoryIsOwn, IdsAreSpaced, MemoryIsOwn, PortAddrs, Content
<1> QED BY <1>1, <1>2, <1>3 DEF Next, Initialize, Shutdown

\* With ids that leave room for every module of a port, a driver with its
\* detector object always finds its own hostname in the shared memory, whatever
\* the other ports configure, find or free (initialize, shutdown).
THEOREM SpacedIdsKeepMemory == Spec => []SpacedMemoryIsOwn
<1>1. Init => ConfigTypes /\ SpacedMemoryIsOwn
  BY ConfigTypesInit DEF Init, SpacedMemoryIsOwn, MemoryIsOwn
<1>2. ConfigTypes /\ SpacedMemoryIsOwn /\ [Next]_vars => ConfigTypes' /\ SpacedMemoryIsOwn'
  BY ConfigTypesStep, SpacedStep
<1> QED BY <1>1, <1>2, PTL DEF Spec

-----------------------------------------------------------------------------
(* The bad channels of a module *)

\* The turns of the loop over the lines.
BadStart(junk) == [bad |-> <<>>, ich |-> junk]

BadTurn(junk, g, n) == IF n = 0 THEN BadStart(junk) ELSE Line(g[n - 1], lines[n])

Looked == IF ended THEN Len(lines) ELSE Len(lines) - 1

BadTurns(junk, g) == g = [n \in 0..Looked |-> BadTurn(junk, g, n)]

LEMMA BadChannelsAreOne ==
  ASSUME NEW junk
  PROVE  BadChannels(junk) = (CHOOSE g : BadTurns(junk, g))[Looked].bad
BY Zenon DEF BadChannels, BadTurns, BadTurn, BadStart, Looked

BadStates(junk, g) ==
  /\ \A n \in 0..Looked : g[n] = BadTurn(junk, g, n)
  /\ BadChannels(junk) = g[Looked].bad

LEMMA BadChannelsUnfold ==
  ASSUME NEW junk, Looked \in Nat PROVE \E g : BadStates(junk, g)
<1> DEFINE N == Looked
           Solves(g, m) == \A k \in 0..m : g[k] = BadTurn(junk, g, k)
           T == {m \in Nat : \E g : Solves(g, m)}
<1> HIDE DEF N
<1>1. 0 \in T
  <2>1. Solves([k \in {0} |-> BadStart(junk)], 0)
    BY DEF BadTurn
  <2> QED BY <2>1
<1>2. ASSUME NEW m \in Nat, m \in T PROVE m + 1 \in T
  <2>1. PICK g : Solves(g, m)
    BY <1>2
  <2> DEFINE end == BadTurn(junk, g, m + 1)
             h == [k \in 0..(m + 1) |-> IF k = m + 1 THEN end ELSE g[k]]
  <2> HIDE DEF end
  <2>2. \A k \in 0..m : h[k] = g[k]
    OBVIOUS
  <2>3. h[m + 1] = end
    OBVIOUS
  <2> HIDE DEF h
  <2>4. ASSUME NEW k \in 0..m PROVE h[k] = BadTurn(junk, h, k)
    <3>1. CASE k = 0
      BY <2>1, <2>2, <3>1 DEF BadTurn
    <3>2. CASE k # 0
      <4>1. k - 1 \in 0..m
        BY <3>2
      <4>2. h[k - 1] = g[k - 1] /\ h[k] = g[k]
        BY <2>2, <4>1
      <4>3. g[k] = BadTurn(junk, g, k)
        BY <2>1
      <4>4. BadTurn(junk, h, k) = BadTurn(junk, g, k)
        BY <3>2, <4>2, Zenon DEF BadTurn
      <4> QED BY <4>2, <4>3, <4>4, Zenon
    <3> QED BY <3>1, <3>2
  <2>5. h[m + 1] = BadTurn(junk, h, m + 1)
    <3>1. m + 1 # 0 /\ (m + 1) - 1 = m /\ m \in 0..m
      OBVIOUS
    <3>2. h[(m + 1) - 1] = g[(m + 1) - 1]
      BY <2>2, <3>1
    <3>3. BadTurn(junk, h, m + 1) = BadTurn(junk, g, m + 1)
      BY <3>1, <3>2, Zenon DEF BadTurn
    <3> QED BY <2>3, <3>3, Zenon DEF end
  <2>6. \A k \in 0..(m + 1) : k \in 0..m \/ k = m + 1
    OBVIOUS
  <2>7. Solves(h, m + 1)
    BY <2>4, <2>5, <2>6
  <2> QED BY <2>7
<1>3. PICK g : Solves(g, N)
  <2> HIDE DEF T
  <2>1. \A n \in Nat : n \in T
    BY <1>1, <1>2, SetInduction
  <2> QED BY <2>1 DEF T, N
<1> DEFINE h == [k \in 0..N |-> g[k]]
<1>4. ASSUME NEW k \in 0..N PROVE BadTurn(junk, h, k) = g[k]
  <2>1. g[k] = BadTurn(junk, g, k)
    BY <1>3
  <2>2. k = 0 \/ h[k - 1] = g[k - 1]
    <3>1. N \in Nat
      BY DEF N
    <3>2. k = 0 \/ k - 1 \in 0..N
      BY <3>1
    <3> QED BY <3>2
  <2> HIDE DEF h
  <2>3. BadTurn(junk, h, k) = BadTurn(junk, g, k)
    <3>1. CASE k = 0
      BY <3>1, Zenon DEF BadTurn
    <3>2. CASE k # 0
      BY <2>2, <3>2, Zenon DEF BadTurn
    <3> QED BY <3>1, <3>2, Zenon
  <2> QED BY <2>1, <2>3, Zenon
<1>5. h = [k \in 0..N |-> BadTurn(junk, h, k)]
  BY <1>4
<1>6. \E f : BadTurns(junk, f)
  BY <1>5 DEF BadTurns, N
<1>7. PICK f : BadTurns(junk, f) /\ BadChannels(junk) = f[Looked].bad
  BY <1>6, BadChannelsAreOne, Zenon
<1>8. \A k \in 0..Looked : f[k] = BadTurn(junk, f, k)
  BY <1>7 DEF BadTurns
<1> QED BY <1>7, <1>8, Zenon DEF BadStates

\* What a line says, and what all lines up to one say.
Says(line) ==
  CASE Len(line) = 2 -> [c \in 1..(IF line[2] < line[1] THEN 0 ELSE line[2] - line[1] + 1)
                            |-> line[1] + c - 1]
    [] OTHER -> line

SaidTurn(all, g, n) ==
  IF n = 0 THEN <<>> ELSE IF n = 1 THEN Says(all[1]) ELSE g[n - 1] \o Says(all[n])

SaidStates(all, g) ==
  /\ \A n \in 0..Len(all) : g[n] = SaidTurn(all, g, n)
  /\ Said(all) = g[Len(all)]

Flattened(seqs, f) == f = [i \in 1..Len(seqs) |-> IF i = 1 THEN seqs[i] ELSE f[i - 1] \o seqs[i]]

LEMMA FlattenSeqIs ==
  ASSUME NEW seqs, Len(seqs) # 0
  PROVE  FlattenSeq(seqs) = (CHOOSE f : Flattened(seqs, f))[Len(seqs)]
BY Zenon DEF FlattenSeq, Flattened

FlatTurn(seqs, f, i) == IF i = 1 THEN seqs[i] ELSE f[i - 1] \o seqs[i]

FlatStates(seqs, f) ==
  /\ \A i \in 1..Len(seqs) : f[i] = FlatTurn(seqs, f, i)
  /\ FlattenSeq(seqs) = f[Len(seqs)]

LEMMA FlattenUnfold ==
  ASSUME NEW seqs, Len(seqs) \in Nat, Len(seqs) # 0 PROVE \E f : FlatStates(seqs, f)
<1> DEFINE N == Len(seqs)
           Solves(f, m) == \A k \in 1..m : f[k] = FlatTurn(seqs, f, k)
           T == {m \in Nat : \E f : Solves(f, m)}
<1> HIDE DEF N
<1>1. 0 \in T
  OBVIOUS
<1>2. ASSUME NEW m \in Nat, m \in T PROVE m + 1 \in T
  <2>1. PICK f : Solves(f, m)
    BY <1>2
  <2> DEFINE end == FlatTurn(seqs, f, m + 1)
             h == [k \in 1..(m + 1) |-> IF k = m + 1 THEN end ELSE f[k]]
  <2> HIDE DEF end
  <2>2. \A k \in 1..m : h[k] = f[k]
    OBVIOUS
  <2>3. h[m + 1] = end
    OBVIOUS
  <2> HIDE DEF h
  <2>4. ASSUME NEW k \in 1..m PROVE h[k] = FlatTurn(seqs, h, k)
    <3>1. CASE k = 1
      BY <2>1, <2>2, <3>1 DEF FlatTurn
    <3>2. CASE k # 1
      <4>1. k - 1 \in 1..m
        BY <3>2
      <4>2. h[k - 1] = f[k - 1] /\ h[k] = f[k]
        BY <2>2, <4>1
      <4>3. f[k] = FlatTurn(seqs, f, k)
        BY <2>1
      <4>4. FlatTurn(seqs, h, k) = FlatTurn(seqs, f, k)
        BY <3>2, <4>2, Zenon DEF FlatTurn
      <4> QED BY <4>2, <4>3, <4>4, Zenon
    <3> QED BY <3>1, <3>2
  <2>5. h[m + 1] = FlatTurn(seqs, h, m + 1)
    <3>1. CASE m = 0
      <4>1. m + 1 = 1
        BY <3>1
      <4>2. FlatTurn(seqs, h, m + 1) = seqs[m + 1] /\ FlatTurn(seqs, f, m + 1) = seqs[m + 1]
        BY <4>1, Zenon DEF FlatTurn
      <4> QED BY <2>3, <4>2, Zenon DEF end
    <3>2. CASE m # 0
      <4>1. m + 1 # 1 /\ (m + 1) - 1 = m /\ m \in 1..m
        BY <3>2
      <4>2. h[(m + 1) - 1] = f[(m + 1) - 1]
        BY <2>2, <4>1
      <4>3. FlatTurn(seqs, h, m + 1) = FlatTurn(seqs, f, m + 1)
        BY <4>1, <4>2, Zenon DEF FlatTurn
      <4> QED BY <2>3, <4>3, Zenon DEF end
    <3> QED BY <3>1, <3>2
  <2>6. \A k \in 1..(m + 1) : k \in 1..m \/ k = m + 1
    OBVIOUS
  <2>7. Solves(h, m + 1)
    BY <2>4, <2>5, <2>6
  <2> QED BY <2>7
<1>3. PICK f : Solves(f, N)
  <2> HIDE DEF T
  <2>1. \A n \in Nat : n \in T
    BY <1>1, <1>2, SetInduction
  <2> QED BY <2>1 DEF T, N
<1> DEFINE h == [k \in 1..N |-> f[k]]
<1>4. ASSUME NEW k \in 1..N PROVE FlatTurn(seqs, h, k) = f[k]
  <2>1. f[k] = FlatTurn(seqs, f, k)
    BY <1>3
  <2>2. k = 1 \/ h[k - 1] = f[k - 1]
    <3>1. N \in Nat
      BY DEF N
    <3>2. k = 1 \/ k - 1 \in 1..N
      BY <3>1
    <3> QED BY <3>2
  <2> HIDE DEF h
  <2>3. FlatTurn(seqs, h, k) = FlatTurn(seqs, f, k)
    <3>1. CASE k = 1
      BY <3>1, Zenon DEF FlatTurn
    <3>2. CASE k # 1
      BY <2>2, <3>2, Zenon DEF FlatTurn
    <3> QED BY <3>1, <3>2, Zenon
  <2> QED BY <2>1, <2>3, Zenon
<1>5. h = [k \in 1..N |-> FlatTurn(seqs, h, k)]
  BY <1>4
<1>6. \E x : Flattened(seqs, x)
  BY <1>5 DEF Flattened, FlatTurn, N
<1>7. PICK x : Flattened(seqs, x) /\ FlattenSeq(seqs) = x[Len(seqs)]
  BY <1>6, FlattenSeqIs, Zenon
<1>8. \A k \in 1..Len(seqs) : x[k] = FlatTurn(seqs, x, k)
  BY <1>7 DEF Flattened, FlatTurn
<1> QED BY <1>7, <1>8, Zenon DEF FlatStates

LEMMA SaidUnfold ==
  ASSUME NEW all \in Seq(LineTexts) PROVE \E g : SaidStates(all, g)
<1> DEFINE L == Len(all)
           seqs == [j \in DOMAIN all |-> Says(all[j])]
<1>1. Said(all) = FlattenSeq(seqs)
  BY Zenon DEF Said, Says
<1>2. L \in Nat /\ DOMAIN all = 1..L
  OBVIOUS
<1> HIDE DEF L
<1>3. (\A j \in 1..L : seqs[j] = Says(all[j])) /\ seqs = [j \in 1..L |-> Says(all[j])]
  <2>1. \A j \in 1..L : j \in DOMAIN all
    BY <1>2
  <2> QED BY <1>2, <2>1, Zenon
<1>4. Len(seqs) = L
  <2> DEFINE F == [j \in 1..L |-> Says(all[j])]
  <2>1. Len(F) = L
    BY <1>2
  <2> QED BY <1>3, <2>1, Zenon
<1> HIDE DEF seqs
<1>5. CASE L = 0
  <2>1. seqs = <<>>
    BY <1>3, <1>5
  <2>2. Said(all) = <<>>
    <3>1. Len(seqs) = 0
      BY <1>4, <1>5
    <3>2. FlattenSeq(seqs) = seqs
      BY <3>1, Zenon DEF FlattenSeq
    <3> QED BY <1>1, <2>1, <3>2, Zenon
  <2> DEFINE g == [n \in 0..L |-> <<>>]
  <2>3. g[0] = <<>> /\ \A n \in 0..L : n = 0
    BY <1>5
  <2>4. \A n \in 0..L : g[n] = SaidTurn(all, g, n)
    BY <2>3, Zenon DEF SaidTurn
  <2>5. Said(all) = g[L]
    BY <1>5, <2>2, <2>3
  <2> QED BY <2>4, <2>5, Zenon DEF SaidStates, L
<1>6. CASE L # 0
  <2>1. PICK f : FlatStates(seqs, f)
    <3>1. Len(seqs) \in Nat /\ Len(seqs) # 0
      BY <1>2, <1>4, <1>6
    <3> QED BY <3>1, FlattenUnfold, Zenon
  <2>2. (\A i \in 1..L : f[i] = FlatTurn(seqs, f, i)) /\ FlattenSeq(seqs) = f[L]
    BY <1>4, <2>1, Zenon DEF FlatStates
  <2> DEFINE g == [n \in 0..L |-> IF n = 0 THEN <<>> ELSE f[n]]
  <2>3. g[0] = <<>> /\ \A n \in 1..L : g[n] = f[n]
    BY <1>2
  <2> HIDE DEF g
  <2>4. ASSUME NEW n \in 0..L PROVE g[n] = SaidTurn(all, g, n)
    <3>1. CASE n = 0
      BY <2>3, <3>1, Zenon DEF SaidTurn
    <3>2. CASE n = 1
      <4>1. n \in 1..L /\ n # 0
        BY <1>2, <1>6, <3>2
      <4> QED BY <1>3, <2>2, <2>3, <3>2, <4>1, Zenon DEF SaidTurn, FlatTurn
    <3>3. CASE n # 0 /\ n # 1
      <4>1. n \in 1..L /\ n - 1 \in 1..L
        BY <1>2, <3>3
      <4>2. f[n] = f[n - 1] \o seqs[n]
        BY <2>2, <3>3, <4>1, Zenon DEF FlatTurn
      <4>3. SaidTurn(all, g, n) = g[n - 1] \o Says(all[n])
        BY <3>3, Zenon DEF SaidTurn
      <4> QED BY <1>3, <2>3, <4>1, <4>2, <4>3, Zenon
    <3> QED BY <3>1, <3>2, <3>3
  <2>5. Said(all) = g[L]
    <3>1. L \in 1..L
      BY <1>2, <1>6
    <3> QED BY <1>1, <2>2, <2>3, <3>1, Zenon
  <2> QED BY <2>4, <2>5, Zenon DEF SaidStates, L
<1> QED BY <1>5, <1>6

\* What is said is listed, and is all that is listed when no line is empty.
Covers(bad, said) == \A i \in 1..Len(said) : \E k \in 1..Len(bad) : bad[k] = said[i]

Agrees(bad, said, whole) ==
  bad \in Seq(Int) /\ said \in Seq(Int) /\ Covers(bad, said) /\ (whole => bad = said)

LEMMA MoreOfBoth ==
  ASSUME NEW bad, NEW said, NEW whole, Agrees(bad, said, whole), NEW t \in Seq(Int)
  PROVE  Agrees(bad \o t, said \o t, whole)
<1>1. bad \in Seq(Int) /\ said \in Seq(Int) /\ Covers(bad, said) /\ (whole => bad = said)
  BY Zenon DEF Agrees
<1>2. /\ bad \o t \in Seq(Int) /\ Len(bad \o t) = Len(bad) + Len(t)
      /\ \A i \in 1..(Len(bad) + Len(t)) :
           (bad \o t)[i] = IF i <= Len(bad) THEN bad[i] ELSE t[i - Len(bad)]
  BY <1>1, ConcatProperties
<1>3. /\ said \o t \in Seq(Int) /\ Len(said \o t) = Len(said) + Len(t)
      /\ \A i \in 1..(Len(said) + Len(t)) :
           (said \o t)[i] = IF i <= Len(said) THEN said[i] ELSE t[i - Len(said)]
  BY <1>1, ConcatProperties
<1>4. Len(bad) \in Nat /\ Len(said) \in Nat /\ Len(t) \in Nat
  BY <1>1, LenProperties
<1> DEFINE b == bad \o t
           s == said \o t
<1> HIDE DEF b, s
<1>5. Covers(b, s)
  <2> SUFFICES ASSUME NEW i \in 1..Len(s) PROVE \E k \in 1..Len(b) : b[k] = s[i]
    BY Zenon DEF Covers
  <2>1. CASE i <= Len(said)
    <3>1. i \in 1..Len(said)
      BY <1>4, <2>1
    <3>2. PICK k \in 1..Len(bad) : bad[k] = said[i]
      BY <1>1, <3>1, Zenon DEF Covers
    <3>3. s[i] = said[i]
      BY <1>3, <1>4, <2>1, <3>1 DEF s
    <3>4. k \in 1..Len(b) /\ b[k] = bad[k]
      BY <1>2, <1>4, <3>2 DEF b
    <3> QED BY <3>2, <3>3, <3>4
  <2>2. CASE ~(i <= Len(said))
    <3> DEFINE j == i - Len(said)
    <3>1. j \in 1..Len(t) /\ i \in 1..(Len(said) + Len(t))
      BY <1>3, <1>4, <2>2 DEF s
    <3>2. s[i] = t[j]
      BY <1>3, <2>2, <3>1 DEF s
    <3> HIDE DEF j
    <3>3. j + Len(bad) \in 1..Len(b) /\ b[j + Len(bad)] = t[j]
      BY <1>2, <1>4, <3>1 DEF b
    <3> QED BY <3>2, <3>3
  <2> QED BY <2>1, <2>2
<1>6. whole => b = s
  BY <1>1, Zenon DEF b, s
<1> QED BY <1>2, <1>3, <1>5, <1>6, Zenon DEF Agrees, b, s

LEMMA MoreIsListed ==
  ASSUME NEW bad, NEW said, NEW whole, Agrees(bad, said, whole), NEW x \in Int
  PROVE  Agrees(Append(bad, x), said, FALSE)
<1> DEFINE b == Append(bad, x)
<1>1. bad \in Seq(Int) /\ said \in Seq(Int) /\ Covers(bad, said)
  BY Zenon DEF Agrees
<1>2. b \in Seq(Int) /\ Len(b) = Len(bad) + 1 /\ \A k \in 1..Len(bad) : b[k] = bad[k]
  BY <1>1, AppendProperties
<1>3. Len(bad) \in Nat
  BY <1>1, LenProperties
<1> HIDE DEF b
<1>4. \A k \in 1..Len(bad) : k \in 1..Len(b)
  BY <1>2, <1>3
<1>5. Covers(b, said)
  BY <1>1, <1>2, <1>4, Zenon DEF Covers
<1> QED BY <1>1, <1>2, <1>5, Zenon DEF Agrees, b

LEMMA LineTextIs ==
  ASSUME NEW line \in LineTexts
  PROVE  \/ line = <<>>
         \/ \E c \in Int : line = <<c>>
         \/ \E c \in Int, d \in Int : line = <<c, d>>
BY BadChannelsConstants DEF LineTexts

LEMMA SpanIsSeq ==
  ASSUME NEW min \in Int, NEW max \in Int PROVE Span(min, max) \in Seq(Int)
<1> DEFINE n == IF max < min THEN 0 ELSE max - min + 1
<1>1. n \in Nat
  OBVIOUS
<1> HIDE DEF n
<1>2. \A c \in 1..n : min + c - 1 \in Int
  BY <1>1
<1>3. [c \in 1..n |-> min + c - 1] \in Seq(Int)
  BY <1>1, <1>2
<1> QED BY <1>3, Zenon DEF Span, n

\* The state of the loop and what the lines have said so far.
BadAt(st, said, whole) == st.ich \in Int /\ Agrees(st.bad, said, whole)

LEMMA BadStep ==
  ASSUME NEW st, NEW said, NEW whole, BadAt(st, said, whole), NEW line \in LineTexts, NEW still,
         still => whole /\ line # <<>>
  PROVE  BadAt(Line(st, line), said \o Says(line), still)
<1> DEFINE next == Line(st, line)
           more == Says(line)
<1>1. st.ich \in Int /\ Agrees(st.bad, said, whole)
  BY Zenon DEF BadAt
<1>2. st.bad \in Seq(Int) /\ said \in Seq(Int)
  BY <1>1, Zenon DEF Agrees
<1>3. SUFFICES next.ich \in Int /\ Agrees(next.bad, said \o more, still)
  BY Zenon DEF BadAt
<1>4. ASSUME NEW b, Agrees(b, said \o more, whole) PROVE Agrees(b, said \o more, still)
  BY <1>4, Zenon DEF Agrees
<1>5. CASE line = <<>>
  <2>1. Len(line) # 2 /\ Len(line) # 1
    BY <1>5
  <2>2. next = [bad |-> Append(st.bad, st.ich), ich |-> st.ich] /\ more = line
    BY <2>1, Zenon DEF Line, Says
  <2>3. next.bad = Append(st.bad, st.ich) /\ next.ich = st.ich
    BY <2>2
  <2> HIDE DEF next, more
  <2>4. said \o more = said
    BY <1>2, <1>5, <2>2
  <2>5. Agrees(Append(st.bad, st.ich), said, FALSE)
    BY <1>1, MoreIsListed, Zenon
  <2>6. Agrees(Append(st.bad, st.ich), said, still)
    BY <1>5, <2>5, Zenon DEF Agrees
  <2> QED BY <1>1, <2>3, <2>4, <2>6, Zenon DEF next, more
<1>6. ASSUME NEW c \in Int, line = <<c>>
      PROVE  next.ich \in Int /\ Agrees(next.bad, said \o more, still)
  <2>1. Len(line) # 2 /\ Len(line) = 1 /\ line[1] = c
    BY <1>6
  <2>2. next = [bad |-> Append(st.bad, c), ich |-> c] /\ more = line
    BY <2>1, Zenon DEF Line, Says
  <2>3. next.bad = Append(st.bad, c) /\ next.ich = c
    BY <2>2
  <2> HIDE DEF next, more
  <2>4. Append(st.bad, c) = st.bad \o more
    BY <1>2, <1>6, <2>2
  <2>5. more \in Seq(Int)
    BY <1>6, <2>2
  <2>6. Agrees(st.bad \o more, said \o more, whole)
    BY <1>1, <2>5, MoreOfBoth, Zenon
  <2>7. Agrees(st.bad \o more, said \o more, still)
    BY <1>4, <2>6, Zenon
  <2>8. next.ich \in Int
    BY <2>3
  <2> QED BY <2>3, <2>4, <2>7, <2>8, Zenon DEF next, more
<1>7. ASSUME NEW c \in Int, NEW d \in Int, line = <<c, d>>
      PROVE  next.ich \in Int /\ Agrees(next.bad, said \o more, still)
  <2>1. Len(line) = 2 /\ line[1] = c /\ line[2] = d
    BY <1>7
  <2> DEFINE i == IF line[2] < line[1] THEN line[1] ELSE line[2] + 1
             s == st.bad \o Span(line[1], line[2])
  <2>2. next.bad = s /\ next.ich = i
    <3>1. next = [bad |-> st.bad \o Span(line[1], line[2]),
                  ich |-> IF line[2] < line[1] THEN line[1] ELSE line[2] + 1]
      BY <2>1, SMT DEF Line
    <3>2. next = [bad |-> s, ich |-> i]
      BY <3>1, Zenon
    <3> HIDE DEF next, s, i
    <3> QED BY <3>2
  <2>3. more = Span(line[1], line[2])
    BY <2>1, Zenon DEF Says, Span
  <2>4. i \in Int
    BY <2>1
  <2> HIDE DEF i
  <2>5. next.bad = st.bad \o Span(line[1], line[2]) /\ next.ich = i
    BY <2>2, Zenon
  <2>6. more \in Seq(Int)
    BY <2>1, <2>3, SpanIsSeq
  <2> HIDE DEF next, more
  <2>7. Agrees(st.bad \o more, said \o more, whole)
    BY <1>1, <2>6, MoreOfBoth, Zenon
  <2>8. Agrees(st.bad \o more, said \o more, still)
    BY <1>4, <2>7, Zenon
  <2> QED BY <2>3, <2>4, <2>5, <2>8, Zenon DEF next, more
<1> QED BY <1>5, <1>6, <1>7, LineTextIs, Zenon

\* The list of a file whose last line ends in a newline.
Numbered(n) == \A j \in 1..n : lines[j] # <<>>

LEMMA ListIsSaid ==
  ASSUME lines \in Seq(LineTexts), ended, NEW junk \in Int
  PROVE  Agrees(BadChannels(junk), Said(lines), Numbered(Len(lines)))
<1> DEFINE L == Len(lines)
<1>1. L \in Nat /\ \A n \in 1..L : lines[n] \in LineTexts
  BY LenProperties
<1>2. Looked = L
  BY Zenon DEF Looked
<1> HIDE DEF L
<1>3. Looked \in Nat
  BY <1>1, <1>2
<1>4. PICK g : BadStates(junk, g)
  BY <1>3, BadChannelsUnfold, Zenon
<1>5. (\A n \in 0..L : g[n] = BadTurn(junk, g, n)) /\ BadChannels(junk) = g[L].bad
  BY <1>2, <1>4, Zenon DEF BadStates
<1>6. PICK h : SaidStates(lines, h)
  BY SaidUnfold, Zenon
<1>7. (\A n \in 0..L : h[n] = SaidTurn(lines, h, n)) /\ Said(lines) = h[L]
  BY <1>6, Zenon DEF SaidStates, L
<1> DEFINE T == {n \in Nat : n <= L => BadAt(g[n], h[n], Numbered(n))}
<1>8. 0 \in T
  <2>1. 0 \in 0..L
    BY <1>1
  <2>2. g[0] = BadStart(junk) /\ h[0] = <<>>
    BY <1>5, <1>7, <2>1, Zenon DEF BadTurn, SaidTurn
  <2>3. BadStart(junk).ich = junk /\ BadStart(junk).bad = <<>>
    BY DEF BadStart
  <2>4. <<>> \in Seq(Int) /\ Covers(<<>>, <<>>)
    BY DEF Covers
  <2>5. BadAt(g[0], h[0], Numbered(0))
    BY <2>2, <2>3, <2>4, Zenon DEF BadAt, Agrees
  <2> QED BY <2>5
<1>9. ASSUME NEW n \in Nat, n \in T PROVE n + 1 \in T
  <2> SUFFICES ASSUME n + 1 <= L PROVE BadAt(g[n + 1], h[n + 1], Numbered(n + 1))
    OBVIOUS
  <2>1. /\ n + 1 \in 0..L /\ n + 1 \in 1..L /\ n + 1 # 0 /\ (n + 1) - 1 = n /\ n <= L
        /\ n + 1 = 1 <=> n = 0
        /\ n \in 0..L
        /\ n + 1 \in 1..(n + 1)
    BY <1>1
  <2>2. BadAt(g[n], h[n], Numbered(n))
    BY <1>9, <2>1
  <2>3. lines[n + 1] \in LineTexts
    BY <1>1, <2>1
  <2>4. Numbered(n + 1) => Numbered(n) /\ lines[n + 1] # <<>>
    <3>1. \A j \in 1..n : j \in 1..(n + 1)
      OBVIOUS
    <3> QED BY <2>1, <3>1, Zenon DEF Numbered
  <2>5. BadAt(Line(g[n], lines[n + 1]), h[n] \o Says(lines[n + 1]), Numbered(n + 1))
    BY <2>2, <2>3, <2>4, BadStep, Zenon
  <2>6. g[n + 1] = Line(g[n], lines[n + 1])
    BY <1>5, <2>1, Zenon DEF BadTurn
  <2>7. h[n + 1] = h[n] \o Says(lines[n + 1])
    <3>1. h[n + 1] = SaidTurn(lines, h, n + 1)
      BY <1>7, <2>1, Zenon
    <3>2. CASE n = 0
      <4>1. h[n + 1] = Says(lines[n + 1])
        BY <2>1, <3>1, <3>2, Zenon DEF SaidTurn
      <4>2. h[n] = <<>>
        BY <1>7, <2>1, <3>2, Zenon DEF SaidTurn
      <4>3. Says(lines[n + 1]) \in Seq(Int)
        <5> DEFINE line == lines[n + 1]
        <5>1. \/ line = <<>> \/ \E c \in Int : line = <<c>>
              \/ \E c \in Int, d \in Int : line = <<c, d>>
          BY <2>3, LineTextIs, Zenon
        <5> HIDE DEF line
        <5>2. CASE line = <<>> \/ \E c \in Int : line = <<c>>
          <6>a. ASSUME line = <<>> PROVE Len(line) # 2 /\ line \in Seq(Int)
            BY <6>a
          <6>b. ASSUME NEW c \in Int, line = <<c>> PROVE Len(line) # 2 /\ line \in Seq(Int)
            BY <6>b
          <6>1. Len(line) # 2 /\ line \in Seq(Int)
            BY <5>2, <6>a, <6>b, Zenon
          <6>2. Says(line) = line
            BY <6>1, Zenon DEF Says
          <6> QED BY <6>1, <6>2, Zenon DEF line
        <5>3. CASE \E c \in Int, d \in Int : line = <<c, d>>
          <6>1. Len(line) = 2 /\ line[1] \in Int /\ line[2] \in Int
            BY <5>3
          <6>2. Says(line) = Span(line[1], line[2])
            BY <6>1, Zenon DEF Says, Span
          <6> QED BY <6>1, <6>2, SpanIsSeq, Zenon DEF line
        <5> QED BY <5>1, <5>2, <5>3, Zenon
      <4> QED BY <4>1, <4>2, <4>3
    <3>3. CASE n # 0
      BY <2>1, <3>1, <3>3, Zenon DEF SaidTurn
    <3> QED BY <3>2, <3>3
  <2> QED BY <2>5, <2>6, <2>7, Zenon
<1>10. BadAt(g[L], h[L], Numbered(L))
  <2> HIDE DEF T
  <2>1. \A n \in Nat : n \in T
    BY <1>8, <1>9, SetInduction
  <2> QED BY <1>1, <2>1 DEF T
<1> QED BY <1>5, <1>7, <1>10, Zenon DEF BadAt, L

\* The lines of a file are those a user writes.
FileOfLines == lines \in Seq(LineTexts)

\* Whatever the numbers in the lines and however many lines, the channels a
\* module gets are those the file names (badChannelCorrections.h:15-55).
THEOREM BadListed == BadSpec => []BadChannelsAreListed
<1>1. BadInit => FileOfLines
  BY DEF BadInit, FileOfLines
<1>2. FileOfLines /\ [BadNext]_badVars => FileOfLines'
  BY DEF FileOfLines, BadNext, AddLine, badVars
<1>3. FileOfLines => BadChannelsAreListed
  <2> SUFFICES ASSUME FileOfLines, ended, NEW junk \in Junk, NEW off \in Offsets
               PROVE  LET want == [c \in DOMAIN Said(lines) |-> Said(lines)[c] + off]
                          list == ShiftedBadChannels(junk, off)
                      IN  /\ ToSet(want) \subseteq ToSet(list)
                          /\ (\A j \in DOMAIN lines : lines[j] # <<>>) => list = want
    BY Zenon DEF BadChannelsAreListed
  <2> DEFINE bad == BadChannels(junk)
             said == Said(lines)
             want == [c \in DOMAIN said |-> said[c] + off]
             shifted == [c \in DOMAIN bad |-> bad[c] + off]
             whole == \A j \in DOMAIN lines : lines[j] # <<>>
  <2>1. Agrees(bad, said, Numbered(Len(lines)))
    <3>1. junk \in Int /\ lines \in Seq(LineTexts)
      BY BadChannelsConstants DEF FileOfLines
    <3> QED BY <3>1, ListIsSaid, Zenon
  <2>2. /\ bad \in Seq(Int) /\ said \in Seq(Int) /\ Covers(bad, said)
        /\ Numbered(Len(lines)) => bad = said
    BY <2>1, Zenon DEF Agrees
  <2>3. whole => Numbered(Len(lines))
    BY DEF FileOfLines, Numbered
  <2>4. ShiftedBadChannels(junk, off) = shifted
    BY Zenon DEF ShiftedBadChannels
  <2> HIDE DEF bad, said, whole
  <2>5. DOMAIN bad = 1..Len(bad) /\ DOMAIN said = 1..Len(said)
    BY <2>2
  <2>6. ToSet(want) \subseteq ToSet(shifted)
    <3>1. \A i \in DOMAIN said : \E k \in DOMAIN bad : bad[k] = said[i]
      BY <2>2, <2>5, Zenon DEF Covers
    <3> QED BY <3>1 DEF ToSet
  <2>7. whole => shifted = want
    BY <2>2, <2>3, Zenon
  <2> QED BY <2>4, <2>6, <2>7, Zenon DEF said, whole
<1> QED BY <1>1, <1>2, <1>3, PTL DEF BadSpec

-----------------------------------------------------------------------------
(* The menus of the records *)

\* An enumeration from a list of names: consecutive values, in its order.
EnumHas(e, first, seq, n) ==
  /\ \A i \in 1..n : e[seq[i]] = first - 1 + i
  /\ DOMAIN e = {seq[i] : i \in 1..n}

LEMMA EnumFromIs ==
  ASSUME NEW seq, NEW n \in Nat, NEW first \in Int, DOMAIN seq = 1..n,
         \A i, j \in 1..n : seq[i] = seq[j] => i = j
  PROVE  EnumHas(EnumFrom(first, seq), first, seq, n)
BY DEF EnumFrom, EnumHas

\* A table whose entries have the names of a list and the values from 0 up.
TableHas(table, names, n) ==
  /\ table = [i \in 1..n |-> table[i]] /\ n \in 1..16
  /\ \A i \in 1..n : \E s : table[i] = Entry(names[i], i - 1, s)

LEMMA StatusesAre ==
  /\ runStatus["IDLE"] = 0 /\ runStatus["ERROR"] = 1 /\ runStatus["WAITING"] = 2
  /\ runStatus["RUN_FINISHED"] = 3 /\ runStatus["TRANSMITTING"] = 4 /\ runStatus["RUNNING"] = 5
  /\ runStatus["STOPPED"] = 6
  /\ \A s \in DOMAIN runStatus : runStatus[s] \in 0..6
<1> DEFINE seq == <<"IDLE", "ERROR", "WAITING", "RUN_FINISHED", "TRANSMITTING", "RUNNING",
                    "STOPPED">>
           e == EnumFrom(0, seq)
<1>1. /\ seq[1] = "IDLE" /\ seq[2] = "ERROR" /\ seq[3] = "WAITING" /\ seq[4] = "RUN_FINISHED"
      /\ seq[5] = "TRANSMITTING" /\ seq[6] = "RUNNING" /\ seq[7] = "STOPPED"
      /\ DOMAIN seq = 1..7
  OBVIOUS
<1>2. runStatus = e
  BY Zenon DEF runStatus
<1> HIDE DEF seq
<1>3. \A i, j \in 1..7 : seq[i] = seq[j] => i = j
  BY <1>1
<1>4. (\A i \in 1..7 : e[seq[i]] = 0 - 1 + i) /\ DOMAIN e = {seq[i] : i \in 1..7}
  <2>1. 7 \in Nat /\ 0 \in Int
    OBVIOUS
  <2>2. EnumHas(e, 0, seq, 7)
    BY <1>1, <1>3, <2>1, EnumFromIs, Zenon
  <2> QED BY <2>2, Zenon DEF EnumHas
<1> HIDE DEF e
<1> QED BY <1>1, <1>2, <1>4

LEMMA TypesAre ==
  /\ detectorType["GENERIC"] = 0 /\ detectorType["MYTHEN"] = 1
  /\ detectorType["PILATUS"] = 2 /\ detectorType["EIGER"] = 3
  /\ detectorType["GOTTHARD"] = 4 /\ detectorType["PICASSO"] = 5
  /\ detectorType["AGIPD"] = 6 /\ detectorType["MOENCH"] = 7
  /\ detectorType["JUNGFRAU"] = 8 /\ detectorType["JUNGFRAUCTB"] = 9
  /\ detectorType["PROPIX"] = 10 /\ detectorType["MYTHEN3"] = 11
  /\ \A s \in DOMAIN detectorType \ {"GET_DETECTOR_TYPE"} : detectorType[s] \in 0..11
<1> DEFINE seq == <<"GET_DETECTOR_TYPE", "GENERIC", "MYTHEN", "PILATUS", "EIGER", "GOTTHARD",
                    "PICASSO", "AGIPD", "MOENCH", "JUNGFRAU", "JUNGFRAUCTB", "PROPIX",
                    "MYTHEN3">>
           e == EnumFrom(-1, seq)
<1>1. /\ seq[1] = "GET_DETECTOR_TYPE" /\ seq[2] = "GENERIC" /\ seq[3] = "MYTHEN"
      /\ seq[4] = "PILATUS" /\ seq[5] = "EIGER" /\ seq[6] = "GOTTHARD"
      /\ seq[7] = "PICASSO" /\ seq[8] = "AGIPD" /\ seq[9] = "MOENCH"
      /\ seq[10] = "JUNGFRAU" /\ seq[11] = "JUNGFRAUCTB" /\ seq[12] = "PROPIX"
      /\ seq[13] = "MYTHEN3"
      /\ DOMAIN seq = 1..13
  OBVIOUS
<1>2. detectorType = e
  BY Zenon DEF detectorType
<1> HIDE DEF seq
<1>3. \A i, j \in 1..13 : seq[i] = seq[j] => i = j
  BY <1>1
<1>4. (\A i \in 1..13 : e[seq[i]] = -1 - 1 + i) /\ DOMAIN e = {seq[i] : i \in 1..13}
  <2>1. 13 \in Nat /\ -1 \in Int
    OBVIOUS
  <2>2. EnumHas(e, -1, seq, 13)
    BY <1>1, <1>3, <2>1, EnumFromIs, Zenon
  <2> QED BY <2>2, Zenon DEF EnumHas
<1> HIDE DEF e
<1> QED BY <1>1, <1>2, <1>4

LEMMA SettingsAre ==
  /\ detectorSettings["STANDARD"] = 0 /\ detectorSettings["FAST"] = 1
  /\ detectorSettings["HIGHGAIN"] = 2 /\ detectorSettings["DYNAMICGAIN"] = 3
  /\ detectorSettings["LOWGAIN"] = 4 /\ detectorSettings["MEDIUMGAIN"] = 5
  /\ detectorSettings["VERYHIGHGAIN"] = 6 /\ detectorSettings["LOWNOISE"] = 7
  /\ detectorSettings["DYNAMICHG0"] = 8 /\ detectorSettings["FIXGAIN1"] = 9
  /\ detectorSettings["FIXGAIN2"] = 10 /\ detectorSettings["FORCESWITCHG1"] = 11
  /\ detectorSettings["FORCESWITCHG2"] = 12 /\ detectorSettings["VERYLOWGAIN"] = 13
  /\ \A s \in DOMAIN detectorSettings \ {"GET_SETTINGS", "UNDEFINED", "UNINITIALIZED"} :
       detectorSettings[s] \in 0..13
<1> DEFINE seq == <<"GET_SETTINGS", "STANDARD", "FAST", "HIGHGAIN", "DYNAMICGAIN", "LOWGAIN",
                    "MEDIUMGAIN", "VERYHIGHGAIN", "LOWNOISE", "DYNAMICHG0", "FIXGAIN1",
                    "FIXGAIN2", "FORCESWITCHG1", "FORCESWITCHG2", "VERYLOWGAIN">>
           more == <<"UNDEFINED", "UNINITIALIZED">>
           e == EnumFrom(-1, seq)
           f == EnumFrom(200, more)
<1>1. /\ seq[1] = "GET_SETTINGS" /\ seq[2] = "STANDARD" /\ seq[3] = "FAST"
      /\ seq[4] = "HIGHGAIN" /\ seq[5] = "DYNAMICGAIN" /\ seq[6] = "LOWGAIN"
      /\ seq[7] = "MEDIUMGAIN"
      /\ seq[8] = "VERYHIGHGAIN" /\ seq[9] = "LOWNOISE" /\ seq[10] = "DYNAMICHG0"
      /\ seq[11] = "FIXGAIN1" /\ seq[12] = "FIXGAIN2" /\ seq[13] = "FORCESWITCHG1"
      /\ seq[14] = "FORCESWITCHG2" /\ seq[15] = "VERYLOWGAIN"
      /\ DOMAIN seq = 1..15
  OBVIOUS
<1>2. detectorSettings = Joined(e, f)
  BY Zenon DEF detectorSettings
<1>a. more[1] = "UNDEFINED" /\ more[2] = "UNINITIALIZED" /\ DOMAIN more = 1..2
  OBVIOUS
<1> HIDE DEF seq, more
<1>3. \A i, j \in 1..15 : seq[i] = seq[j] => i = j
  BY <1>1
<1>4. (\A i \in 1..15 : e[seq[i]] = -1 - 1 + i) /\ DOMAIN e = {seq[i] : i \in 1..15}
  <2>1. 15 \in Nat /\ -1 \in Int
    OBVIOUS
  <2>2. EnumHas(e, -1, seq, 15)
    BY <1>1, <1>3, <2>1, EnumFromIs, Zenon
  <2> QED BY <2>2, Zenon DEF EnumHas
<1>5. DOMAIN f = {"UNDEFINED", "UNINITIALIZED"}
  BY <1>a DEF EnumFrom
<1> HIDE DEF e, f
<1>6. \A s \in DOMAIN e : s \in DOMAIN detectorSettings /\ detectorSettings[s] = e[s]
  BY <1>2 DEF Joined
<1>7. \A i \in 1..15 : detectorSettings[seq[i]] = -1 - 1 + i
  BY <1>4, <1>6
<1>8. \A s \in DOMAIN detectorSettings :
        s \in {"UNDEFINED", "UNINITIALIZED"} \/ \E i \in 1..15 : s = seq[i]
  BY <1>2, <1>4, <1>5 DEF Joined
<1>9. ASSUME NEW s \in DOMAIN detectorSettings \ {"GET_SETTINGS", "UNDEFINED", "UNINITIALIZED"}
      PROVE  detectorSettings[s] \in 0..13
  <2>1. PICK i \in 1..15 : s = seq[i]
    BY <1>8
  <2>2. i # 1
    BY <1>1, <2>1
  <2> QED BY <1>7, <2>1, <2>2
<1> QED BY <1>1, <1>7, <1>9

\* The names of the entries, which have the values from 0 up.
RunStatusNames ==
  <<"idle", "error", "waiting", "finished", "data", "running", "stopped">>

LEMMA RunStatusTable == TableHas(SlsRunStatusEnums, RunStatusNames, 7)
<1> DEFINE t == <<Entry("idle", 0, "none"), Entry("error", 1, "major"),
                  Entry("waiting", 2, "none"), Entry("finished", 3, "none"),
                  Entry("data", 4, "none"), Entry("running", 5, "none"),
                  Entry("stopped", 6, "none")>>
<1>1. SlsRunStatusEnums = t
  <2>1. /\ "IDLE" \notin DOMAIN runStatusName
        /\ "ERROR" \in DOMAIN runStatusName /\ runStatusName["ERROR"] = "error"
        /\ "WAITING" \in DOMAIN runStatusName /\ runStatusName["WAITING"] = "waiting"
        /\ "RUN_FINISHED" \in DOMAIN runStatusName
        /\ runStatusName["RUN_FINISHED"] = "finished"
        /\ "TRANSMITTING" \in DOMAIN runStatusName /\ runStatusName["TRANSMITTING"] = "data"
        /\ "RUNNING" \in DOMAIN runStatusName /\ runStatusName["RUNNING"] = "running"
        /\ "STOPPED" \in DOMAIN runStatusName /\ runStatusName["STOPPED"] = "stopped"
    BY DEF runStatusName
  <2> QED BY <2>1, StatusesAre, Zenon DEF SlsRunStatusEnums, StatusEntry
<1>2. \A i \in 1..7 : \E s : t[i] = Entry(RunStatusNames[i], i - 1, s)
  BY DEF RunStatusNames
<1>3. t = [i \in 1..7 |-> t[i]]
  OBVIOUS
<1> HIDE DEF t
<1> QED BY <1>1, <1>2, <1>3 DEF TableHas

DetTypeNames ==
  <<"Unknown", "Mythen", "Pilatus", "Eiger", "Gotthard", "Unknown", "Agipd", "Moench",
    "Jungfrau", "JungfrauCTB", "Propix", "Mythen3">>

LEMMA DetTypesTable == TableHas(SlsDetTypesEnums, DetTypeNames, 12)
<1> DEFINE t == <<Entry("Unknown", 0, "none"), Entry("Mythen", 1, "none"),
                  Entry("Pilatus", 2, "none"), Entry("Eiger", 3, "none"),
                  Entry("Gotthard", 4, "none"), Entry("Unknown", 5, "none"),
                  Entry("Agipd", 6, "none"), Entry("Moench", 7, "none"),
                  Entry("Jungfrau", 8, "none"), Entry("JungfrauCTB", 9, "none"),
                  Entry("Propix", 10, "none"), Entry("Mythen3", 11, "none")>>
<1>1. SlsDetTypesEnums = t
  <2> DEFINE names == receiverDetectorTypeName
  <2>1. /\ "GENERIC" \notin DOMAIN names /\ "PICASSO" \notin DOMAIN names
        /\ "MYTHEN" \in DOMAIN names /\ names["MYTHEN"] = "Mythen"
        /\ "PILATUS" \in DOMAIN names /\ names["PILATUS"] = "Pilatus"
        /\ "EIGER" \in DOMAIN names /\ names["EIGER"] = "Eiger"
        /\ "GOTTHARD" \in DOMAIN names /\ names["GOTTHARD"] = "Gotthard"
        /\ "AGIPD" \in DOMAIN names /\ names["AGIPD"] = "Agipd"
        /\ "MOENCH" \in DOMAIN names /\ names["MOENCH"] = "Moench"
        /\ "JUNGFRAU" \in DOMAIN names /\ names["JUNGFRAU"] = "Jungfrau"
        /\ "JUNGFRAUCTB" \in DOMAIN names /\ names["JUNGFRAUCTB"] = "JungfrauCTB"
        /\ "PROPIX" \in DOMAIN names /\ names["PROPIX"] = "Propix"
        /\ "MYTHEN3" \in DOMAIN names /\ names["MYTHEN3"] = "Mythen3"
    BY DEF receiverDetectorTypeName
  <2> QED BY <2>1, TypesAre, Zenon DEF SlsDetTypesEnums, TypeEntry
<1>2. \A i \in 1..12 : \E s : t[i] = Entry(DetTypeNames[i], i - 1, s)
  BY DEF DetTypeNames
<1>3. t = [i \in 1..12 |-> t[i]]
  OBVIOUS
<1> HIDE DEF t
<1> QED BY <1>1, <1>2, <1>3 DEF TableHas

GainNames ==
  <<"Standard", "Fast", "HighGain", "DynamicGain", "LowGain", "MediumGain", "VeryHighGain",
    "LowNoise", "DynamicHG0", "FixGain1", "FixGain2", "ForceSwitchG1", "ForceSwitchG2",
    "VeryLowGain">>

LEMMA GainTable == TableHas(SlsGainEnums, GainNames, 14)
<1> DEFINE t == <<Entry("Standard", 0, "none"), Entry("Fast", 1, "none"),
                  Entry("HighGain", 2, "none"), Entry("DynamicGain", 3, "none"),
                  Entry("LowGain", 4, "none"), Entry("MediumGain", 5, "none"),
                  Entry("VeryHighGain", 6, "none"), Entry("LowNoise", 7, "none"),
                  Entry("DynamicHG0", 8, "none"), Entry("FixGain1", 9, "none"),
                  Entry("FixGain2", 10, "none"), Entry("ForceSwitchG1", 11, "none"),
                  Entry("ForceSwitchG2", 12, "none"), Entry("VeryLowGain", 13, "none")>>
<1>1. SlsGainEnums = t
  BY SettingsAre, Zenon DEF SlsGainEnums, GainEntry
<1>2. \A i \in 1..14 : \E s : t[i] = Entry(GainNames[i], i - 1, s)
  BY DEF GainNames
<1>3. t = [i \in 1..14 |-> t[i]]
  OBVIOUS
<1> HIDE DEF t
<1> QED BY <1>1, <1>2, <1>3 DEF TableHas

LEMMA OnOffTable == TableHas(SlsOnOffEnums, <<"Off", "On">>, 2)
BY DEF TableHas, SlsOnOffEnums

LEMMA OkTrippedTable == TableHas(SlsOkTrippedEnums, <<"Ok", "Tripped">>, 2)
BY DEF TableHas, SlsOkTrippedEnums

LEMMA ConnStatusTable == TableHas(SlsConnStatusEnums, <<"Disconnected", "Connected">>, 2)
BY DEF TableHas, SlsConnStatusEnums

LEMMA ClockDivTable == TableHas(SlsClockDivEnums, <<"Full", "Half", "Quarter">>, 3)
BY DEF TableHas, SlsClockDivEnums

\* A table that serves a parameter: it fits the record, it has an entry for every
\* answer, and, but for the type, no name twice.
Serves(p, table, names, n) ==
  /\ TableHas(table, names, n) /\ n <= States(p) /\ States(p) <= 16
  /\ Answers(p) \subseteq 0..(n - 1)
  /\ p # "SLS_DET_TYPE" => \A i, j \in 1..n : names[i] = names[j] => i = j

IsServed(k) ==
  \E names, n : Serves(SlsDetEnums[k].name, SlsDetEnums[k].enums, names, n)

LEMMA TwoServe ==
  ASSUME NEW p \in {"SLS_GET_CHIP_POWER", "SLS_SET_CHIP_POWER", "SLS_GET_TEMP_CONTROL",
                    "SLS_SET_TEMP_CONTROL", "SLS_DET_ENABLED", "SLS_GET_TEMP_EVENT",
                    "SLS_SET_TEMP_EVENT", "SLS_CONN_STATUS"},
         NEW table, NEW m, NEW n, m # n, TableHas(table, <<m, n>>, 2)
  PROVE  Serves(p, table, <<m, n>>, 2)
<1>1. Answers(p) = {0, 1}
  BY DEF Answers
<1>2. States(p) = 2
  BY DEF States
<1>3. \A i, j \in 1..2 : <<m, n>>[i] = <<m, n>>[j] => i = j
  OBVIOUS
<1> QED BY <1>1, <1>2, <1>3 DEF Serves

LEMMA StatusServes == Serves("SLS_RUN_STATUS", SlsRunStatusEnums, RunStatusNames, 7)
<1>1. Answers("SLS_RUN_STATUS") = {runStatus[s] : s \in DOMAIN runStatus}
  BY DEF Answers
<1>2. States("SLS_RUN_STATUS") = 16
  BY DEF States
<1>3. \A i, j \in 1..7 : RunStatusNames[i] = RunStatusNames[j] => i = j
  BY DEF RunStatusNames
<1>4. Answers("SLS_RUN_STATUS") \subseteq 0..6
  BY <1>1, StatusesAre
<1> QED BY <1>2, <1>3, <1>4, RunStatusTable DEF Serves

LEMMA TypeServes == Serves("SLS_DET_TYPE", SlsDetTypesEnums, DetTypeNames, 12)
<1>1. Answers("SLS_DET_TYPE")
        = {detectorType[t] : t \in DOMAIN detectorType \ {"GET_DETECTOR_TYPE"}}
  BY DEF Answers
<1>2. States("SLS_DET_TYPE") = 16
  BY DEF States
<1>3. Answers("SLS_DET_TYPE") \subseteq 0..11
  BY <1>1, TypesAre
<1> QED BY <1>2, <1>3, DetTypesTable DEF Serves

LEMMA SpeedServes ==
  ASSUME NEW p \in {"SLS_GET_SPEED", "SLS_SET_SPEED"}
  PROVE  Serves(p, SlsClockDivEnums, <<"Full", "Half", "Quarter">>, 3)
<1>1. Answers(p) = {0, 1, 2}
  BY DEF Answers
<1>2. States(p) = 16
  BY DEF States
<1>3. \A i, j \in 1..3 :
        <<"Full", "Half", "Quarter">>[i] = <<"Full", "Half", "Quarter">>[j] => i = j
  OBVIOUS
<1> QED BY <1>1, <1>2, <1>3, ClockDivTable DEF Serves

LEMMA GainServes ==
  ASSUME NEW p \in {"SLS_GET_GAIN", "SLS_SET_GAIN"}
  PROVE  Serves(p, SlsGainEnums, GainNames, 14)
<1>1. Answers(p) = {detectorSettings[s] : s \in DOMAIN detectorSettings
                                            \ {"GET_SETTINGS", "UNDEFINED", "UNINITIALIZED"}}
  BY DEF Answers
<1>2. States(p) = 16
  BY DEF States
<1>3. \A i, j \in 1..14 : GainNames[i] = GainNames[j] => i = j
  BY DEF GainNames
<1>4. Answers(p) \subseteq 0..13
  BY <1>1, SettingsAre
<1>5. p # "SLS_DET_TYPE"
  OBVIOUS
<1> QED BY <1>2, <1>3, <1>4, <1>5, GainTable DEF Serves

LEMMA TablesAre ==
  /\ DOMAIN SlsDetEnums = 1..14 /\ Len(SlsDetEnums) = 14
  /\ SlsDetEnums[1] = [name |-> "SLS_GET_CHIP_POWER", enums |-> SlsOnOffEnums]
  /\ SlsDetEnums[2] = [name |-> "SLS_SET_CHIP_POWER", enums |-> SlsOnOffEnums]
  /\ SlsDetEnums[3] = [name |-> "SLS_GET_TEMP_CONTROL", enums |-> SlsOnOffEnums]
  /\ SlsDetEnums[4] = [name |-> "SLS_SET_TEMP_CONTROL", enums |-> SlsOnOffEnums]
  /\ SlsDetEnums[5] = [name |-> "SLS_DET_ENABLED", enums |-> SlsOnOffEnums]
  /\ SlsDetEnums[6] = [name |-> "SLS_GET_TEMP_EVENT", enums |-> SlsOkTrippedEnums]
  /\ SlsDetEnums[7] = [name |-> "SLS_SET_TEMP_EVENT", enums |-> SlsOkTrippedEnums]
  /\ SlsDetEnums[8] = [name |-> "SLS_CONN_STATUS", enums |-> SlsConnStatusEnums]
  /\ SlsDetEnums[9] = [name |-> "SLS_RUN_STATUS", enums |-> SlsRunStatusEnums]
  /\ SlsDetEnums[10] = [name |-> "SLS_DET_TYPE", enums |-> SlsDetTypesEnums]
  /\ SlsDetEnums[11] = [name |-> "SLS_GET_SPEED", enums |-> SlsClockDivEnums]
  /\ SlsDetEnums[12] = [name |-> "SLS_SET_SPEED", enums |-> SlsClockDivEnums]
  /\ SlsDetEnums[13] = [name |-> "SLS_GET_GAIN", enums |-> SlsGainEnums]
  /\ SlsDetEnums[14] = [name |-> "SLS_SET_GAIN", enums |-> SlsGainEnums]
BY DEF SlsDetEnums

LEMMA AllServe == \A k \in 1..14 : IsServed(k)
<1> SUFFICES ASSUME NEW k \in 1..14
             PROVE  IsServed(k)
  OBVIOUS
<1> DEFINE p == SlsDetEnums[k].name
           table == SlsDetEnums[k].enums
<1>1. CASE k \in 1..5
  <2>1. /\ p \in {"SLS_GET_CHIP_POWER", "SLS_SET_CHIP_POWER", "SLS_GET_TEMP_CONTROL",
                  "SLS_SET_TEMP_CONTROL", "SLS_DET_ENABLED"}
        /\ table = SlsOnOffEnums
    BY <1>1, TablesAre
  <2>2. "Off" # "On"
    OBVIOUS
  <2> HIDE DEF p, table
  <2>3. Serves(p, table, <<"Off", "On">>, 2)
    BY <2>1, <2>2, OnOffTable, TwoServe, Zenon
  <2> QED BY <2>3, Zenon DEF IsServed, p, table
<1>2. CASE k \in 6..7
  <2>1. p \in {"SLS_GET_TEMP_EVENT", "SLS_SET_TEMP_EVENT"} /\ table = SlsOkTrippedEnums
    BY <1>2, TablesAre
  <2>2. "Ok" # "Tripped"
    OBVIOUS
  <2> HIDE DEF p, table
  <2>3. Serves(p, table, <<"Ok", "Tripped">>, 2)
    BY <2>1, <2>2, OkTrippedTable, TwoServe, Zenon
  <2> QED BY <2>3, Zenon DEF IsServed, p, table
<1>3. CASE k = 8
  <2>1. p = "SLS_CONN_STATUS" /\ table = SlsConnStatusEnums
    BY <1>3, TablesAre
  <2>2. "Disconnected" # "Connected"
    OBVIOUS
  <2> HIDE DEF p, table
  <2>3. Serves(p, table, <<"Disconnected", "Connected">>, 2)
    BY <2>1, <2>2, ConnStatusTable, TwoServe, Zenon
  <2> QED BY <2>3, Zenon DEF IsServed, p, table
<1>4. CASE k = 9
  <2>1. p = "SLS_RUN_STATUS" /\ table = SlsRunStatusEnums
    BY <1>4, TablesAre
  <2> QED BY <2>1, StatusServes, Zenon DEF IsServed
<1>5. CASE k = 10
  <2>1. p = "SLS_DET_TYPE" /\ table = SlsDetTypesEnums
    BY <1>5, TablesAre
  <2> QED BY <2>1, TypeServes, Zenon DEF IsServed
<1>6. CASE k \in 11..12
  <2>1. p \in {"SLS_GET_SPEED", "SLS_SET_SPEED"} /\ table = SlsClockDivEnums
    BY <1>6, TablesAre
  <2> QED BY <2>1, SpeedServes, Zenon DEF IsServed
<1>7. CASE k \in 13..14
  <2>1. p \in {"SLS_GET_GAIN", "SLS_SET_GAIN"} /\ table = SlsGainEnums
    BY <1>7, TablesAre
  <2> QED BY <2>1, GainServes, Zenon DEF IsServed
<1> QED BY <1>1, <1>2, <1>3, <1>4, <1>5, <1>6, <1>7

\* What a record may hold: nothing yet, or a table of its parameter.
MenuOf(p, menu) ==
  menu = NoMenu \/ \E k \in 1..14 : SlsDetEnums[k].name = p /\ menu = SlsDetEnums[k].enums

\* updateEnums() is at a table of an address, and every record has nothing or a
\* whole table of its own.
MenusInv ==
  /\ step = Idle \/ \E a \in Addrs, n \in 1..14 : step = <<a, n>>
  /\ menus = [a \in Addrs |-> [p \in Watched |-> menus[a][p]]]
  /\ \A a \in Addrs, p \in Watched : MenuOf(p, menus[a][p])

\* The first n elements of a list, and a list of m elements.
FirstOf(s, n) == [i \in 1..n |-> s[i]]

HasLength(s, m) == s = FirstOf(s, m)

LEMMA PrefixIs ==
  ASSUME NEW s, NEW m \in Nat, HasLength(s, m), NEW k \in Nat, NEW n \in Nat, n = Shorter(m, k)
  PROVE  Prefix(s, k) = FirstOf(s, n)
<1> DEFINE S == {s[i] : i \in 1..m}
           t == SubSeq(s, 1, n)
<1>1. s \in Seq(S) /\ Len(s) = m
  BY DEF HasLength, FirstOf
<1> HIDE DEF S
<1>2. n \in 0..m
  BY DEF Shorter
<1>3. t \in Seq(S) /\ Len(t) = n /\ \A i \in 1..n : t[i] = s[i]
  <2>1. \A i \in 1..n : s[i] \in S
    BY <1>1, <1>2
  <2>2. /\ t \in Seq(S) /\ Len(t) = (IF 1 <= n THEN n - 1 + 1 ELSE 0)
        /\ \A i \in 1..(n - 1 + 1) : t[i] = s[1 + i - 1]
    BY <1>1, <1>2, <2>1, SubSeqProperties
  <2> QED BY <1>2, <2>2
<1>4. Prefix(s, k) = t
  BY <1>1, Zenon DEF Prefix
<1> HIDE DEF t
<1>5. t = [i \in 1..n |-> s[i]]
  <2>1. t = [i \in 1..Len(t) |-> t[i]]
    BY <1>3
  <2> QED BY <1>3, <2>1
<1> QED BY <1>4, <1>5, Zenon DEF FirstOf

\* strncpy keeps the entries of the tables, whose names fit.
LEMMA EntriesCopied ==
  ASSUME NEW k \in 1..14, NEW i \in 1..Len(SlsDetEnums[k].enums)
  PROVE  Copied(SlsDetEnums[k].enums[i]) = SlsDetEnums[k].enums[i]
<1> DEFINE table == SlsDetEnums[k].enums
<1>1. PICK names, n : TableHas(table, names, n)
  BY AllServe DEF IsServed, Serves
<1> HIDE DEF table
<1>2. Len(table) = n /\ DOMAIN table = 1..n
  BY <1>1 DEF TableHas
<1>3. i \in DOMAIN table
  BY <1>2 DEF table
<1>4. PICK s : table[i] = Entry(names[i], i - 1, s)
  BY <1>1, <1>2, <1>3 DEF TableHas
<1>5. Prefix(table[i].name, MAX_ENUM_STRING_SIZE) = table[i].name
  <2>1. k \in DOMAIN SlsDetEnums
    BY TablesAre
  <2> QED BY <1>3, <2>1, NamesFit, Zenon DEF table
<1>6. table[i].name = names[i]
  BY <1>4 DEF Entry
<1>7. Copied(table[i]) = [Entry(names[i], i - 1, s) EXCEPT !.name = names[i]]
  BY <1>4, <1>5, <1>6, Zenon DEF Copied
<1>8. @ = Entry(names[i], i - 1, s)
  BY DEF Entry
<1> QED BY <1>4, <1>7, <1>8, Zenon DEF table

\* The limits of both ways leave a table whole.
LEMMA TableWhole ==
  ASSUME NEW k \in 1..14
  PROVE  LET table == SlsDetEnums[k].enums
         IN  /\ Len(table) \in 1..SLS_MAX_ENUMS /\ Shorter(Len(table), SLS_MAX_ENUMS) = Len(table)
             /\ Shorter(Len(table), States(SlsDetEnums[k].name)) = Len(table)
             /\ table = [i \in 1..Len(table) |-> table[i]]
             /\ Prefix(table, States(SlsDetEnums[k].name)) = table
<1> DEFINE table == SlsDetEnums[k].enums
           p == SlsDetEnums[k].name
<1>1. PICK names, n : TableHas(table, names, n) /\ n <= States(p)
  BY AllServe DEF IsServed, Serves
<1>2. States(p) \in Nat
  BY DEF States
<1> HIDE DEF table, p
<1>3. Len(table) = n /\ n \in 1..16 /\ table = [i \in 1..n |-> table[i]]
  BY <1>1 DEF TableHas
<1>4. Shorter(n, 16) = n /\ Shorter(n, States(p)) = n
  BY <1>1, <1>2, <1>3 DEF Shorter
<1>5. Prefix(table, States(p)) = table
  <2>1. n \in Nat /\ HasLength(table, n)
    BY <1>3 DEF HasLength, FirstOf
  <2>2. Prefix(table, States(p)) = FirstOf(table, n)
    BY <1>2, <1>4, <2>1, PrefixIs, Zenon
  <2> QED BY <2>1, <2>2, Zenon DEF HasLength
<1> QED BY <1>3, <1>4, <1>5 DEF SLS_MAX_ENUMS, table, p

\* One turn of updateEnums(): the table goes to its record whole.
LEMMA PushedWhole ==
  ASSUME MenusInv, UpdateEnum
  PROVE  MenusInv'
<1>1. PICK a \in Addrs, k \in 1..14 : step = <<a, k>>
  BY Zenon DEF MenusInv, UpdateEnum
<1> DEFINE table == SlsDetEnums[k].enums
           p == SlsDetEnums[k].name
           count == Shorter(Len(table), SLS_MAX_ENUMS)
<1>2. Push(a, k, count)
  <2>1. step[1] = a /\ step[2] = k
    BY <1>1
  <2> QED BY <2>1, Zenon DEF UpdateEnum
<1>3. /\ Len(table) \in 1..16 /\ count = Len(table) /\ Shorter(Len(table), States(p)) = Len(table)
      /\ table = [i \in 1..Len(table) |-> table[i]]
  BY TableWhole DEF SLS_MAX_ENUMS
<1>4. \A i \in 1..Len(table) : Copied(table[i]) = table[i]
  BY EntriesCopied
<1>5. /\ scratch' = [i \in 1..16 |-> IF i <= Len(table) THEN Copied(table[i]) ELSE scratch[i]]
      /\ menus' = IF p \in Watched
                  THEN [menus EXCEPT ![a][p] = Prefix(scratch', Shorter(count, States(p)))]
                  ELSE menus
      /\ step' = IF k < 14 THEN <<a, k + 1>> ELSE Idle
  BY <1>2, TablesAre DEF Push, SLS_MAX_ENUMS
<1>6. p = SlsDetEnums[k].name /\ table = SlsDetEnums[k].enums
  OBVIOUS
<1> HIDE DEF table, p, count
<1>7. Prefix(scratch', Shorter(count, States(p))) = table
  <2> DEFINE n == Len(table)
  <2>1. n \in 1..16 /\ n \in Nat /\ n = Shorter(16, n) /\ 16 \in Nat
    <3>1. n \in 1..16
      BY <1>3
    <3> HIDE DEF n
    <3> QED BY <3>1 DEF Shorter
  <2>2. \A i \in 1..n : scratch'[i] = table[i]
    BY <1>3, <1>4, <1>5
  <2>3. scratch' = [i \in 1..16 |-> scratch'[i]]
    BY <1>5
  <2> HIDE DEF n
  <2> DEFINE buffer == scratch'
  <2>4. HasLength(buffer, 16) /\ \A i \in 1..n : buffer[i] = table[i]
    BY <2>2, <2>3 DEF HasLength, FirstOf
  <2> HIDE DEF buffer
  <2>5. Prefix(buffer, n) = FirstOf(buffer, n)
    BY <2>1, <2>4, PrefixIs, Zenon
  <2>6. FirstOf(buffer, n) = [i \in 1..n |-> table[i]]
    BY <2>4 DEF FirstOf
  <2>7. Shorter(count, States(p)) = n /\ table = [i \in 1..n |-> table[i]]
    BY <1>3 DEF n
  <2> QED BY <2>5, <2>6, <2>7, Zenon DEF buffer
<1>8. step' = Idle \/ \E b \in Addrs, n \in 1..14 : step' = <<b, n>>
  <2>1. k < 14 => k + 1 \in 1..14
    OBVIOUS
  <2> QED BY <1>5, <2>1, Zenon
<1>9. /\ menus' = [b \in Addrs |-> [q \in Watched |-> menus'[b][q]]]
      /\ \A b \in Addrs, q \in Watched :
           menus'[b][q] = menus[b][q] \/ (q = p /\ menus'[b][q] = table)
  <2>1. menus = [b \in Addrs |-> [q \in Watched |-> menus[b][q]]]
    BY DEF MenusInv
  <2>2. menus' = IF p \in Watched THEN [menus EXCEPT ![a][p] = table] ELSE menus
    BY <1>5, <1>7, Zenon
  <2> QED BY <2>1, <2>2
<1>10. ASSUME NEW b \in Addrs, NEW q \in Watched
       PROVE  MenuOf(q, menus'[b][q])
  <2>1. CASE menus'[b][q] = menus[b][q]
    BY <2>1, Zenon DEF MenusInv
  <2>2. CASE q = p /\ menus'[b][q] = table
    BY <1>6, <2>2, Zenon DEF MenuOf
  <2> QED BY <1>9, <2>1, <2>2
<1> QED BY <1>8, <1>9, <1>10 DEF MenusInv

\* readEnum(): the table a record asks for comes whole.
LEMMA ReadWhole ==
  ASSUME MenusInv, NEW a \in Addrs, NEW p \in Watched, ReadEnum(a, p)
  PROVE  MenusInv'
<1> DEFINE k == CHOOSE n \in DOMAIN SlsDetEnums : SlsDetEnums[n].name = p
<1>1. k \in 1..14 /\ SlsDetEnums[k].name = p
  <2>1. \E n \in DOMAIN SlsDetEnums : SlsDetEnums[n].name = p
    BY EnumsConstants
  <2>2. k \in DOMAIN SlsDetEnums /\ SlsDetEnums[k].name = p
    BY <2>1
  <2> QED BY <2>2, TablesAre
<1>2. Table(p) = SlsDetEnums[k].enums
  BY Zenon DEF Table
<1> HIDE DEF k
<1>3. Prefix(Table(p), States(p)) = Table(p)
  BY <1>1, <1>2, TableWhole
<1>4. menus' = [menus EXCEPT ![a][p] = Table(p)] /\ step' = step
  BY <1>3, Zenon DEF ReadEnum
<1>5. /\ menus' = [b \in Addrs |-> [q \in Watched |-> menus'[b][q]]]
      /\ \A b \in Addrs, q \in Watched :
           menus'[b][q] = menus[b][q] \/ (q = p /\ menus'[b][q] = Table(p))
  <2>1. menus = [b \in Addrs |-> [q \in Watched |-> menus[b][q]]]
    BY DEF MenusInv
  <2> QED BY <1>4, <2>1
<1>6. ASSUME NEW b \in Addrs, NEW q \in Watched
      PROVE  MenuOf(q, menus'[b][q])
  <2>1. CASE menus'[b][q] = menus[b][q]
    BY <2>1, Zenon DEF MenusInv
  <2>2. CASE q = p /\ menus'[b][q] = Table(p)
    BY <1>1, <1>2, <2>2, Zenon DEF MenuOf
  <2> QED BY <1>5, <2>1, <2>2
<1>7. step' = Idle \/ \E b \in Addrs, n \in 1..14 : step' = <<b, n>>
  BY <1>4, Zenon DEF MenusInv
<1> QED BY <1>5, <1>6, <1>7 DEF MenusInv

\* Every record that has a menu shows each answer of the module by one entry and
\* takes each choice for what it says, whichever of the two ways the menu came and
\* whatever the buffer held before (updateEnums, 355-371; readEnum, 732-787).
THEOREM MenusServed == EnumsSpec => []MenusServe
<1>1. EnumsInit => MenusInv
  <2> SUFFICES ASSUME EnumsInit
               PROVE  MenusInv
    OBVIOUS
  <2>1. menus = [a \in Addrs |-> [p \in Watched |-> NoMenu]] /\ step = Idle
    BY DEF EnumsInit
  <2>2. \A a \in Addrs, p \in Watched : menus[a][p] = NoMenu
    BY <2>1
  <2> QED BY <2>1, <2>2 DEF MenusInv, MenuOf
<1>2. MenusInv /\ [EnumsNext]_enumsVars => MenusInv'
  <2> SUFFICES ASSUME MenusInv, [EnumsNext]_enumsVars
               PROVE  MenusInv'
    OBVIOUS
  <2>1. ASSUME NEW a \in Addrs, UpdateBegin(a)
        PROVE  MenusInv'
    <3>1. step' = <<a, 1>> /\ menus' = menus
      BY <2>1 DEF UpdateBegin
    <3>2. \E b \in Addrs, n \in 1..14 : step' = <<b, n>>
      BY <3>1
    <3> QED BY <3>1, <3>2, Zenon DEF MenusInv
  <2>2. CASE UpdateEnum
    BY <2>2, PushedWhole
  <2>3. ASSUME NEW a \in Addrs, NEW p \in Watched, ReadEnum(a, p)
        PROVE  MenusInv'
    BY <2>3, ReadWhole
  <2>4. CASE UNCHANGED enumsVars
    BY <2>4, Zenon DEF MenusInv, enumsVars
  <2> QED BY <2>1, <2>2, <2>3, <2>4, Zenon DEF EnumsNext
<1>3. MenusInv => MenusServe
  <2> SUFFICES ASSUME MenusInv, NEW a \in Addrs, NEW p \in Watched
               PROVE  /\ menus[a][p] # NoMenu =>
                           \A v \in Answers(p) :
                             \E i \in DOMAIN menus[a][p] :
                               /\ menus[a][p][i].value = v
                               /\ \A j \in DOMAIN menus[a][p] \ {i} : menus[a][p][j].value # v
                      /\ p # "SLS_DET_TYPE" =>
                           \A i, j \in DOMAIN menus[a][p] :
                             menus[a][p][i].name = menus[a][p][j].name => i = j
    BY DEF MenusServe, AnswersAreShown, ChoiceIsMeant
  <2> DEFINE menu == menus[a][p]
  <2>1. CASE menu = NoMenu
    BY <2>1 DEF NoMenu
  <2>2. ASSUME NEW k \in 1..14, SlsDetEnums[k].name = p, menu = SlsDetEnums[k].enums
        PROVE  /\ \A v \in Answers(p) :
                    \E i \in DOMAIN menu :
                      menu[i].value = v /\ \A j \in DOMAIN menu \ {i} : menu[j].value # v
               /\ p # "SLS_DET_TYPE" =>
                    \A i, j \in DOMAIN menu : menu[i].name = menu[j].name => i = j
    <3> HIDE DEF menu
    <3>1. PICK names, n : Serves(p, menu, names, n)
      BY <2>2, AllServe, Zenon DEF IsServed
    <3>2. n \in 1..16 /\ DOMAIN menu = 1..n /\ Answers(p) \subseteq 0..(n - 1)
      BY <3>1 DEF Serves, TableHas
    <3>3. \A i \in 1..n : menu[i].name = names[i] /\ menu[i].value = i - 1
      BY <3>1 DEF Serves, TableHas, Entry
    <3>4. \A v \in Answers(p) : v + 1 \in 1..n /\ menu[v + 1].value = v
      BY <3>2, <3>3
    <3>5. p # "SLS_DET_TYPE" => \A i, j \in 1..n : names[i] = names[j] => i = j
      BY <3>1, Zenon DEF Serves
    <3>6. ASSUME NEW v \in Answers(p)
          PROVE  \E i \in DOMAIN menu :
                   menu[i].value = v /\ \A j \in DOMAIN menu \ {i} : menu[j].value # v
      BY <3>2, <3>3, <3>4
    <3> QED BY <3>2, <3>3, <3>5, <3>6
  <2>3. MenuOf(p, menu)
    BY Zenon DEF MenusInv
  <2> QED BY <2>1, <2>2, <2>3, Zenon DEF MenuOf
<1> QED BY <1>1, <1>2, <1>3, PTL DEF EnumsSpec
=============================================================================
