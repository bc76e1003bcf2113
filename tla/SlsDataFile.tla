------------------------------ MODULE SlsDataFile ------------------------------
(***************************************************************************)
(* The data files in text form: fileIOStatic writes a line per channel and *)
(* reads the lines back, by doubles, ints or short ints, while the file    *)
(* may still be written.                                                   *)
(*                                                                         *)
(* A line is the sequence of its numbers: the channel or its angle, the    *)
(* value, perhaps the error.  A number is its value, in tenths, and        *)
(* whether it is written with an exponent: a stream shows six significant  *)
(* digits of a double, and from a million on an exponent.  Every line ends *)
(* in std::endl, which flushes it, so a reader finds whole lines; a file   *)
(* is small enough for a reader to get it in one read.                     *)
(***************************************************************************)
EXTENDS Integers, Sequences, SequencesExt

CONSTANTS
  Doubles,      \* values of a channel, in tenths
  Ints,         \* values of a channel that are whole, in tenths
  Angles,       \* the angle of each channel, in tenths
  MaxChannels,  \* bound: channels of a file
  MaxFiles      \* bound: files written, one over the other

\* Bound: a hundred million, in tenths, for a double that is written.
Largest == 1000000000

ASSUME DataFileConstants ==
  /\ Doubles \subseteq -Largest..Largest
  /\ \A v \in Ints : v \in Int /\ v % 10 = 0
  /\ Angles \in Seq(-Largest..Largest) /\ MaxChannels \in 0..Len(Angles)
  /\ MaxFiles \in Nat

VARIABLES
  lines,    \* the file: its lines, or NoFile
  writing,  \* what is being or was last written, and how far
  result,   \* of the last writer: "OK", "FAIL" or none yet
  read,     \* the channels the last reader got of the file as it is, or NoRead
  reader,   \* how it was called
  files     \* files written so far

dataVars == <<lines, writing, result, read, reader, files>>

NoFile == <<<<>>>>
NoRead == <<<<>>>>
ShortMax == 32767

Smaller(a, b) == IF a <= b THEN a ELSE b

Magnitude(v) == IF v >= 0 THEN v ELSE -v
WithSign(v, a) == IF v >= 0 THEN a ELSE -a

\* (int)v
Truncated(v) == WithSign(v, (Magnitude(v) \div 10) * 10)

-----------------------------------------------------------------------------
(* Numbers as text *)

\* The least number of six digits; a million, in tenths.
LeastOfSix == 100000
Million == 100 * LeastOfSix

Units == {1, 10, 100, 1000, 10000}

\* The unit of the sixth significant digit, or a tenth.
Unit(a) ==
  CHOOSE u \in Units : a \div u < 10 * LeastOfSix /\ (u = 1 \/ a \div u >= LeastOfSix)

\* To a multiple of u, ties to an even one.
Nearest(a, u) ==
  LET n == a \div u
  IN  IF 2 * (a % u) > u \/ (2 * (a % u) = u /\ n % 2 = 1) THEN (n + 1) * u ELSE n * u

\* What is left of a double in six significant digits.
SixDigits(v) == WithSign(v, Nearest(Magnitude(v), Unit(Magnitude(v))))

\* outfile << an int, a double
OfInt(v) == [v |-> v, exp |-> FALSE]
OfDouble(v) == [v |-> SixDigits(v), exp |-> Magnitude(SixDigits(v)) >= Million]

\* The unit of the digits an int reader stops after: those before the point, the
\* first of a number with an exponent.
Stop(n) == IF n.exp THEN LeastOfSix * Unit(Magnitude(n.v)) ELSE 10

\* What >> of an int takes of a number, and the digits it leaves, whose sign is
\* taken with the rest.
WholePart(n) == WithSign(n.v, (Magnitude(n.v) \div Stop(n)) * 10)
Remainder(n) == Magnitude(n.v) % Stop(n)

-----------------------------------------------------------------------------
(* The writers *)

\* A file of doubles in one of the formats, with errors and angles or without.
DoubleFiles ==
  [kind : {"double"}, data : BoundedSeq(Doubles, MaxChannels), format : {"f", "i"},
   err : BOOLEAN, ang : BOOLEAN, offset : {0, 1}]

\* A short int.
Fits(v) == v <= ShortMax * 10 /\ v >= -(ShortMax + 1) * 10

\* A file of ints or of short ints: two numbers in a line.
IntFiles ==
  {w \in [kind : {"int", "short"}, data : BoundedSeq(Ints, MaxChannels), format : {"i"},
          err : {FALSE}, ang : {FALSE}, offset : {0, 1}] :
     w.kind = "short" => \A c \in DOMAIN w.data : Fits(w.data[c])}

\* The error of a channel, its value doubled here.
Error(w, c) == 2 * w.data[c]

\* case 'f' shows the double, 'i' and any other what (int) leaves of it.
Shown(w, c) == IF w.format = "f" THEN OfDouble(w.data[c]) ELSE OfInt(Truncated(w.data[c]))

\* Fault: lines are numbered from 0, whatever the first channel.
LineUnshifted(w, c) ==
  <<IF w.ang THEN OfDouble(Angles[c]) ELSE OfInt((c - 1) * 10), Shown(w, c)>>
    \o IF w.err THEN <<OfDouble(Error(w, c))>> ELSE <<>>

\* The line of channel c: c is 1 for ichan = 0.
Line(w, c) ==
  <<IF w.ang THEN OfDouble(Angles[c]) ELSE OfInt((c - 1 + w.offset) * 10), Shown(w, c)>>
    \o IF w.err THEN <<OfDouble(Error(w, c))>> ELSE <<>>

DataInit ==
  /\ lines = NoFile
  /\ writing = [file |-> [kind |-> "none"], done |-> 0, open |-> FALSE]
  /\ result = "none"
  /\ read = NoRead
  /\ reader = [kind |-> "none"]
  /\ files = 0

\* What was read is of no use any more.
NothingRead == read' = NoRead /\ reader' = [kind |-> "none"]

\* outfile.open truncates the file, which may be that of before.
Open ==
  /\ ~writing.open
  /\ files < MaxFiles
  /\ \E w \in DoubleFiles \cup IntFiles :
       writing' = [file |-> w, done |-> 0, open |-> TRUE]
  /\ lines' = <<>>
  /\ files' = files + 1
  /\ result' = "none"
  /\ NothingRead

\* The loop over the channels: one line, flushed.
WriteLine ==
  /\ writing.open
  /\ writing.done < Len(writing.file.data)
  /\ lines' = Append(lines, Line(writing.file, writing.done + 1))
  /\ writing' = [writing EXCEPT !.done = @ + 1]
  /\ NothingRead
  /\ UNCHANGED <<result, files>>

\* The result of the loop is not looked at: a file without channels is OK.
Close ==
  /\ writing.open
  /\ writing.done = Len(writing.file.data)
  /\ writing' = [writing EXCEPT !.open = FALSE]
  /\ result' = "OK"
  /\ NothingRead
  /\ UNCHANGED <<lines, files>>

\* data is NULL, or the file cannot be opened.
WriteFails ==
  /\ ~writing.open
  /\ result' = "FAIL"
  /\ UNCHANGED <<lines, writing, read, reader, files>>

-----------------------------------------------------------------------------
(* The readers *)

\* The numbers that can be read of a line after >> of an int: all that follow, what
\* is left of the first (a point and digits) before them, or none, when nothing
\* but its exponent is left.
AfterInt(line) ==
  IF Remainder(line[1]) # 0 THEN <<OfInt(Remainder(line[1]))>> \o Tail(line)
  ELSE IF line[1].exp THEN <<>> ELSE Tail(line)

Got(st, c, nch) == [got |-> Append(st.got, c), stop |-> Len(st.got) + 1 >= nch]
Stopped(st) == [st EXCEPT !.stop = TRUE]

\* Fault: a line of a channel before the first one counts.
DoubleLineSkipping(o, st, line) ==
  LET rest == IF o.ang THEN Tail(line) ELSE AfterInt(line)
  IN  IF st.stop \/ rest = <<>> \/ (o.err /\ Len(rest) < 2) \/ o.nch = 0 THEN Stopped(st)
      ELSE Got(st, [ang |-> IF o.ang THEN line[1].v ELSE 0, v |-> rest[1].v,
                    err |-> IF o.err THEN rest[2].v ELSE 0], o.nch)

\* One turn of the loop over a file of doubles; o says how it was called.
DoubleLine(o, st, line) ==
  LET rest == IF o.ang THEN Tail(line) ELSE AfterInt(line)
  IN  IF st.stop \/ rest = <<>> THEN Stopped(st)
      ELSE IF ~o.ang /\ WholePart(line[1]) < o.offset * 10 THEN st
      ELSE IF (o.err /\ Len(rest) < 2) \/ o.nch = 0 THEN Stopped(st)
      ELSE Got(st, [ang |-> IF o.ang THEN line[1].v ELSE 0, v |-> rest[1].v,
                    err |-> IF o.err THEN rest[2].v ELSE 0], o.nch)

\* Fault: the room in the array is looked at one channel too late.
IntLineOver(o, st, line) ==
  LET rest == AfterInt(line)
      v == WholePart(rest[1])
  IN  IF st.stop \/ rest = <<>> \/ Remainder(line[1]) # 0 \/ Len(st.got) > o.nch
      THEN Stopped(st)
      ELSE IF WholePart(line[1]) < o.offset * 10 THEN st
      ELSE [st EXCEPT !.got = Append(@, [ang |-> 0, v |-> v, err |-> 0])]

\* One turn of the loops over ints and short ints: a number that does not start
\* with a digit or a sign, or does not fit, ends the loop.
IntLine(o, st, line) ==
  LET rest == AfterInt(line)
      v == WholePart(rest[1])
  IN  IF st.stop \/ rest = <<>> \/ Remainder(line[1]) # 0
           \/ (o.kind = "short" /\ ~Fits(v))
           \/ Len(st.got) >= o.nch
      THEN Stopped(st)
      ELSE IF WholePart(line[1]) < o.offset * 10 THEN st
      ELSE [st EXCEPT !.got = Append(@, [ang |-> 0, v |-> v, err |-> 0])]

\* The channels a reader gets; that of short ints returns from within its loop
\* after the first line.
Channels(o, all) ==
  LET last == IF o.kind = "short" /\ all # <<>> THEN 1 ELSE Len(all)
      st[n \in 0..last] ==
        IF n = 0 THEN [got |-> <<>>, stop |-> FALSE]
        ELSE IF o.kind = "double" THEN DoubleLine(o, st[n - 1], all[n])
        ELSE IntLine(o, st[n - 1], all[n])
  IN  st[last].got

DoubleReaders ==
  [kind : {"double"}, nch : 0..MaxChannels, err : BOOLEAN, ang : BOOLEAN, offset : {0, 1, 2}]
IntReaders ==
  [kind : {"int", "short"}, nch : 0..MaxChannels, err : {FALSE}, ang : {FALSE}, offset : {0, 1, 2}]

\* Bound: one reader of a file as it is, before the next; none changes what
\* another finds.
ReadLines ==
  /\ lines # NoFile
  /\ reader.kind = "none"
  /\ \E o \in DoubleReaders \cup IntReaders :
       reader' = o /\ read' = Channels(o, lines)
  /\ UNCHANGED <<lines, writing, result, files>>

\* "Could not read file": the result is -1 and the arrays are left alone.
ReadFails ==
  /\ NothingRead
  /\ UNCHANGED <<lines, writing, result, files>>

DataNext == Open \/ WriteLine \/ Close \/ WriteFails \/ ReadLines \/ ReadFails

DataSpec == DataInit /\ [][DataNext]_dataVars

-----------------------------------------------------------------------------
(* Properties *)

\* The last reader read the file that is being written or was written last, the
\* way it was written: with angles or without.
ReadAsWritten(kind) ==
  /\ reader.kind = kind
  /\ writing.file.kind # "none"
  /\ reader.ang = writing.file.ang

\* The channels of the file a reader asks for: from its first channel on.
Asked ==
  LET first == IF reader.ang \/ reader.offset <= writing.file.offset THEN 0
               ELSE reader.offset - writing.file.offset
      length == Smaller(reader.nch, Len(writing.file.data) - first)
  IN  [c \in 1..(IF length > 0 THEN length ELSE 0) |-> c + first]

\* A double that was written as v and read as a: v itself when it has up to six
\* digits, and within half a unit of the sixth when it has more.
SameToSixDigits(a, v) ==
  IF Magnitude(v) < 10 * LeastOfSix THEN a = v
  ELSE Magnitude(a - v) <= Magnitude(v) \div (2 * LeastOfSix)

\* What a reader of doubles may make of channel c.
DoubleOf(got, o, w, c) ==
  /\ IF o.ang THEN SameToSixDigits(got.ang, Angles[c]) ELSE got.ang = 0
  /\ IF w.format = "f" THEN SameToSixDigits(got.v, w.data[c]) ELSE got.v = Truncated(w.data[c])
  /\ IF o.err THEN SameToSixDigits(got.err, Error(w, c)) ELSE got.err = 0

\* What a reader of ints may make of it: the whole part of a double of up to six
\* digits, below a million the nearest whole number, and from there on nothing
\* but the first digit.
IntOf(got, w, c) ==
  LET a == Magnitude(w.data[c])
  IN  IF w.format # "f" \/ a < 10 * LeastOfSix THEN got.v = Truncated(w.data[c])
      ELSE IF a < Million - 5 THEN got.v % 10 = 0 /\ Magnitude(got.v - w.data[c]) <= 5
      ELSE Magnitude(got.v) \in {10 * digit : digit \in 1..9}

\* A reader gets, in their order, the channels it asks for, and of a file that is
\* still written the first of them.
GetsAsked(IsChannel(_, _)) ==
  /\ Len(read') <= Len(Asked')
  /\ \A j \in DOMAIN read' : IsChannel(read'[j], Asked'[j])
  /\ ~writing.open => Len(read') = Len(Asked')

\* A reader of doubles gets the channels with their angles and errors, to six
\* digits; and none when it wants errors and the file has none
\* (fileIOStatic.h:390-422, 561-615).
DoublesAreReadBack ==
  [][reader' # reader /\ ReadAsWritten("double")' =>
       LET IsChannel(got, c) == DoubleOf(got, reader', writing.file, c)
       IN  IF reader'.err /\ ~writing.file.err THEN read' = <<>>
           ELSE GetsAsked(IsChannel)]_dataVars

\* A reader of ints gets the channels it asks for from a file of doubles as
\* well, without their fractions and errors, and of numbers with an exponent
\* nothing but a digit (fileIOStatic.h:650-675).
IntsAreReadBack ==
  [][reader' # reader /\ ReadAsWritten("int")' =>
       LET IsChannel(got, c) == IntOf(got, writing.file, c)
       IN  GetsAsked(IsChannel)]_dataVars

\* Every channel that is read is the one that was written, by doubles and by
\* ints: from the first channel asked for, in order, no more than there is room
\* for, all of them once the file is whole, and with the digits the text has.
DataIsReadBack == DoublesAreReadBack /\ IntsAreReadBack
=============================================================================
