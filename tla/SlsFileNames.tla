------------------------------ MODULE SlsFileNames ------------------------------
(***************************************************************************)
(* The names of the data files: how fileIOStatic composes them from the    *)
(* variables of an acquisition and how it reads the variables back out of  *)
(* a name.                                                                 *)
(*                                                                         *)
(* A name is the sequence of its segments between '_'.  Of a segment the   *)
(* readers see only a leading letter and the number after it: a segment is *)
(* a tag ("" for none, "x" for a text no format matches) and <<number>>,   *)
(* or <<>> when no number follows.  Scan variables are in tenths.          *)
(***************************************************************************)
EXTENDS Integers, Sequences, SequencesExt

CONSTANTS
  Roots,       \* path and root name, as segments
  Pointed,     \* the roots with a '.' somewhere in their text
  Scans,       \* the values of a scan variable, in tenths
  Precisions,  \* digits after the point: 0 or 1
  Junk,        \* what an uninitialised int or double may hold
  MaxIndex     \* bound: file, frame, detector and position indexes

\* What the first character of a segment can be to a reader.
Tags == {"", "x", "S", "s", "p", "d", "f"}

ASSUME FileNamesConstants ==
  /\ \A root \in Roots :
       /\ root \in Seq([tag : Tags, num : Seq(Int)]) /\ root # <<>>
       /\ \A j \in DOMAIN root : Len(root[j].num) <= 1
  /\ Pointed \subseteq Roots
  /\ Scans \subseteq Int
  /\ Precisions \subseteq {0, 1}
  /\ Junk \subseteq Int /\ Junk # {}
  /\ MaxIndex \in Nat

VARIABLES
  file,    \* the file being written: what its name is composed of
  seen,    \* the variables the caller passes to the readers by reference
  fresh    \* seen was read from the name of this file

nameVars == <<file, seen, fresh>>

Variables == {"index", "f", "p", "sv0", "sv1", "det"}

Segment(tag, n) == [tag |-> tag, num |-> <<n>>]

\* The segment is in the name only if the condition holds.
Optional(condition, tag, n) == IF condition THEN <<Segment(tag, n)>> ELSE <<>>

\* std::fixed with setprecision(0) rounds to the nearest whole, ties to even.
Rounded(v) ==
  LET whole == (v \div 10) * 10
      rest == v % 10
  IN  IF rest > 5 \/ (rest = 5 /\ (whole \div 10) % 2 = 1) THEN whole + 10 ELSE whole

Printed(v, prec) == IF prec = 0 THEN Rounded(v) ELSE v

\* What both composers put after the root: the scans and the position.
Position(m) ==
  Optional(m.scan0, "S", Printed(m.sv0, m.prec))
    \o Optional(m.scan1, "s", Printed(m.sv1, m.prec))
    \o Optional(m.pindex > 0 /\ m.pindex <= m.npos, "p", m.pindex)

\* Faults: frame 0 is taken for no frame; the detector comes after the frame.
FileNameZeroLost(m) ==
  m.root \o Position(m) \o Optional(m.detindex >= 0, "d", m.detindex)
    \o Optional(m.frameindex > 0, "f", m.frameindex) \o <<Segment("", m.findex)>>
FileNameSwapped(m) ==
  m.root \o Position(m) \o Optional(m.frameindex >= 0, "f", m.frameindex)
    \o Optional(m.detindex >= 0, "d", m.detindex) \o <<Segment("", m.findex)>>

\* createFileName
FileName(m) ==
  m.root \o Position(m) \o Optional(m.detindex >= 0, "d", m.detindex)
    \o Optional(m.frameindex >= 0, "f", m.frameindex) \o <<Segment("", m.findex)>>

\* createReceiverFilePrefix
ReceiverFilePrefix(m) ==
  m.root \o Position(m) \o Optional(m.detindex # -1, "d", m.detindex)

\* The name has a '.' before any extension: in the root, or in a scan variable
\* that is printed with digits after the point.
HasPoint(m) == m.root \in Pointed \/ (m.prec > 0 /\ (m.scan0 \/ m.scan1))

-----------------------------------------------------------------------------
(* The readers *)

\* sscanf(s, "<tag>%d") is not 0: a number was read, or the text ended before
\* one and the result is EOF, which is true as well.
Matches(segment, tag) == segment.tag = tag \/ segment = [tag |-> "", num |-> <<>>]

\* s = fname.substr(0, uscore), or all of fname when s had no '_'.
Cut(fname, n) == IF n = 1 THEN Len(fname) ELSE n - 1

\* One sscanf: st.n is the number of segments of fname in s, st.i and st.x the
\* locals i and f, which keep their value when there was no number to read.
Scanned(fname, st, format) ==
  LET segment == fname[st.n]
      local == IF format[1] \in {"s", "S"} THEN "x" ELSE "i"
      v == IF segment.num # <<>> THEN segment.num[1] ELSE st[local]
  IN  IF Matches(segment, format[1])
      THEN [st EXCEPT !.n = Cut(fname, st.n), ![local] = v,
                      !.out = IF format[2] \in Variables
                              THEN [st.out EXCEPT ![format[2]] = v] ELSE st.out]
      ELSE st

\* The out parameters the readers set to -1 before they look at the name; the
\* frame index and the detector index are not among them.
Reset(old) == [old EXCEPT !.index = -1, !.p = -1, !.sv0 = -1, !.sv1 = -1]

Scan(fname, out, junk, formats) ==
  LET st[k \in 0..Len(formats)] ==
        IF k = 0 THEN [n |-> Len(fname), i |-> junk, x |-> junk, out |-> out]
        ELSE Scanned(fname, st[k - 1], formats[k])
  IN  st[Len(formats)]

\* Fault: the file index is looked for after the frame.
FormatsLate ==
  <<<<"f", "f">>, <<"", "index">>, <<"d", "det">>, <<"p", "p">>, <<"s", "sv1">>, <<"S", "sv0">>>>

\* The formats in the order they are tried, and the variable of each.
Formats ==
  <<<<"", "index">>, <<"f", "f">>, <<"d", "det">>, <<"p", "p">>, <<"s", "sv1">>, <<"S", "sv0">>>>

\* getVariablesFromFileName with seven arguments; a name without '_' only
\* resets.  Its result is the index.
VariablesFromFileName(fname, old, junk) ==
  IF Len(fname) = 1 THEN Reset(old) ELSE Scan(fname, Reset(old), junk, Formats).out

\* The one with five arguments skips the frame and the detector.
FiveFormats ==
  <<<<"", "index">>, <<"f", "">>, <<"d", "">>, <<"p", "p">>, <<"s", "sv1">>, <<"S", "sv0">>>>

FiveVariablesFromFileName(fname, old, junk) ==
  IF Len(fname) = 1 THEN Reset(old) ELSE Scan(fname, Reset(old), junk, FiveFormats).out

\* getVariablesFromFileName of the object fileIO hands the static reader its index
\* for the frame index and its frame index for the index.
Exchanged(out) == [out EXCEPT !.index = out.f, !.f = out.index]

ObjectVariablesFromFileName(fname, old, junk) ==
  Exchanged(VariablesFromFileName(fname, Exchanged(old), junk))

\* getFileIndexFromFileName looks for the last '.', which is that of the extension
\* or one in the name: before the last '_', the length up to it wraps around and
\* takes in the rest of the name.
FileIndexFromFileName(m, extension) ==
  LET fname == FileName(m)
  IN  IF ~(extension \/ HasPoint(m)) \/ Len(fname) = 1 THEN -1
      ELSE IF Matches(Last(fname), "") THEN Last(fname).num[1] ELSE 0

\* getIndicesFromFileName: the frame index, 0 if there is none.
FrameIndexFromFileName(fname, junk) ==
  LET st == Scan(fname, [index |-> junk], junk, <<<<"", "index">>>>)
      segment == fname[st.n]
      i == IF segment.num # <<>> THEN segment.num[1] ELSE st.i
  IN  IF Len(fname) = 1 THEN -1
      ELSE IF Matches(segment, "f") /\ i # -1 THEN i ELSE 0

Unset == [v \in Variables |-> -1]

Frame(out) == [v \in Variables \ {"det"} |-> out[v]]

\* Fault: the detector index has to be the same too.
VerifySameFrameAndModule(fname, out, junk) == VariablesFromFileName(fname, Unset, junk) = out

\* verifySameFrame: all but the detector index as in the name.
VerifySameFrame(fname, out, junk) ==
  Frame(VariablesFromFileName(fname, Unset, junk)) = Frame(out)

\* Fault: the detector index stays in the name.
NameFromReceiverFilePrefixLong(fname) ==
  SubSeq(fname, 1, Scan(fname, Unset, 0, <<<<"p", "">>, <<"s", "">>, <<"S", "">>>>).n)

\* getNameFromReceiverFilePrefix
NameFromReceiverFilePrefix(fname) ==
  SubSeq(fname, 1, Scan(fname, Unset, 0, <<<<"d", "">>, <<"p", "">>, <<"s", "">>, <<"S", "">>>>).n)

-----------------------------------------------------------------------------
(* An acquisition that names its files and a reader of the names *)

NamesInit ==
  /\ file \in [root : Roots, scan0 : BOOLEAN, sv0 : Scans, scan1 : BOOLEAN, sv1 : Scans,
               prec : Precisions, pindex : {0}, npos : {MaxIndex - 1, MaxIndex},
               findex : {0}, frameindex : {-1, 0}, detindex : {-1, 0}]
  \* The value of a scan that is off does not matter.
  /\ file.scan0 \/ \A v \in Scans : file.sv0 <= v
  /\ file.scan1 \/ \A v \in Scans : file.sv1 <= v
  /\ seen = Unset
  /\ fresh = FALSE

Write(m) == file' = m /\ fresh' = FALSE /\ UNCHANGED seen

NextFrame ==
  file.frameindex < MaxIndex /\ Write([file EXCEPT !.frameindex = @ + 1])
NextDetector ==
  file.detindex < MaxIndex /\ Write([file EXCEPT !.detindex = @ + 1])
NextPosition ==
  file.pindex < MaxIndex /\ Write([file EXCEPT !.pindex = @ + 1])
NextFileIndex ==
  file.findex < MaxIndex /\ Write([file EXCEPT !.findex = @ + 1, !.frameindex = -1])

ReadVariables ==
  /\ \E junk \in Junk : seen' = VariablesFromFileName(FileName(file), seen, junk)
  /\ fresh' = TRUE
  /\ UNCHANGED file

Written == NextFrame \/ NextDetector \/ NextPosition \/ NextFileIndex

NamesNext == Written \/ ReadVariables

NamesSpec == NamesInit /\ [][NamesNext]_nameVars

-----------------------------------------------------------------------------
(* Properties *)

\* A root no reader takes a part of for a variable.
Plain(root) == Last(root).tag = "x"

Positioned == file.pindex > 0 /\ file.pindex <= file.npos

\* Unless the root ends in what looks like a variable, the readers return
\* every variable the name was composed of, whatever the caller's variables
\* held before, and -1 for a position or a scan the name does not have.
VariablesAreOfTheFile ==
  fresh /\ Plain(file.root) =>
    /\ seen.index = file.findex
    /\ file.frameindex >= 0 => seen.f = file.frameindex
    /\ file.detindex >= 0 => seen.det = file.detindex
    /\ seen.p = IF Positioned THEN file.pindex ELSE -1
    /\ seen.sv0 = IF file.scan0 THEN Printed(file.sv0, file.prec) ELSE -1
    /\ seen.sv1 = IF file.scan1 THEN Printed(file.sv1, file.prec) ELSE -1

\* A frame or a detector that the name does not have is what the caller passed:
\* the readers leave those two alone, and reset the others.
MissingAreLeft ==
  Plain(file.root) =>
    \A junk \in Junk :
      LET again == VariablesFromFileName(FileName(file), seen, junk)
      IN  /\ file.frameindex < 0 => again.f = seen.f
          /\ file.detindex < 0 => again.det = seen.det

\* Whatever the root, the readers find the same file index in a name: those with
\* seven and with five arguments always, the one for the file index alone only
\* in a name that has a point somewhere, and -1 in one that has none.  The
\* reader of the object returns it as the frame index, and the frame index as
\* the index (fileIO.h:84).
ReadersAgree ==
  fresh =>
    LET name == FileName(file)
    IN  /\ seen.index = file.findex
        /\ \A extension \in BOOLEAN :
             FileIndexFromFileName(file, extension)
               = IF extension \/ HasPoint(file) THEN seen.index ELSE -1
        /\ \A junk \in Junk :
             /\ FiveVariablesFromFileName(name, Unset, junk).index = seen.index
             /\ ObjectVariablesFromFileName(name, seen, junk).f = seen.index
             /\ file.frameindex >= 0 =>
                  /\ FrameIndexFromFileName(name, junk) = seen.f
                  /\ ObjectVariablesFromFileName(name, seen, junk).index = seen.f

\* No file of an acquisition overwrites another: whatever the root, two of its
\* files that differ in the detector, the frame or the file index differ in name.
FilesAreKeptApart ==
  \A d, f \in -1..MaxIndex, i \in 0..MaxIndex :
    LET other == [file EXCEPT !.detindex = d, !.frameindex = f, !.findex = i]
    IN  FileName(other) = FileName(file) => other = file

\* A root without a segment that is empty or a letter without its number: such
\* a segment is given the number the reader read before.
Clear(root) ==
  \A j \in DOMAIN root : root[j].tag \in {"", "p", "s", "S"} => root[j].num # <<>>

\* The files the modules write for one frame are recognised as that frame, and
\* those of another frame or file index are not, for any clear root; one that
\* ends in what looks like a detector must be followed by one.
FramesAreAssembled ==
  fresh /\ file.frameindex >= 0 /\ Clear(file.root)
    /\ (Last(file.root).tag = "d" => file.detindex >= 0) =>
    \A d, f, i \in 0..MaxIndex, junk \in Junk :
      LET other == [file EXCEPT !.detindex = d, !.frameindex = f, !.findex = i]
      IN  VerifySameFrame(FileName(other), seen, junk)
            = (f = file.frameindex /\ i = file.findex)

\* A receiver's prefix gives its root back.
RootIsReadBack ==
  Plain(file.root) => NameFromReceiverFilePrefix(ReceiverFilePrefix(file)) = file.root

\* A name says what it was composed of to each of its readers, the way each of
\* them tells it: the variables and what is left of the caller's, the file and
\* the frame index, and the root of a receiver's prefix.
NamesAreReadBack ==
  VariablesAreOfTheFile /\ MissingAreLeft /\ ReadersAgree /\ RootIsReadBack

\* The files of an acquisition are kept apart, and those of one frame are put
\* together.
FramesAreKept == FilesAreKeptApart /\ FramesAreAssembled
=============================================================================
