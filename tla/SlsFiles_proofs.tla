----------------------------- MODULE SlsFiles_proofs -----------------------------
(***************************************************************************)
(* What the names of the data files and the data files themselves keep for *)
(* their readers, for any roots, scans, indexes, values and whatever the   *)
(* readers find in uninitialised variables.                                *)
(*                                                                         *)
(* A reader is a loop: over the formats of a name, over the lines of a     *)
(* file.  Each loop is one function; its turns are found by induction over *)
(* the natural numbers, and the name is taken apart from its end, one      *)
(* segment per format, as the composers put it together.                   *)
(***************************************************************************)
EXTENDS SlsFileNames, SlsDataFile, NaturalsInduction, WellFoundedInduction,
        SequenceTheorems, TLAPS

-----------------------------------------------------------------------------
(* The loops of the readers: each is one function, found by induction          *)

\* Induction over the natural numbers, for a set of them.
LEMMA SetInduction ==
  ASSUME NEW T, 0 \in T, \A n \in Nat : n \in T => n + 1 \in T
  PROVE  \A n \in Nat : n \in T
<1> DEFINE U == Nat \ T
           R == OpToRel(<, Nat)
<1> SUFFICES ASSUME U # {} PROVE FALSE
  OBVIOUS
<1>1. IsWellFoundedOn(R, Nat)
  BY NatLessThanWellFounded, Zenon
<1>2. \A m, n \in Nat : m < n => <<m, n>> \in R
  BY Zenon DEF OpToRel
<1>3. U \subseteq Nat /\ U # {}
  OBVIOUS
<1> HIDE DEF R, U
<1>4. PICK n \in U : \A m \in U : ~(<<m, n>> \in R)
  BY <1>1, <1>3, WFMin
<1> USE DEF U
<1>5. n - 1 \in Nat /\ n - 1 \in U
  BY <1>4
<1>6. n \in Nat /\ n - 1 < n
  BY <1>4
<1>7. <<n - 1, n>> \in R
  BY <1>2, <1>5, <1>6, Zenon
<1> QED BY <1>4, <1>5, <1>7, Zenon

\* The formats are tried one after the other.
Start(fname, out, junk) == [n |-> Len(fname), i |-> junk, x |-> junk, out |-> out]

Turn(fname, out, junk, formats, g, k) ==
  IF k = 0 THEN Start(fname, out, junk) ELSE Scanned(fname, g[k - 1], formats[k])

ScanTurns(fname, out, junk, formats, g) ==
  g = [k \in 0..Len(formats) |-> Turn(fname, out, junk, formats, g, k)]

LEMMA ScanIsOne ==
  ASSUME NEW fname, NEW out, NEW junk, NEW formats
  PROVE  Scan(fname, out, junk, formats)
           = (CHOOSE g : ScanTurns(fname, out, junk, formats, g))[Len(formats)]
BY Zenon DEF Scan, ScanTurns, Turn, Start

\* What Scan returns is where a sequence of states ends, each of which follows
\* the one before by one format.
ScanStates(fname, out, junk, formats, g) ==
  /\ g[0] = Start(fname, out, junk)
  /\ \A k \in 1..Len(formats) : g[k] = Scanned(fname, g[k - 1], formats[k])
  /\ Scan(fname, out, junk, formats) = g[Len(formats)]

LEMMA ScanUnfolds ==
  ASSUME NEW fname, NEW out, NEW junk, NEW formats, Len(formats) \in Nat
  PROVE  \E g : ScanStates(fname, out, junk, formats, g)
<1> DEFINE N == Len(formats)
           Solves(g, m) == \A k \in 0..m : g[k] = Turn(fname, out, junk, formats, g, k)
           T == {m \in Nat : \E g : Solves(g, m)}
<1> HIDE DEF N
<1>1. 0 \in T
  <2>1. Solves([k \in {0} |-> Start(fname, out, junk)], 0)
    BY DEF Turn
  <2> QED BY <2>1
<1>2. ASSUME NEW m \in Nat, m \in T PROVE m + 1 \in T
  <2>1. PICK g : Solves(g, m)
    BY <1>2
  <2> DEFINE last == Scanned(fname, g[m], formats[m + 1])
             h == [k \in 0..(m + 1) |-> IF k = m + 1 THEN last ELSE g[k]]
  <2> HIDE DEF last
  <2>2. \A k \in 0..m : h[k] = g[k]
    OBVIOUS
  <2>3. h[m + 1] = last
    OBVIOUS
  <2> HIDE DEF h
  <2>4. ASSUME NEW k \in 0..m PROVE h[k] = Turn(fname, out, junk, formats, h, k)
    <3>1. CASE k = 0
      BY <2>1, <2>2, <3>1 DEF Turn
    <3>2. CASE k # 0
      <4>1. k - 1 \in 0..m
        BY <3>2
      <4>2. h[k - 1] = g[k - 1] /\ h[k] = g[k]
        BY <2>2, <4>1
      <4> QED BY <2>1, <3>2, <4>2 DEF Turn
    <3> QED BY <3>1, <3>2
  <2>5. h[m + 1] = Turn(fname, out, junk, formats, h, m + 1)
    <3>1. m + 1 # 0 /\ (m + 1) - 1 = m /\ m \in 0..m
      OBVIOUS
    <3>2. h[m] = g[m]
      BY <2>2, <3>1
    <3> QED BY <2>3, <3>1, <3>2 DEF Turn, last
  <2>6. \A k \in 0..(m + 1) : k \in 0..m \/ k = m + 1
    OBVIOUS
  <2>7. Solves(h, m + 1)
    BY <2>4, <2>5, <2>6
  <2> QED BY <2>7
<1>3. PICK g : Solves(g, N)
  <2> HIDE DEF T
  <2>1. \A n \in Nat : n \in T
    BY <1>1, <1>2, SetInduction
  <2> QED BY <2>1 DEF T, N
<1> DEFINE h == [k \in 0..N |-> g[k]]
<1>4. ASSUME NEW k \in 0..N PROVE Turn(fname, out, junk, formats, h, k) = g[k]
  <2>1. k = 0 \/ k - 1 \in 0..N
    BY DEF N
  <2> QED BY <1>3, <2>1 DEF Turn
<1>5. h = [k \in 0..N |-> Turn(fname, out, junk, formats, h, k)]
  BY <1>4
<1>6. \E f : ScanTurns(fname, out, junk, formats, f)
  BY <1>5 DEF ScanTurns, N
<1>7. PICK f : /\ ScanTurns(fname, out, junk, formats, f)
               /\ Scan(fname, out, junk, formats) = f[Len(formats)]
  BY <1>6, ScanIsOne, Zenon
<1>8. \A k \in 0..Len(formats) : f[k] = Turn(fname, out, junk, formats, f, k)
  BY <1>7 DEF ScanTurns
<1>9. 0 \in 0..Len(formats) /\ \A k \in 1..Len(formats) : k \in 0..Len(formats) /\ k # 0
  OBVIOUS
<1> QED BY <1>7, <1>8, <1>9 DEF Turn, ScanStates

-----------------------------------------------------------------------------
(* One format                                                                  *)

Segs == [tag : Tags, num : Seq(Int)]

\* A state of a reader that has so many segments left and these results.
Left(st, m, out) == st = [n |-> m, i |-> st.i, x |-> st.x, out |-> out]

\* What a reader returns of a number it finds.
Put(out, v, val) == IF v \in Variables THEN [out EXCEPT ![v] = val] ELSE out

LEMMA LeftHas == ASSUME NEW st, NEW m, NEW out, Left(st, m, out) PROVE st.n = m /\ st.out = out
BY DEF Left

Taken(c, out, v, val) == IF c THEN Put(out, v, val) ELSE out

\* The name begins with these segments.
Begins(name, q) == name \in Seq(Segs) /\ Len(q) <= Len(name) /\ \A j \in 1..Len(q) : name[j] = q[j]

LEMMA LenPositive ==
  ASSUME NEW S, NEW q \in Seq(S), q # <<>>
  PROVE  Len(q) \in Nat /\ Len(q) >= 1 /\ Len(q) - 1 \in Nat /\ 1 \in 1..Len(q) /\ Len(q) \in 1..Len(q)
<1>1. Len(q) \in Nat \ {0}
  BY EmptySeq
<1> QED BY <1>1

LEMMA BeginsSelf == ASSUME NEW q \in Seq(Segs) PROVE Begins(q, q)
<1>1. Len(q) \in Nat
  BY LenProperties
<1> QED BY <1>1 DEF Begins

LEMMA OptionalIs ==
  ASSUME NEW c, NEW t, NEW v
  PROVE  /\ c => Optional(c, t, v) = <<Segment(t, v)>>
         /\ ~c => Optional(c, t, v) = <<>>
BY Zenon DEF Optional

LEMMA SegmentIn == ASSUME NEW t \in Tags, NEW v \in Int PROVE Segment(t, v) \in Segs
BY DEF Segment, Segs

LEMMA OptionalIsSeq ==
  ASSUME NEW c, NEW t \in Tags, NEW v \in Int
  PROVE  Optional(c, t, v) \in Seq(Segs)
<1>1. Segment(t, v) \in Segs
  BY SegmentIn
<1>2. <<Segment(t, v)>> \in Seq(Segs) /\ <<>> \in Seq(Segs)
  BY <1>1
<1> QED BY <1>2, Zenon DEF Optional

\* A sequence and one element more.
IsLonger(w, q, e) ==
  Len(w) = Len(q) + 1 /\ w[Len(q) + 1] = e /\ \A j \in 1..Len(q) : w[j] = q[j]

LEMMA OneMore ==
  ASSUME NEW S, NEW q \in Seq(S), NEW e \in S
  PROVE  /\ q \o <<e>> \in Seq(S) /\ q \o <<e>> # <<>>
         /\ Last(q \o <<e>>) = e
         /\ IsLonger(q \o <<e>>, q, e)
<1>1. <<e>> \in Seq(S) /\ Len(<<e>>) = 1 /\ <<e>>[1] = e
  OBVIOUS
<1>2. /\ q \o <<e>> \in Seq(S)
      /\ Len(q \o <<e>>) = Len(q) + 1
      /\ \A j \in 1..(Len(q) + 1) :
           (q \o <<e>>)[j] = IF j <= Len(q) THEN q[j] ELSE <<e>>[j - Len(q)]
  BY <1>1, ConcatProperties
<1>3. Len(q) \in Nat
  BY LenProperties
<1> DEFINE w == q \o <<e>>
<1> HIDE DEF w
<1>4. Len(w) = Len(q) + 1 /\ w[Len(q) + 1] = e /\ \A j \in 1..Len(q) : w[j] = q[j]
  BY <1>1, <1>2, <1>3 DEF w
<1>5. Last(w) = e /\ w # <<>>
  BY <1>3, <1>4 DEF Last
<1> QED BY <1>2, <1>4, <1>5 DEF w, IsLonger

LEMMA AppendedOptional ==
  ASSUME NEW q \in Seq(Segs), q # <<>>, NEW c, NEW t \in Tags, NEW v \in Int,
         NEW w, w = q \o Optional(c, t, v)
  PROVE  /\ w \in Seq(Segs) /\ w # <<>>
         /\ Last(w) \in {Segment(t, v), Last(q)}
         /\ c => Last(w) = Segment(t, v) /\ IsLonger(w, q, Segment(t, v))
         /\ ~c => w = q
<1>1. CASE c
  <2> DEFINE e == Segment(t, v)
  <2>1. w = q \o <<e>>
    BY <1>1, OptionalIs, Zenon
  <2>2. e \in Segs
    BY SegmentIn
  <2> HIDE DEF e
  <2>3. /\ w \in Seq(Segs) /\ w # <<>> /\ Last(w) = e
        /\ IsLonger(w, q, e)
    BY <2>1, <2>2, OneMore
  <2> QED BY <1>1, <2>3, Zenon DEF e
<1>2. CASE ~c
  <2>1. Optional(c, t, v) = <<>>
    BY <1>2, OptionalIs, Zenon
  <2>2. q \o <<>> = q
    BY ConcatEmptySeq
  <2> QED BY <1>2, <2>1, <2>2, Zenon
<1> QED BY <1>1, <1>2

LEMMA AppendedIsSeq ==
  ASSUME NEW q \in Seq(Segs), q # <<>>, NEW c, NEW t \in Tags, NEW v \in Int
  PROVE  q \o Optional(c, t, v) \in Seq(Segs) /\ q \o Optional(c, t, v) # <<>>
<1> DEFINE e == Segment(t, v)
<1>1. e \in Segs
  BY SegmentIn
<1> HIDE DEF e
<1>2. CASE c
  <2>1. q \o <<e>> \in Seq(Segs) /\ q \o <<e>> # <<>>
    BY <1>1, OneMore
  <2> QED BY <1>2, <2>1, OptionalIs, Zenon DEF e
<1>3. CASE ~c
  <2>1. q \o <<>> = q
    BY ConcatEmptySeq
  <2>2. q \o <<>> \in Seq(Segs) /\ q \o <<>> # <<>>
    BY <2>1, Zenon
  <2> QED BY <1>3, <2>2, OptionalIs, Zenon
<1> QED BY <1>2, <1>3

LEMMA ScannedMiss ==
  ASSUME NEW fname, NEW st, NEW format, ~Matches(fname[st.n], format[1])
  PROVE  Scanned(fname, st, format) = st
BY DEF Scanned

LEMMA ScannedHit ==
  ASSUME NEW fname, NEW st, NEW k, NEW out, Left(st, k, out), NEW format, NEW val,
         Matches(fname[k], format[1]), fname[k].num # <<>>, fname[k].num[1] = val
  PROVE  Left(Scanned(fname, st, format), Cut(fname, k), Put(out, format[2], val))
<1> DEFINE more == Put(out, format[2], val)
           next == Scanned(fname, st, format)
           m == Cut(fname, k)
<1>1. st.n = k /\ st.out = out
  BY DEF Left
<1>2. next = [st EXCEPT !.n = m, ![IF format[1] \in {"s", "S"} THEN "x" ELSE "i"] = val,
                        !.out = more]
  BY <1>1 DEF Scanned, Put
<1> HIDE DEF next, m, more
<1>3. CASE format[1] \in {"s", "S"}
  <2>1. next = [[n |-> k, i |-> st.i, x |-> st.x, out |-> out]
                  EXCEPT !.n = m, !.x = val, !.out = more]
    BY <1>2, <1>3 DEF Left
  <2>2. next = [n |-> m, i |-> st.i, x |-> val, out |-> more]
    BY <2>1
  <2> QED BY <2>2 DEF next, m, more, Left
<1>4. CASE format[1] \notin {"s", "S"}
  <2>1. next = [[n |-> k, i |-> st.i, x |-> st.x, out |-> out]
                  EXCEPT !.n = m, !.i = val, !.out = more]
    BY <1>2, <1>4 DEF Left
  <2>2. next = [n |-> m, i |-> val, x |-> st.x, out |-> more]
    BY <2>1
  <2> QED BY <2>2 DEF next, m, more, Left
<1> QED BY <1>3, <1>4

\* A segment that is there, at the end of what is left of the name.
LEMMA PresentScanned ==
  ASSUME NEW fname, NEW q \in Seq(Segs), q # <<>>,
         NEW w, NEW val, NEW format, IsLonger(w, q, Segment(format[1], val)),
         Begins(fname, w), NEW st, NEW out, Left(st, Len(w), out)
  PROVE  /\ Left(Scanned(fname, st, format), Len(q), Put(out, format[2], val))
         /\ Begins(fname, q)
<1>2. Len(q) \in Nat /\ Len(q) >= 1
  BY LenPositive
<1>4. fname \in Seq(Segs) /\ Len(w) <= Len(fname) /\ \A j \in 1..Len(w) : fname[j] = w[j]
  BY DEF Begins
<1>5. Len(fname) \in Nat
  BY <1>4, LenProperties
<1>6. Begins(fname, q)
  BY <1>2, <1>4, <1>5 DEF Begins, IsLonger
<1>7. fname[Len(w)] = Segment(format[1], val) /\ Len(w) # 1 /\ Len(w) - 1 = Len(q)
  BY <1>2, <1>4 DEF IsLonger
<1>8. /\ Matches(fname[Len(w)], format[1])
      /\ fname[Len(w)].num # <<>> /\ fname[Len(w)].num[1] = val
  BY <1>7 DEF Matches, Segment
<1>9. Cut(fname, Len(w)) = Len(q)
  BY <1>7 DEF Cut
<1>a. Left(Scanned(fname, st, format), Cut(fname, Len(w)), Put(out, format[2], val))
  BY <1>8, ScannedHit
<1> QED BY <1>6, <1>9, <1>a, Zenon

\* A format another than that of the last segment left.
LEMMA AbsentScanned ==
  ASSUME NEW fname, NEW q \in Seq(Segs), q # <<>>, NEW format,
         Last(q).tag # format[1], Last(q).tag # "",
         Begins(fname, q), NEW st, NEW out, Left(st, Len(q), out)
  PROVE  Scanned(fname, st, format) = st
<1>1. Len(q) \in 1..Len(q)
  BY LenPositive
<1>2. fname[st.n] = Last(q)
  <2>1. fname[Len(q)] = q[Len(q)]
    BY <1>1 DEF Begins
  <2>2. st.n = Len(q)
    BY LeftHas, Zenon
  <2> QED BY <2>1, <2>2 DEF Last
<1>3. ~Matches(fname[st.n], format[1])
  <2>1. [tag |-> "", num |-> <<>>].tag = ""
    OBVIOUS
  <2> QED BY <1>2, <2>1, Zenon DEF Matches
<1> QED BY <1>3, ScannedMiss

\* Where a segment may have been put, its format takes it, and leaves what was
\* before it alone.
LEMMA OptionalScanned ==
  ASSUME NEW fname, NEW q \in Seq(Segs), q # <<>>,
         NEW c, NEW t \in Tags, NEW val \in Int, NEW format, format[1] = t,
         NEW w, w = q \o Optional(c, t, val), Begins(fname, w),
         ~c => (Last(q).tag # t /\ Last(q).tag # ""),
         NEW st, NEW out, Left(st, Len(w), out)
  PROVE  Begins(fname, q) /\ Left(Scanned(fname, st, format), Len(q), Taken(c, out, format[2], val))
<1> USE DEF Taken
<1>1. CASE c
  <2>1. IsLonger(w, q, Segment(t, val))
    BY <1>1, AppendedOptional, Zenon
  <2>2. IsLonger(w, q, Segment(format[1], val))
    BY <2>1
  <2>3. /\ Begins(fname, q)
        /\ Left(Scanned(fname, st, format), Len(q), Put(out, format[2], val))
    BY <2>2, PresentScanned
  <2> QED BY <1>1, <2>3, Zenon
<1>2. CASE ~c
  <2>1. w = q
    <3>1. Optional(c, t, val) = <<>>
      BY <1>2, OptionalIs, Zenon
    <3>2. q \o <<>> = q
      BY ConcatEmptySeq
    <3> QED BY <3>1, <3>2, Zenon
  <2>2. Begins(fname, q) /\ Left(st, Len(q), out) /\ Last(q).tag # format[1] /\ Last(q).tag # ""
    BY <1>2, <2>1, Zenon
  <2>3. Scanned(fname, st, format) = st
    BY <2>2, AbsentScanned
  <2> QED BY <1>2, <2>2, <2>3, Zenon
<1> QED BY <1>1, <1>2

-----------------------------------------------------------------------------
(* A name, put together one segment after the other                            *)

FileType ==
  [root : Roots, scan0 : BOOLEAN, sv0 : Scans, scan1 : BOOLEAN, sv1 : Scans, prec : Precisions,
   pindex : 0..MaxIndex, npos : {MaxIndex - 1, MaxIndex}, findex : 0..MaxIndex,
   frameindex : -1..MaxIndex, detindex : -1..MaxIndex]

IsPositioned(m) == m.pindex > 0 /\ m.pindex <= m.npos

UpToScan0(m) == m.root \o Optional(m.scan0, "S", Printed(m.sv0, m.prec))
UpToScan1(m) == UpToScan0(m) \o Optional(m.scan1, "s", Printed(m.sv1, m.prec))
UpToPosition(m) == UpToScan1(m) \o Optional(IsPositioned(m), "p", m.pindex)
UpToDetector(m) == UpToPosition(m) \o Optional(m.detindex >= 0, "d", m.detindex)
UpToFrame(m) == UpToDetector(m) \o Optional(m.frameindex >= 0, "f", m.frameindex)

LEMMA PrintedIsInt ==
  ASSUME NEW v \in Int, NEW prec PROVE Printed(v, prec) \in Int
BY DEF Printed, Rounded

LEMMA FileFields ==
  ASSUME NEW m \in FileType
  PROVE  /\ m.root \in Seq(Segs) /\ m.root # <<>>
         /\ Printed(m.sv0, m.prec) \in Int /\ Printed(m.sv1, m.prec) \in Int
         /\ m.pindex \in Nat /\ m.findex \in Nat /\ m.pindex \in Int /\ m.findex \in Int
         /\ m.frameindex \in Int /\ m.frameindex >= -1
         /\ m.detindex \in Int /\ m.detindex >= -1
<1>1. m.sv0 \in Int /\ m.sv1 \in Int
  BY FileNamesConstants DEF FileType
<1>2. Printed(m.sv0, m.prec) \in Int /\ Printed(m.sv1, m.prec) \in Int
  BY <1>1, PrintedIsInt
<1>3. m.root \in Seq(Segs) /\ m.root # <<>>
  BY FileNamesConstants DEF FileType, Segs
<1>4. /\ m.pindex \in 0..MaxIndex /\ m.findex \in 0..MaxIndex
      /\ m.frameindex \in -1..MaxIndex /\ m.detindex \in -1..MaxIndex
  BY DEF FileType
<1>5. MaxIndex \in Nat
  BY FileNamesConstants
<1> QED BY <1>2, <1>3, <1>4, <1>5

LEMMA NameParts ==
  ASSUME NEW m \in FileType
  PROVE  /\ UpToScan0(m) \in Seq(Segs) /\ UpToScan0(m) # <<>>
         /\ UpToScan1(m) \in Seq(Segs) /\ UpToScan1(m) # <<>>
         /\ UpToPosition(m) \in Seq(Segs) /\ UpToPosition(m) # <<>>
         /\ UpToDetector(m) \in Seq(Segs) /\ UpToDetector(m) # <<>>
         /\ UpToFrame(m) \in Seq(Segs) /\ UpToFrame(m) # <<>>
<1>1. UpToScan0(m) \in Seq(Segs) /\ UpToScan0(m) # <<>>
  <2> DEFINE c == m.scan0
             val == Printed(m.sv0, m.prec)
  <2>1. UpToScan0(m) = m.root \o Optional(c, "S", val)
    BY Zenon DEF UpToScan0
  <2>2. "S" \in Tags /\ val \in Int
    BY FileFields DEF Tags
  <2> HIDE DEF c, val
  <2>3. m.root \in Seq(Segs) /\ m.root # <<>>
    BY FileFields
  <2> QED BY <2>1, <2>2, <2>3, AppendedIsSeq, Zenon
<1>2. UpToScan1(m) \in Seq(Segs) /\ UpToScan1(m) # <<>>
  <2> DEFINE c == m.scan1
             val == Printed(m.sv1, m.prec)
  <2>1. UpToScan1(m) = UpToScan0(m) \o Optional(c, "s", val)
    BY Zenon DEF UpToScan1
  <2>2. "s" \in Tags /\ val \in Int
    BY FileFields DEF Tags
  <2> HIDE DEF c, val
  <2>3. UpToScan0(m) \in Seq(Segs) /\ UpToScan0(m) # <<>>
    BY <1>1
  <2> QED BY <2>1, <2>2, <2>3, AppendedIsSeq, Zenon
<1>3. UpToPosition(m) \in Seq(Segs) /\ UpToPosition(m) # <<>>
  <2> DEFINE c == IsPositioned(m)
             val == m.pindex
  <2>1. UpToPosition(m) = UpToScan1(m) \o Optional(c, "p", val)
    BY Zenon DEF UpToPosition
  <2>2. "p" \in Tags /\ val \in Int
    BY FileFields DEF Tags
  <2> HIDE DEF c, val
  <2>3. UpToScan1(m) \in Seq(Segs) /\ UpToScan1(m) # <<>>
    BY <1>2
  <2> QED BY <2>1, <2>2, <2>3, AppendedIsSeq, Zenon
<1>4. UpToDetector(m) \in Seq(Segs) /\ UpToDetector(m) # <<>>
  <2> DEFINE c == m.detindex >= 0
             val == m.detindex
  <2>1. UpToDetector(m) = UpToPosition(m) \o Optional(c, "d", val)
    BY Zenon DEF UpToDetector
  <2>2. "d" \in Tags /\ val \in Int
    BY FileFields DEF Tags
  <2> HIDE DEF c, val
  <2>3. UpToPosition(m) \in Seq(Segs) /\ UpToPosition(m) # <<>>
    BY <1>3
  <2> QED BY <2>1, <2>2, <2>3, AppendedIsSeq, Zenon
<1>5. UpToFrame(m) \in Seq(Segs) /\ UpToFrame(m) # <<>>
  <2> DEFINE c == m.frameindex >= 0
             val == m.frameindex
  <2>1. UpToFrame(m) = UpToDetector(m) \o Optional(c, "f", val)
    BY Zenon DEF UpToFrame
  <2>2. "f" \in Tags /\ val \in Int
    BY FileFields DEF Tags
  <2> HIDE DEF c, val
  <2>3. UpToDetector(m) \in Seq(Segs) /\ UpToDetector(m) # <<>>
    BY <1>4
  <2> QED BY <2>1, <2>2, <2>3, AppendedIsSeq, Zenon
<1> QED BY <1>1, <1>2, <1>3, <1>4, <1>5

\* The composers put the parts together in this order.
LEMMA NameIsParts ==
  ASSUME NEW m \in FileType
  PROVE  /\ FileName(m) = UpToFrame(m) \o <<Segment("", m.findex)>>
         /\ ReceiverFilePrefix(m) = UpToDetector(m)
<1> DEFINE a == Optional(m.scan0, "S", Printed(m.sv0, m.prec))
           b == Optional(m.scan1, "s", Printed(m.sv1, m.prec))
           p == Optional(IsPositioned(m), "p", m.pindex)
<1>1. a \in Seq(Segs)
  BY FileFields, OptionalIsSeq DEF Tags
<1>2. b \in Seq(Segs)
  BY FileFields, OptionalIsSeq DEF Tags
<1>3. p \in Seq(Segs)
  <2> DEFINE c == IsPositioned(m)
  <2>1. p = Optional(c, "p", m.pindex) /\ "p" \in Tags /\ m.pindex \in Int
    BY FileFields DEF Tags
  <2> HIDE DEF c
  <2> QED BY <2>1, OptionalIsSeq, Zenon
<1>4. m.root \in Seq(Segs)
  BY FileFields
<1> DEFINE r == m.root
<1>5. Position(m) = (a \o b) \o p
  BY Zenon DEF Position, IsPositioned
<1>6. UpToPosition(m) = ((r \o a) \o b) \o p
  BY Zenon DEF UpToPosition, UpToScan1, UpToScan0
<1> HIDE DEF a, b, p, r
<1>7. r \o ((a \o b) \o p) = ((r \o a) \o b) \o p
  <2>1. r \in Seq(Segs)
    BY <1>4 DEF r
  <2>2. a \o b \in Seq(Segs) /\ r \o a \in Seq(Segs)
    BY <1>1, <1>2, <2>1, ConcatProperties
  <2>3. r \o ((a \o b) \o p) = (r \o (a \o b)) \o p
    BY <1>3, <2>1, <2>2, ConcatAssociative
  <2>4. r \o (a \o b) = (r \o a) \o b
    BY <1>1, <1>2, <2>1, ConcatAssociative
  <2> QED BY <2>3, <2>4
<1>8. m.root \o Position(m) = UpToPosition(m)
  BY <1>5, <1>6, <1>7, Zenon DEF r
<1>9. FileName(m) = UpToFrame(m) \o <<Segment("", m.findex)>>
  BY <1>8, Zenon DEF FileName, UpToFrame, UpToDetector
<1>10. (m.detindex # -1) = (m.detindex >= 0)
  BY FileFields
<1>11. ReceiverFilePrefix(m) = UpToDetector(m)
  BY <1>8, <1>10, Zenon DEF ReceiverFilePrefix, UpToDetector
<1> QED BY <1>9, <1>11

-----------------------------------------------------------------------------
(* The formats, each at its part of a name                                     *)

LEMMA IndexRead ==
  ASSUME NEW m \in FileType, NEW format, format[1] = "",
         NEW st, NEW out, Left(st, Len(FileName(m)), out)
  PROVE  /\ Begins(FileName(m), UpToFrame(m))
         /\ Left(Scanned(FileName(m), st, format), Len(UpToFrame(m)),
                 Put(out, format[2], m.findex))
<1> DEFINE q == UpToFrame(m)
           w == FileName(m)
           e == Segment("", m.findex)
           next == Scanned(w, st, format)
<1>1. w = q \o <<e>>
  BY NameIsParts
<1>2. q \in Seq(Segs) /\ q # <<>>
  BY NameParts
<1>3. e \in Segs
  <2>1. "" \in Tags
    BY DEF Tags
  <2>2. m.findex \in Int
    BY FileFields
  <2> QED BY <2>1, <2>2, SegmentIn, Zenon
<1>4. Left(st, Len(w), out) /\ e = Segment(format[1], m.findex)
  OBVIOUS
<1> HIDE DEF q, w, e
<1>5. w \in Seq(Segs) /\ IsLonger(w, q, e)
  BY <1>1, <1>2, <1>3, OneMore
<1>7. Begins(w, w)
  BY <1>5, BeginsSelf
<1>8. IsLonger(w, q, Segment(format[1], m.findex))
  BY <1>4, <1>5
<1>9. Begins(w, q) /\ Left(next, Len(q), Put(out, format[2], m.findex))
  BY <1>2, <1>4, <1>7, <1>8, PresentScanned
<1> QED BY <1>9 DEF q, w

LEMMA FrameRead ==
  ASSUME NEW m \in FileType, NEW fname, NEW format, format[1] = "f",
         Begins(fname, UpToFrame(m)), NEW st, NEW out, Left(st, Len(UpToFrame(m)), out),
         m.frameindex >= 0 \/ (Last(UpToDetector(m)).tag # "f" /\ Last(UpToDetector(m)).tag # "")
  PROVE  /\ Begins(fname, UpToDetector(m))
         /\ Left(Scanned(fname, st, format), Len(UpToDetector(m)),
                 Taken(m.frameindex >= 0, out, format[2], m.frameindex))
<1> DEFINE c == m.frameindex >= 0
           val == m.frameindex
           q == UpToDetector(m)
           w == UpToFrame(m)
           t == "f"
           next == Scanned(fname, st, format)
<1>1. w = q \o Optional(c, t, val)
  BY Zenon DEF UpToFrame
<1>2. q \in Seq(Segs) /\ q # <<>>
  BY FileFields, NameParts
<1>3. t \in Tags /\ val \in Int
  <2>1. t \in Tags
    BY DEF Tags
  <2>2. val \in Int
    BY FileFields, Zenon
  <2> QED BY <2>1, <2>2
<1>4. ~c => (Last(q).tag # t /\ Last(q).tag # "")
  OBVIOUS
<1>5. Begins(fname, w) /\ Left(st, Len(w), out) /\ format[1] = t
  OBVIOUS
<1> HIDE DEF c, val, q, w, t
<1>6. Begins(fname, q) /\ Left(next, Len(q), Taken(c, out, format[2], val))
  BY <1>1, <1>2, <1>3, <1>4, <1>5, OptionalScanned, Zenon
<1> QED BY <1>6, Zenon DEF c, val, q

LEMMA DetectorRead ==
  ASSUME NEW m \in FileType, NEW fname, NEW format, format[1] = "d",
         Begins(fname, UpToDetector(m)), NEW st, NEW out, Left(st, Len(UpToDetector(m)), out),
         m.detindex >= 0 \/ (Last(UpToPosition(m)).tag # "d" /\ Last(UpToPosition(m)).tag # "")
  PROVE  /\ Begins(fname, UpToPosition(m))
         /\ Left(Scanned(fname, st, format), Len(UpToPosition(m)),
                 Taken(m.detindex >= 0, out, format[2], m.detindex))
<1> DEFINE c == m.detindex >= 0
           val == m.detindex
           q == UpToPosition(m)
           w == UpToDetector(m)
           t == "d"
           next == Scanned(fname, st, format)
<1>1. w = q \o Optional(c, t, val)
  BY Zenon DEF UpToDetector
<1>2. q \in Seq(Segs) /\ q # <<>>
  BY FileFields, NameParts
<1>3. t \in Tags /\ val \in Int
  <2>1. t \in Tags
    BY DEF Tags
  <2>2. val \in Int
    BY FileFields, Zenon
  <2> QED BY <2>1, <2>2
<1>4. ~c => (Last(q).tag # t /\ Last(q).tag # "")
  OBVIOUS
<1>5. Begins(fname, w) /\ Left(st, Len(w), out) /\ format[1] = t
  OBVIOUS
<1> HIDE DEF c, val, q, w, t
<1>6. Begins(fname, q) /\ Left(next, Len(q), Taken(c, out, format[2], val))
  BY <1>1, <1>2, <1>3, <1>4, <1>5, OptionalScanned, Zenon
<1> QED BY <1>6, Zenon DEF c, val, q

LEMMA PositionRead ==
  ASSUME NEW m \in FileType, NEW fname, NEW format, format[1] = "p",
         Begins(fname, UpToPosition(m)), NEW st, NEW out, Left(st, Len(UpToPosition(m)), out),
         IsPositioned(m) \/ (Last(UpToScan1(m)).tag # "p" /\ Last(UpToScan1(m)).tag # "")
  PROVE  /\ Begins(fname, UpToScan1(m))
         /\ Left(Scanned(fname, st, format), Len(UpToScan1(m)),
                 Taken(IsPositioned(m), out, format[2], m.pindex))
<1> DEFINE c == IsPositioned(m)
           val == m.pindex
           q == UpToScan1(m)
           w == UpToPosition(m)
           t == "p"
           next == Scanned(fname, st, format)
<1>1. w = q \o Optional(c, t, val)
  BY Zenon DEF UpToPosition
<1>2. q \in Seq(Segs) /\ q # <<>>
  BY FileFields, NameParts
<1>3. t \in Tags /\ val \in Int
  <2>1. t \in Tags
    BY DEF Tags
  <2>2. val \in Int
    BY FileFields, Zenon
  <2> QED BY <2>1, <2>2
<1>4. ~c => (Last(q).tag # t /\ Last(q).tag # "")
  OBVIOUS
<1>5. Begins(fname, w) /\ Left(st, Len(w), out) /\ format[1] = t
  OBVIOUS
<1> HIDE DEF c, val, q, w, t
<1>6. Begins(fname, q) /\ Left(next, Len(q), Taken(c, out, format[2], val))
  BY <1>1, <1>2, <1>3, <1>4, <1>5, OptionalScanned, Zenon
<1> QED BY <1>6, Zenon DEF c, val, q

LEMMA Scan1Read ==
  ASSUME NEW m \in FileType, NEW fname, NEW format, format[1] = "s",
         Begins(fname, UpToScan1(m)), NEW st, NEW out, Left(st, Len(UpToScan1(m)), out),
         m.scan1 \/ (Last(UpToScan0(m)).tag # "s" /\ Last(UpToScan0(m)).tag # "")
  PROVE  /\ Begins(fname, UpToScan0(m))
         /\ Left(Scanned(fname, st, format), Len(UpToScan0(m)),
                 Taken(m.scan1, out, format[2], Printed(m.sv1, m.prec)))
<1> DEFINE c == m.scan1
           val == Printed(m.sv1, m.prec)
           q == UpToScan0(m)
           w == UpToScan1(m)
           t == "s"
           next == Scanned(fname, st, format)
<1>1. w = q \o Optional(c, t, val)
  BY Zenon DEF UpToScan1
<1>2. q \in Seq(Segs) /\ q # <<>>
  BY FileFields, NameParts
<1>3. t \in Tags /\ val \in Int
  <2>1. t \in Tags
    BY DEF Tags
  <2>2. val \in Int
    BY FileFields, Zenon
  <2> QED BY <2>1, <2>2
<1>4. ~c => (Last(q).tag # t /\ Last(q).tag # "")
  OBVIOUS
<1>5. Begins(fname, w) /\ Left(st, Len(w), out) /\ format[1] = t
  OBVIOUS
<1> HIDE DEF c, val, q, w, t
<1>6. Begins(fname, q) /\ Left(next, Len(q), Taken(c, out, format[2], val))
  BY <1>1, <1>2, <1>3, <1>4, <1>5, OptionalScanned, Zenon
<1> QED BY <1>6, Zenon DEF c, val, q

LEMMA Scan0Read ==
  ASSUME NEW m \in FileType, NEW fname, NEW format, format[1] = "S",
         Begins(fname, UpToScan0(m)), NEW st, NEW out, Left(st, Len(UpToScan0(m)), out),
         m.scan0 \/ (Last(m.root).tag # "S" /\ Last(m.root).tag # "")
  PROVE  /\ Begins(fname, m.root)
         /\ Left(Scanned(fname, st, format), Len(m.root),
                 Taken(m.scan0, out, format[2], Printed(m.sv0, m.prec)))
<1> DEFINE c == m.scan0
           val == Printed(m.sv0, m.prec)
           q == m.root
           w == UpToScan0(m)
           t == "S"
           next == Scanned(fname, st, format)
<1>1. w = q \o Optional(c, t, val)
  BY Zenon DEF UpToScan0
<1>2. q \in Seq(Segs) /\ q # <<>>
  BY FileFields, NameParts
<1>3. t \in Tags /\ val \in Int
  <2>1. t \in Tags
    BY DEF Tags
  <2>2. val \in Int
    BY FileFields, Zenon
  <2> QED BY <2>1, <2>2
<1>4. ~c => (Last(q).tag # t /\ Last(q).tag # "")
  OBVIOUS
<1>5. Begins(fname, w) /\ Left(st, Len(w), out) /\ format[1] = t
  OBVIOUS
<1> HIDE DEF c, val, q, w, t
<1>6. Begins(fname, q) /\ Left(next, Len(q), Taken(c, out, format[2], val))
  BY <1>1, <1>2, <1>3, <1>4, <1>5, OptionalScanned, Zenon
<1> QED BY <1>6, Zenon DEF c, val, q

-----------------------------------------------------------------------------
(* The results of a reader                                                     *)

Named(out) == out = [v \in Variables |-> out[v]]

LEMMA ExceptIs ==
  ASSUME NEW V, NEW h, NEW v \in V, NEW val
  PROVE  [[u \in V |-> h[u]] EXCEPT ![v] = val] = [u \in V |-> IF u = v THEN val ELSE h[u]]
OBVIOUS

\* Only v may differ, and does if it was read.
Changed(c, next, out, v, val) ==
  /\ Named(next)
  /\ next[v] = IF c THEN val ELSE out[v]
  /\ \A u \in Variables \ {v} : next[u] = out[u]

LEMMA PutHas ==
  ASSUME NEW out, Named(out), NEW v, v \in Variables, NEW val
  PROVE  Changed(TRUE, Put(out, v, val), out, v, val)
<1> DEFINE r == [u \in Variables |-> IF u = v THEN val ELSE out[u]]
<1>1. Put(out, v, val) = r
  <2> DEFINE f == [u \in Variables |-> out[u]]
  <2>1. out = f
    BY DEF Named
  <2>2. [f EXCEPT ![v] = val] = r
    BY ExceptIs, Zenon
  <2>3. Put(f, v, val) = [f EXCEPT ![v] = val]
    BY Zenon DEF Put
  <2> QED BY <2>1, <2>2, <2>3, Zenon
<1>2. Changed(TRUE, r, out, v, val)
  BY DEF Changed, Named
<1> QED BY <1>1, <1>2, Zenon

LEMMA TakenHas ==
  ASSUME NEW c, NEW out, Named(out), NEW v, v \in Variables, NEW val
  PROVE  Changed(c, Taken(c, out, v, val), out, v, val)
<1>1. CASE c
  <2>1. Changed(TRUE, Put(out, v, val), out, v, val)
    BY PutHas, Zenon
  <2>2. Taken(c, out, v, val) = Put(out, v, val)
    BY <1>1, Zenon DEF Taken
  <2>3. Changed(TRUE, Taken(c, out, v, val), out, v, val)
    BY <2>1, <2>2, Zenon
  <2> QED BY <1>1, <2>3, Zenon DEF Changed
<1>2. CASE ~c
  BY <1>2, Zenon DEF Taken, Changed
<1> QED BY <1>1, <1>2

LEMMA ResetHas ==
  ASSUME NEW old, Named(old)
  PROVE  /\ Named(Reset(old))
         /\ Reset(old)["index"] = -1 /\ Reset(old)["p"] = -1
         /\ Reset(old)["sv0"] = -1 /\ Reset(old)["sv1"] = -1
         /\ Reset(old)["f"] = old["f"] /\ Reset(old)["det"] = old["det"]
<1> DEFINE r == [u \in Variables |->
                  IF u \in {"index", "p", "sv0", "sv1"} THEN -1 ELSE old[u]]
<1>1. Reset(old) = r
  BY DEF Reset, Named, Variables
<1>2. /\ Named(r) /\ r["index"] = -1 /\ r["p"] = -1 /\ r["sv0"] = -1 /\ r["sv1"] = -1
      /\ r["f"] = old["f"] /\ r["det"] = old["det"]
  BY DEF Named, Variables
<1> QED BY <1>1, <1>2, Zenon

\* A name has more than one segment, and the first format finds its last.
LEMMA NameIsLong ==
  ASSUME NEW m \in FileType
  PROVE  /\ FileName(m) \in Seq(Segs) /\ Len(FileName(m)) >= 2 /\ Len(FileName(m)) # 1
         /\ Last(FileName(m)) = Segment("", m.findex)
         /\ FileName(m)[Len(FileName(m))] = Segment("", m.findex)
<1> DEFINE q == UpToFrame(m)
           w == FileName(m)
           e == Segment("", m.findex)
<1>1. w = q \o <<e>>
  BY NameIsParts
<1>2. q \in Seq(Segs) /\ q # <<>>
  BY NameParts
<1>3. e \in Segs
  <2>1. "" \in Tags
    BY DEF Tags
  <2>2. m.findex \in Int
    BY FileFields
  <2> QED BY <2>1, <2>2, SegmentIn, Zenon
<1> HIDE DEF q, w, e
<1>4. w \in Seq(Segs) /\ Last(w) = e /\ IsLonger(w, q, e)
  BY <1>1, <1>2, <1>3, OneMore
<1>5. Len(q) \in Nat /\ Len(q) >= 1
  BY <1>2, LenPositive
<1>6. Len(w) >= 2 /\ Len(w) # 1 /\ w[Len(w)] = e
  BY <1>4, <1>5 DEF IsLonger
<1> QED BY <1>4, <1>6 DEF w, e

\* The end of a part has the tag of what was put there or of what was before.
LEMMA EndsOfParts ==
  ASSUME NEW m \in FileType, Plain(m.root)
  PROVE  /\ Last(UpToScan0(m)).tag \in {"x", "S"}
         /\ Last(UpToScan1(m)).tag \in {"x", "S", "s"}
         /\ Last(UpToPosition(m)).tag \in {"x", "S", "s", "p"}
         /\ Last(UpToDetector(m)).tag \in {"x", "S", "s", "p", "d"}
<1>0. ASSUME NEW q \in Seq(Segs), q # <<>>, NEW c, NEW t \in Tags, NEW v \in Int,
             NEW w, w = q \o Optional(c, t, v), NEW E, Last(q).tag \in E
      PROVE  Last(w).tag \in E \cup {t}
  <2>1. Last(w) \in {Segment(t, v), Last(q)}
    BY <1>0, AppendedOptional, Zenon
  <2>2. Segment(t, v).tag = t
    BY DEF Segment
  <2>3. CASE Last(w) = Segment(t, v)
    BY <2>2, <2>3
  <2>4. CASE Last(w) = Last(q)
    BY <1>0, <2>4
  <2> QED BY <2>1, <2>3, <2>4
<1>1. Last(UpToScan0(m)).tag \in {"x", "S"}
  <2> DEFINE c == m.scan0
             val == Printed(m.sv0, m.prec)
             q == m.root
             w == UpToScan0(m)
             t == "S"
             E == {"x"}
  <2>1. w = q \o Optional(c, t, val)
    BY Zenon DEF UpToScan0
  <2>2. q \in Seq(Segs) /\ q # <<>>
    BY FileFields, NameParts
  <2>3. t \in Tags
    BY DEF Tags
  <2>4. val \in Int
    BY FileFields, Zenon
  <2>5. Last(q).tag \in E
    BY DEF Plain
  <2> HIDE DEF c, val, q, w, t, E
  <2>6. Last(w).tag \in E \cup {t}
    BY <1>0, <2>1, <2>2, <2>3, <2>4, <2>5, Zenon
  <2> QED BY <2>6 DEF w, t, E
<1>2. Last(UpToScan1(m)).tag \in {"x", "S", "s"}
  <2> DEFINE c == m.scan1
             val == Printed(m.sv1, m.prec)
             q == UpToScan0(m)
             w == UpToScan1(m)
             t == "s"
             E == {"x", "S"}
  <2>1. w = q \o Optional(c, t, val)
    BY Zenon DEF UpToScan1
  <2>2. q \in Seq(Segs) /\ q # <<>>
    BY FileFields, NameParts
  <2>3. t \in Tags
    BY DEF Tags
  <2>4. val \in Int
    BY FileFields, Zenon
  <2>5. Last(q).tag \in E
    BY <1>1
  <2> HIDE DEF c, val, q, w, t, E
  <2>6. Last(w).tag \in E \cup {t}
    BY <1>0, <2>1, <2>2, <2>3, <2>4, <2>5, Zenon
  <2> QED BY <2>6 DEF w, t, E
<1>3. Last(UpToPosition(m)).tag \in {"x", "S", "s", "p"}
  <2> DEFINE c == IsPositioned(m)
             val == m.pindex
             q == UpToScan1(m)
             w == UpToPosition(m)
             t == "p"
             E == {"x", "S", "s"}
  <2>1. w = q \o Optional(c, t, val)
    BY Zenon DEF UpToPosition
  <2>2. q \in Seq(Segs) /\ q # <<>>
    BY FileFields, NameParts
  <2>3. t \in Tags
    BY DEF Tags
  <2>4. val \in Int
    BY FileFields, Zenon
  <2>5. Last(q).tag \in E
    BY <1>2
  <2> HIDE DEF c, val, q, w, t, E
  <2>6. Last(w).tag \in E \cup {t}
    BY <1>0, <2>1, <2>2, <2>3, <2>4, <2>5, Zenon
  <2> QED BY <2>6 DEF w, t, E
<1>4. Last(UpToDetector(m)).tag \in {"x", "S", "s", "p", "d"}
  <2> DEFINE c == m.detindex >= 0
             val == m.detindex
             q == UpToPosition(m)
             w == UpToDetector(m)
             t == "d"
             E == {"x", "S", "s", "p"}
  <2>1. w = q \o Optional(c, t, val)
    BY Zenon DEF UpToDetector
  <2>2. q \in Seq(Segs) /\ q # <<>>
    BY FileFields, NameParts
  <2>3. t \in Tags
    BY DEF Tags
  <2>4. val \in Int
    BY FileFields, Zenon
  <2>5. Last(q).tag \in E
    BY <1>3
  <2> HIDE DEF c, val, q, w, t, E
  <2>6. Last(w).tag \in E \cup {t}
    BY <1>0, <2>1, <2>2, <2>3, <2>4, <2>5, Zenon
  <2> QED BY <2>6 DEF w, t, E
<1> QED BY <1>1, <1>2, <1>3, <1>4

\* The formats of the reader with seven arguments, one after the other.
FormatStates(fname, old, junk, g) ==
  /\ g[0] = Start(fname, Reset(old), junk)
  /\ g[1] = Scanned(fname, g[0], Formats[1])
  /\ g[2] = Scanned(fname, g[1], Formats[2])
  /\ g[3] = Scanned(fname, g[2], Formats[3])
  /\ g[4] = Scanned(fname, g[3], Formats[4])
  /\ g[5] = Scanned(fname, g[4], Formats[5])
  /\ g[6] = Scanned(fname, g[5], Formats[6])
  /\ VariablesFromFileName(fname, old, junk) = g[6].out

LEMMA FormatsInTurn ==
  ASSUME NEW fname, NEW old, NEW junk, Len(fname) # 1
  PROVE  \E g : FormatStates(fname, old, junk, g)
<1>1. Len(Formats) = 6 /\ Len(Formats) \in Nat
  BY DEF Formats
<1>a. PICK g : ScanStates(fname, Reset(old), junk, Formats, g)
  BY <1>1, ScanUnfolds, Zenon
<1>2. /\ g[0] = Start(fname, Reset(old), junk)
      /\ \A k \in 1..Len(Formats) : g[k] = Scanned(fname, g[k - 1], Formats[k])
      /\ Scan(fname, Reset(old), junk, Formats) = g[Len(Formats)]
  BY <1>a DEF ScanStates
<1>3. \A k \in 1..6 : g[k] = Scanned(fname, g[k - 1], Formats[k])
  BY <1>1, <1>2
<1>4. /\ g[1] = Scanned(fname, g[0], Formats[1])
      /\ g[2] = Scanned(fname, g[1], Formats[2])
      /\ g[3] = Scanned(fname, g[2], Formats[3])
  BY <1>3
<1>5. /\ g[4] = Scanned(fname, g[3], Formats[4])
      /\ g[5] = Scanned(fname, g[4], Formats[5])
      /\ g[6] = Scanned(fname, g[5], Formats[6])
  BY <1>3
<1>6. VariablesFromFileName(fname, old, junk) = g[6].out
  BY <1>1, <1>2 DEF VariablesFromFileName
<1> QED BY <1>2, <1>4, <1>5, <1>6, Zenon DEF FormatStates

LEMMA StartIsLeft ==
  ASSUME NEW fname, NEW out, NEW junk PROVE Left(Start(fname, out, junk), Len(fname), out)
BY DEF Left, Start

LEMMA FormatTexts ==
  /\ Formats[1][1] = "" /\ Formats[1][2] = "index"
  /\ Formats[2][1] = "f" /\ Formats[2][2] = "f"
  /\ Formats[3][1] = "d" /\ Formats[3][2] = "det"
  /\ Formats[4][1] = "p" /\ Formats[4][2] = "p"
  /\ Formats[5][1] = "s" /\ Formats[5][2] = "sv1"
  /\ Formats[6][1] = "S" /\ Formats[6][2] = "sv0"
BY DEF Formats

-----------------------------------------------------------------------------
(* Unless the root looks like a variable, every variable is read back          *)

\* What a reader returns of a name whose root looks like no variable.
ReadsPlain(m, old, out) ==
  /\ out["index"] = m.findex
  /\ m.frameindex >= 0 => out["f"] = m.frameindex
  /\ m.detindex >= 0 => out["det"] = m.detindex
  /\ ~(m.frameindex >= 0) => out["f"] = old["f"]
  /\ ~(m.detindex >= 0) => out["det"] = old["det"]
  /\ out["p"] = IF IsPositioned(m) THEN m.pindex ELSE -1
  /\ out["sv0"] = IF m.scan0 THEN Printed(m.sv0, m.prec) ELSE -1
  /\ out["sv1"] = IF m.scan1 THEN Printed(m.sv1, m.prec) ELSE -1

LEMMA PlainIsRead ==
  ASSUME NEW m \in FileType, Plain(m.root), NEW old, Named(old), NEW junk
  PROVE  ReadsPlain(m, old, VariablesFromFileName(FileName(m), old, junk))
<1> DEFINE w == FileName(m)
           o0 == Reset(old)
           o1 == Put(o0, "index", m.findex)
           o2 == Taken(m.frameindex >= 0, o1, "f", m.frameindex)
           o3 == Taken(m.detindex >= 0, o2, "det", m.detindex)
           o4 == Taken(IsPositioned(m), o3, "p", m.pindex)
           o5 == Taken(m.scan1, o4, "sv1", Printed(m.sv1, m.prec))
           o6 == Taken(m.scan0, o5, "sv0", Printed(m.sv0, m.prec))
<1>1. Len(w) # 1
  BY NameIsLong, Zenon
<1>2. PICK g : FormatStates(w, old, junk, g)
  BY <1>1, FormatsInTurn, Zenon
<1> USE DEF FormatStates
<1> DEFINE e0 == Last(m.root).tag
           e1 == Last(UpToScan0(m)).tag
           e2 == Last(UpToScan1(m)).tag
           e3 == Last(UpToPosition(m)).tag
           e4 == Last(UpToDetector(m)).tag
<1>3. /\ e4 # "f" /\ e4 # "" /\ e3 # "d" /\ e3 # "" /\ e2 # "p" /\ e2 # ""
      /\ e1 # "s" /\ e1 # "" /\ e0 # "S" /\ e0 # ""
  <2>1. /\ e1 \in {"x", "S"} /\ e2 \in {"x", "S", "s"}
        /\ e3 \in {"x", "S", "s", "p"} /\ e4 \in {"x", "S", "s", "p", "d"}
    BY EndsOfParts
  <2>2. e0 = "x"
    BY DEF Plain
  <2> HIDE DEF e0, e1, e2, e3, e4
  <2> QED BY <2>1, <2>2
<1> HIDE DEF o0, o1, o2, o3, o4, o5, o6, w
<1>4. Left(g[0], Len(w), o0)
  BY <1>2, StartIsLeft, Zenon DEF o0
<1>5. Begins(w, UpToFrame(m)) /\ Left(g[1], Len(UpToFrame(m)), o1)
  BY <1>2, <1>4, IndexRead, FormatTexts, Zenon DEF w, o1
<1>6. Begins(w, UpToDetector(m)) /\ Left(g[2], Len(UpToDetector(m)), o2)
  BY <1>2, <1>3, <1>5, FrameRead, FormatTexts, Zenon DEF o2
<1>7. Begins(w, UpToPosition(m)) /\ Left(g[3], Len(UpToPosition(m)), o3)
  BY <1>2, <1>3, <1>6, DetectorRead, FormatTexts, Zenon DEF o3
<1>8. Begins(w, UpToScan1(m)) /\ Left(g[4], Len(UpToScan1(m)), o4)
  BY <1>2, <1>3, <1>7, PositionRead, FormatTexts, Zenon DEF o4
<1>9. Begins(w, UpToScan0(m)) /\ Left(g[5], Len(UpToScan0(m)), o5)
  BY <1>2, <1>3, <1>8, Scan1Read, FormatTexts, Zenon DEF o5
<1>10. Left(g[6], Len(m.root), o6)
  BY <1>2, <1>3, <1>9, Scan0Read, FormatTexts, Zenon DEF o6
<1>11. VariablesFromFileName(w, old, junk) = o6
  BY <1>2, <1>10, LeftHas, Zenon
<1> HIDE DEF FormatStates
<1>12. /\ Named(o0) /\ o0["p"] = -1 /\ o0["sv0"] = -1 /\ o0["sv1"] = -1
       /\ o0["f"] = old["f"] /\ o0["det"] = old["det"]
  BY ResetHas, Zenon DEF o0
<1>13. /\ "index" \in Variables /\ "f" \in Variables /\ "det" \in Variables
       /\ "p" \in Variables /\ "sv1" \in Variables /\ "sv0" \in Variables
  BY DEF Variables
<1>14. Changed(TRUE, o1, o0, "index", m.findex)
  <2>1. Named(o0)
    BY <1>12
  <2> QED BY <1>13, <2>1, PutHas, Zenon DEF o1
<1>15. Changed(m.frameindex >= 0, o2, o1, "f", m.frameindex)
  <2>1. Named(o1)
    BY <1>14, Zenon DEF Changed
  <2> QED BY <1>13, <2>1, TakenHas, Zenon DEF o2
<1>16. Changed(m.detindex >= 0, o3, o2, "det", m.detindex)
  <2>1. Named(o2)
    BY <1>15, Zenon DEF Changed
  <2> QED BY <1>13, <2>1, TakenHas, Zenon DEF o3
<1>17. Changed(IsPositioned(m), o4, o3, "p", m.pindex)
  <2>1. Named(o3)
    BY <1>16, Zenon DEF Changed
  <2> QED BY <1>13, <2>1, TakenHas, Zenon DEF o4
<1>18. Changed(m.scan1, o5, o4, "sv1", Printed(m.sv1, m.prec))
  <2>1. Named(o4)
    BY <1>17, Zenon DEF Changed
  <2> QED BY <1>13, <2>1, TakenHas, Zenon DEF o5
<1>19. Changed(m.scan0, o6, o5, "sv0", Printed(m.sv0, m.prec))
  <2>1. Named(o5)
    BY <1>18, Zenon DEF Changed
  <2> QED BY <1>13, <2>1, TakenHas, Zenon DEF o6
<1>20. /\ o6["index"] = o1["index"] /\ o6["f"] = o2["f"] /\ o6["det"] = o3["det"]
       /\ o6["p"] = o4["p"] /\ o6["sv1"] = o5["sv1"]
  <2>1. \A u \in Variables \ {"f"} : o2[u] = o1[u]
    BY <1>15, Zenon DEF Changed
  <2>2. \A u \in Variables \ {"det"} : o3[u] = o2[u]
    BY <1>16, Zenon DEF Changed
  <2>3. \A u \in Variables \ {"p"} : o4[u] = o3[u]
    BY <1>17, Zenon DEF Changed
  <2>4. \A u \in Variables \ {"sv1"} : o5[u] = o4[u]
    BY <1>18, Zenon DEF Changed
  <2>5. \A u \in Variables \ {"sv0"} : o6[u] = o5[u]
    BY <1>19, Zenon DEF Changed
  <2> QED BY <2>1, <2>2, <2>3, <2>4, <2>5 DEF Variables
<1>21. /\ o3["p"] = -1 /\ o4["sv1"] = -1 /\ o5["sv0"] = -1
       /\ o1["f"] = old["f"] /\ o2["det"] = old["det"]
  <2>1. \A u \in Variables \ {"index"} : o1[u] = o0[u]
    BY <1>14, Zenon DEF Changed
  <2>2. \A u \in Variables \ {"f"} : o2[u] = o1[u]
    BY <1>15, Zenon DEF Changed
  <2>3. \A u \in Variables \ {"det"} : o3[u] = o2[u]
    BY <1>16, Zenon DEF Changed
  <2>4. \A u \in Variables \ {"p"} : o4[u] = o3[u]
    BY <1>17, Zenon DEF Changed
  <2>5. \A u \in Variables \ {"sv1"} : o5[u] = o4[u]
    BY <1>18, Zenon DEF Changed
  <2> QED BY <1>12, <2>1, <2>2, <2>3, <2>4, <2>5 DEF Variables
<1> DEFINE a0 == Printed(m.sv0, m.prec)
           a1 == Printed(m.sv1, m.prec)
           out == VariablesFromFileName(FileName(m), old, junk)
<1>22. out["index"] = m.findex
  BY <1>11, <1>14, <1>20, Zenon DEF w, Changed
<1>23. m.frameindex >= 0 => out["f"] = m.frameindex
  BY <1>11, <1>15, <1>20, Zenon DEF w, Changed
<1>24. m.detindex >= 0 => out["det"] = m.detindex
  BY <1>11, <1>16, <1>20, Zenon DEF w, Changed
<1>25. out["p"] = IF IsPositioned(m) THEN m.pindex ELSE -1
  BY <1>11, <1>17, <1>20, <1>21, Zenon DEF w, Changed
<1>26. out["sv0"] = IF m.scan0 THEN a0 ELSE -1
  BY <1>11, <1>19, <1>21, Zenon DEF w, Changed
<1>27. out["sv1"] = IF m.scan1 THEN a1 ELSE -1
  BY <1>11, <1>18, <1>20, <1>21, Zenon DEF w, Changed
<1>28. ~(m.frameindex >= 0) => out["f"] = old["f"]
  BY <1>11, <1>15, <1>20, <1>21, Zenon DEF w, Changed
<1>29. ~(m.detindex >= 0) => out["det"] = old["det"]
  BY <1>11, <1>16, <1>20, <1>21, Zenon DEF w, Changed
<1> HIDE DEF out, a0, a1
<1>30. ReadsPlain(m, old, out)
  BY <1>22, <1>23, <1>24, <1>25, <1>26, <1>27, <1>28, <1>29, Zenon DEF ReadsPlain, a0, a1
<1> QED BY <1>30, Zenon DEF out

-----------------------------------------------------------------------------
(* Whatever the root, the readers agree on the file index                      *)

Fine(st) == Left(st, st.n, st.out) /\ Named(st.out)

LEMMA LeftIsFine ==
  ASSUME NEW st, NEW m, NEW out, Left(st, m, out), Named(out)
  PROVE  Fine(st) /\ st.out = out /\ st.n = m
<1>1. st.n = m /\ st.out = out
  BY LeftHas, Zenon
<1> QED BY <1>1, Zenon DEF Fine

\* A format leaves the variables of the others alone.
Keeps(next, st, u) == Fine(next) /\ next.out[u] = st.out[u]

LEMMA ScannedKeeps ==
  ASSUME NEW fname, NEW st, Fine(st), NEW format, NEW u \in Variables, format[2] # u
  PROVE  Keeps(Scanned(fname, st, format), st, u)
<1> DEFINE segment == fname[st.n]
           local == IF format[1] \in {"s", "S"} THEN "x" ELSE "i"
           val == IF segment.num # <<>> THEN segment.num[1] ELSE st[local]
           next == Scanned(fname, st, format)
           more == Put(st.out, format[2], val)
           k == Cut(fname, st.n)
<1>1. CASE Matches(segment, format[1])
  <2>1. next = [st EXCEPT !.n = k, ![local] = val, !.out = more]
    BY <1>1 DEF Scanned, Put
  <2>2. st = [n |-> st.n, i |-> st.i, x |-> st.x, out |-> st.out]
    BY Zenon DEF Fine, Left
  <2>3. local \in {"x", "i"}
    OBVIOUS
  <2>4. Named(more) /\ more[u] = st.out[u]
    <3>1. Named(st.out)
      BY DEF Fine
    <3>2. CASE format[2] \in Variables
      <4>1. Changed(TRUE, more, st.out, format[2], val)
        BY <3>1, <3>2, PutHas, Zenon
      <4> QED BY <4>1, Zenon DEF Changed
    <3>3. CASE format[2] \notin Variables
      BY <3>1, <3>3, Zenon DEF Put
    <3> QED BY <3>2, <3>3
  <2> HIDE DEF local, val, next, more, k
  <2>5. Left(next, k, more)
    <3> DEFINE r == [n |-> st.n, i |-> st.i, x |-> st.x, out |-> st.out]
    <3>1. next = [r EXCEPT !.n = k, ![local] = val, !.out = more]
      BY <2>1, <2>2, Zenon
    <3>2. CASE local = "x"
      <4>1. next = [n |-> k, i |-> st.i, x |-> val, out |-> more]
        BY <3>1, <3>2
      <4> QED BY <4>1 DEF Left
    <3>3. CASE local = "i"
      <4>1. next = [n |-> k, i |-> val, x |-> st.x, out |-> more]
        BY <3>1, <3>3
      <4> QED BY <4>1 DEF Left
    <3> QED BY <2>3, <3>2, <3>3
  <2>6. Fine(next) /\ next.out = more
    BY <2>4, <2>5, LeftIsFine, Zenon
  <2> QED BY <2>4, <2>6, Zenon DEF next, Keeps
<1>2. CASE ~Matches(segment, format[1])
  <2>1. next = st
    BY <1>2, ScannedMiss, Zenon
  <2> QED BY <2>1, Zenon DEF Keeps
<1> QED BY <1>1, <1>2

LEMMA IndexIsRead ==
  ASSUME NEW m \in FileType, NEW old, Named(old), NEW junk
  PROVE  /\ VariablesFromFileName(FileName(m), old, junk)["index"] = m.findex
         /\ m.frameindex >= 0 =>
              VariablesFromFileName(FileName(m), old, junk)["f"] = m.frameindex
<1> DEFINE w == FileName(m)
           o0 == Reset(old)
           o1 == Put(o0, "index", m.findex)
           o2 == Taken(m.frameindex >= 0, o1, "f", m.frameindex)
<1>1. Len(w) # 1
  BY NameIsLong, Zenon
<1>2. PICK g : FormatStates(w, old, junk, g)
  BY <1>1, FormatsInTurn, Zenon
<1>3. /\ g[0] = Start(w, o0, junk)
      /\ g[1] = Scanned(w, g[0], Formats[1])
      /\ g[2] = Scanned(w, g[1], Formats[2])
      /\ g[3] = Scanned(w, g[2], Formats[3])
      /\ g[4] = Scanned(w, g[3], Formats[4])
      /\ g[5] = Scanned(w, g[4], Formats[5])
      /\ g[6] = Scanned(w, g[5], Formats[6])
      /\ VariablesFromFileName(w, old, junk) = g[6].out
  BY <1>2, Zenon DEF FormatStates
<1>4. "index" \in Variables /\ "f" \in Variables
  BY DEF Variables
<1>5. Named(o0)
  BY ResetHas, Zenon
<1>6. Changed(TRUE, o1, o0, "index", m.findex)
  BY <1>4, <1>5, PutHas, Zenon
<1>7. Named(o1) /\ o1["index"] = m.findex
  BY <1>6, Zenon DEF Changed
<1>8. Changed(m.frameindex >= 0, o2, o1, "f", m.frameindex)
  BY <1>4, <1>7, TakenHas, Zenon
<1> HIDE DEF w, o0, o1, o2
<1>9. Left(g[0], Len(w), o0)
  BY <1>3, StartIsLeft, Zenon
<1>10. Begins(w, UpToFrame(m)) /\ Left(g[1], Len(UpToFrame(m)), o1)
  BY <1>3, <1>9, IndexRead, FormatTexts, Zenon DEF w, o1
<1>11. Fine(g[1]) /\ g[1].out = o1
  BY <1>7, <1>10, LeftIsFine, Zenon
<1>12. /\ Formats[2][2] # "index" /\ Formats[3][2] # "index" /\ Formats[4][2] # "index"
       /\ Formats[5][2] # "index" /\ Formats[6][2] # "index"
       /\ Formats[3][2] # "f" /\ Formats[4][2] # "f" /\ Formats[5][2] # "f"
       /\ Formats[6][2] # "f"
  BY FormatTexts
<1>13. Keeps(g[2], g[1], "index")
  BY <1>3, <1>4, <1>11, <1>12, ScannedKeeps, Zenon
<1>14. Keeps(g[3], g[2], "index") /\ Keeps(g[3], g[2], "f")
  <2>1. Fine(g[2])
    BY <1>13, Zenon DEF Keeps
  <2> QED BY <1>3, <1>4, <1>12, <2>1, ScannedKeeps, Zenon
<1>15. Keeps(g[4], g[3], "index") /\ Keeps(g[4], g[3], "f")
  <2>1. Fine(g[3])
    BY <1>14, Zenon DEF Keeps
  <2> QED BY <1>3, <1>4, <1>12, <2>1, ScannedKeeps, Zenon
<1>16. Keeps(g[5], g[4], "index") /\ Keeps(g[5], g[4], "f")
  <2>1. Fine(g[4])
    BY <1>15, Zenon DEF Keeps
  <2> QED BY <1>3, <1>4, <1>12, <2>1, ScannedKeeps, Zenon
<1>17. Keeps(g[6], g[5], "index") /\ Keeps(g[6], g[5], "f")
  <2>1. Fine(g[5])
    BY <1>16, Zenon DEF Keeps
  <2> QED BY <1>3, <1>4, <1>12, <2>1, ScannedKeeps, Zenon
<1>18. VariablesFromFileName(w, old, junk)["index"] = m.findex
  BY <1>3, <1>7, <1>11, <1>13, <1>14, <1>15, <1>16, <1>17, Zenon DEF Keeps
<1>19. ASSUME m.frameindex >= 0
       PROVE  VariablesFromFileName(w, old, junk)["f"] = m.frameindex
  <2>1. Left(g[2], Len(UpToDetector(m)), o2)
    BY <1>3, <1>10, <1>19, FrameRead, FormatTexts, Zenon DEF o2
  <2>2. g[2].out = o2
    BY <2>1, LeftHas, Zenon
  <2>3. o2["f"] = m.frameindex
    BY <1>8, <1>19, Zenon DEF Changed
  <2> QED BY <1>3, <1>14, <1>15, <1>16, <1>17, <2>2, <2>3, Zenon DEF Keeps
<1> QED BY <1>18, <1>19, Zenon DEF w

NoneOf(formats, first, last, u) == \A k \in first..last : formats[k][2] # u

\* What no later format is for stays to the end.
LEMMA KeptToTheEnd ==
  ASSUME NEW fname, NEW out, NEW junk, NEW formats, NEW g,
         ScanStates(fname, out, junk, formats, g),
         NEW N \in Nat, N = Len(formats), NEW j \in Nat, j <= N, Fine(g[j]),
         NEW u \in Variables, NEW first, first = j + 1, NoneOf(formats, first, N, u)
  PROVE  Keeps(g[N], g[j], u)
<1> DEFINE T == {d \in Nat : j + d <= N => Keeps(g[j + d], g[j], u)}
<1>1. 0 \in T
  <2>1. Keeps(g[j], g[j], u)
    BY Zenon DEF Keeps
  <2>2. j + 0 = j
    OBVIOUS
  <2> QED BY <2>1, <2>2
<1>2. ASSUME NEW d \in Nat, d \in T PROVE d + 1 \in T
  <2> SUFFICES ASSUME j + (d + 1) <= N PROVE Keeps(g[j + (d + 1)], g[j], u)
    OBVIOUS
  <2> DEFINE k == j + (d + 1)
  <2>1. k \in 1..Len(formats) /\ k \in (j + 1)..N /\ k - 1 = j + d /\ j + d <= N
    OBVIOUS
  <2>2. Keeps(g[k - 1], g[j], u)
    BY <1>2, <2>1
  <2> HIDE DEF k
  <2>3. g[k] = Scanned(fname, g[k - 1], formats[k])
    BY <2>1 DEF ScanStates
  <2>4. formats[k][2] # u
    BY <2>1 DEF NoneOf
  <2>5. Fine(g[k - 1])
    BY <2>2, Zenon DEF Keeps
  <2>6. Keeps(g[k], g[k - 1], u)
    BY <2>3, <2>4, <2>5, ScannedKeeps, Zenon
  <2>7. Keeps(g[k], g[j], u)
    BY <2>2, <2>6, Zenon DEF Keeps
  <2> QED BY <2>7 DEF k
<1>3. N - j \in T
  <2> HIDE DEF T
  <2>1. \A n \in Nat : n \in T
    BY <1>1, <1>2, SetInduction
  <2> QED BY <2>1
<1> QED BY <1>3

LEMMA FiveIndexIsRead ==
  ASSUME NEW m \in FileType, NEW old, Named(old), NEW junk
  PROVE  FiveVariablesFromFileName(FileName(m), old, junk).index = m.findex
<1> DEFINE w == FileName(m)
           o0 == Reset(old)
           o1 == Put(o0, "index", m.findex)
<1>1. Len(FiveFormats) = 6 /\ Len(FiveFormats) \in Nat
  BY DEF FiveFormats
<1>2. PICK g : ScanStates(w, o0, junk, FiveFormats, g)
  BY <1>1, ScanUnfolds, Zenon
<1>3. Named(o0) /\ "index" \in Variables
  BY ResetHas DEF Variables
<1>4. Changed(TRUE, o1, o0, "index", m.findex)
  BY <1>3, PutHas, Zenon
<1>5. Named(o1) /\ o1["index"] = m.findex
  BY <1>4, Zenon DEF Changed
<1> HIDE DEF w, o0, o1
<1>6. FiveVariablesFromFileName(w, old, junk) = g[6].out
  <2>1. Len(w) # 1
    BY NameIsLong, Zenon DEF w
  <2>2. FiveVariablesFromFileName(w, old, junk) = Scan(w, o0, junk, FiveFormats).out
    BY <2>1, Zenon DEF FiveVariablesFromFileName, o0
  <2>3. Scan(w, o0, junk, FiveFormats) = g[6]
    BY <1>1, <1>2 DEF ScanStates
  <2> QED BY <2>2, <2>3, Zenon
<1>7. FiveFormats[1][1] = "" /\ FiveFormats[1][2] = "index"
  BY DEF FiveFormats
<1>8. g[0] = Start(w, o0, junk) /\ g[1] = Scanned(w, g[0], FiveFormats[1])
  BY <1>1, <1>2 DEF ScanStates
<1>9. Left(g[0], Len(w), o0)
  BY <1>8, StartIsLeft, Zenon
<1>10. Left(g[1], Len(UpToFrame(m)), o1)
  BY <1>7, <1>8, <1>9, IndexRead, Zenon DEF w, o1
<1>11. Fine(g[1]) /\ g[1].out = o1
  BY <1>5, <1>10, LeftIsFine, Zenon
<1>12. NoneOf(FiveFormats, 2, 6, "index")
  <2>1. /\ FiveFormats[2][2] # "index" /\ FiveFormats[3][2] # "index"
        /\ FiveFormats[4][2] # "index" /\ FiveFormats[5][2] # "index"
        /\ FiveFormats[6][2] # "index"
    BY DEF FiveFormats
  <2>2. \A k \in 2..6 : k = 2 \/ k = 3 \/ k = 4 \/ k = 5 \/ k = 6
    OBVIOUS
  <2> QED BY <2>1, <2>2, Zenon DEF NoneOf
<1>13. Keeps(g[6], g[1], "index")
  <2>1. 6 \in Nat /\ 6 = Len(FiveFormats) /\ 1 \in Nat /\ 1 <= 6 /\ 2 = 1 + 1
    BY <1>1
  <2>2. "index" \in Variables /\ Fine(g[1])
    BY <1>3, <1>11, Zenon
  <2> QED BY <1>2, <1>12, <2>1, <2>2, KeptToTheEnd, Zenon
<1>14. g[6].out["index"] = m.findex
  BY <1>5, <1>11, <1>13, Zenon DEF Keeps
<1> QED BY <1>6, <1>14 DEF w

LEMMA ReadIsNamed ==
  ASSUME NEW m \in FileType, NEW old, Named(old), NEW junk
  PROVE  Named(VariablesFromFileName(FileName(m), old, junk))
<1> DEFINE w == FileName(m)
<1>1. PICK g : FormatStates(w, old, junk, g)
  BY NameIsLong, FormatsInTurn, Zenon
<1>2. /\ g[0] = Start(w, Reset(old), junk) /\ g[1] = Scanned(w, g[0], Formats[1])
      /\ g[2] = Scanned(w, g[1], Formats[2]) /\ g[3] = Scanned(w, g[2], Formats[3])
      /\ g[4] = Scanned(w, g[3], Formats[4]) /\ g[5] = Scanned(w, g[4], Formats[5])
      /\ g[6] = Scanned(w, g[5], Formats[6])
      /\ VariablesFromFileName(w, old, junk) = g[6].out
  BY <1>1, Zenon DEF FormatStates
<1> HIDE DEF w
<1>3. Fine(g[0])
  <2>1. Left(g[0], Len(w), Reset(old))
    BY <1>2, StartIsLeft, Zenon
  <2> QED BY <2>1, ResetHas, LeftIsFine, Zenon
<1>4. ASSUME NEW st, Fine(st), NEW format PROVE Fine(Scanned(w, st, format))
  <2>1. PICK u : u \in Variables /\ format[2] # u
    <3>1. "index" \in Variables /\ "f" \in Variables /\ "index" # "f"
      BY DEF Variables
    <3>2. CASE format[2] = "index"
      BY <3>1, <3>2, Zenon
    <3>3. CASE format[2] # "index"
      BY <3>1, <3>3, Zenon
    <3> QED BY <3>2, <3>3, Zenon
  <2> QED BY <1>4, <2>1, ScannedKeeps, Zenon DEF Keeps
<1>5. Fine(g[3])
  BY <1>2, <1>3, <1>4, Zenon
<1>6. Fine(g[6])
  BY <1>2, <1>4, <1>5, Zenon
<1> QED BY <1>2, <1>6, Zenon DEF Fine, w

LEMMA FileIndexIsRead ==
  ASSUME NEW m \in FileType, NEW extension
  PROVE  FileIndexFromFileName(m, extension)
           = IF extension \/ HasPoint(m) THEN m.findex ELSE -1
<1> DEFINE w == FileName(m)
           dot == extension \/ HasPoint(m)
<1>1. Len(w) # 1 /\ Last(w) = Segment("", m.findex)
  BY NameIsLong, Zenon
<1>2. FileIndexFromFileName(m, extension) =
        IF ~dot \/ Len(w) = 1 THEN -1
        ELSE IF Matches(Last(w), "") THEN Last(w).num[1] ELSE 0
  BY Zenon DEF FileIndexFromFileName
<1> HIDE DEF w, dot
<1>3. Matches(Last(w), "") /\ Last(w).num[1] = m.findex
  <2>1. /\ Matches(Segment("", m.findex), "")
        /\ Segment("", m.findex).num[1] = m.findex
    BY DEF Matches, Segment
  <2> QED BY <1>1, <2>1, Zenon
<1>4. FileIndexFromFileName(m, extension) = IF dot THEN m.findex ELSE -1
  BY <1>1, <1>2, <1>3, Zenon
<1> QED BY <1>4, Zenon DEF dot

LEMMA ExchangedHas ==
  ASSUME NEW out, Named(out)
  PROVE  /\ Named(Exchanged(out))
         /\ Exchanged(out)["index"] = out["f"] /\ Exchanged(out)["f"] = out["index"]
<1>1. "index" \in Variables /\ "f" \in Variables /\ "index" # "f"
  BY DEF Variables
<1> DEFINE g == [v \in Variables |-> out[v]]
<1>2. out = g
  BY DEF Named
<1> HIDE DEF g
<1>3. Exchanged(out) = [out EXCEPT !["index"] = out["f"], !["f"] = out["index"]]
  BY DEF Exchanged
<1>4. DOMAIN out = Variables
  BY <1>2 DEF g
<1>5. /\ Exchanged(out) = [v \in Variables |-> Exchanged(out)[v]]
      /\ Exchanged(out)["index"] = out["f"] /\ Exchanged(out)["f"] = out["index"]
  BY <1>1, <1>3, <1>4
<1> QED BY <1>5, Zenon DEF Named

\* The reader of the object has the two indexes the other way round.
LEMMA ObjectIndexIsRead ==
  ASSUME NEW m \in FileType, NEW old, Named(old), NEW junk
  PROVE  /\ ObjectVariablesFromFileName(FileName(m), old, junk)["f"] = m.findex
         /\ m.frameindex >= 0 =>
              ObjectVariablesFromFileName(FileName(m), old, junk)["index"] = m.frameindex
<1> DEFINE swapped == Exchanged(old)
           out == VariablesFromFileName(FileName(m), swapped, junk)
<1>1. Named(swapped)
  BY ExchangedHas, Zenon
<1> HIDE DEF swapped
<1>2. Named(out)
  BY <1>1, ReadIsNamed, Zenon
<1>3. out["index"] = m.findex /\ (m.frameindex >= 0 => out["f"] = m.frameindex)
  BY <1>1, IndexIsRead, Zenon
<1>4. ObjectVariablesFromFileName(FileName(m), old, junk) = Exchanged(out)
  BY Zenon DEF ObjectVariablesFromFileName, swapped
<1> HIDE DEF out
<1>5. Exchanged(out)["index"] = out["f"] /\ Exchanged(out)["f"] = out["index"]
  BY <1>2, ExchangedHas, Zenon
<1> QED BY <1>3, <1>4, <1>5, Zenon

LEMMA FrameIndexIsRead ==
  ASSUME NEW m \in FileType, m.frameindex >= 0, NEW junk
  PROVE  FrameIndexFromFileName(FileName(m), junk) = m.frameindex
<1> DEFINE w == FileName(m)
           q == UpToFrame(m)
           o == [index |-> junk]
           formats == <<<<"", "index">>>>
           st == Scan(w, o, junk, formats)
<1>1. Len(w) # 1
  BY NameIsLong, Zenon
<1>2. Len(formats) = 1 /\ Len(formats) \in Nat
  OBVIOUS
<1>a. formats[1][1] = ""
  OBVIOUS
<1> HIDE DEF formats
<1>3. PICK g : ScanStates(w, o, junk, formats, g)
  BY <1>2, ScanUnfolds, Zenon
<1> HIDE DEF o
<1>4. g[0] = Start(w, o, junk) /\ g[1] = Scanned(w, g[0], formats[1]) /\ st = g[1]
  <2>1. g[0] = Start(w, o, junk) /\ Scan(w, o, junk, formats) = g[Len(formats)]
    BY <1>3, Zenon DEF ScanStates
  <2>2. \A k \in 1..Len(formats) : g[k] = Scanned(w, g[k - 1], formats[k])
    BY <1>3, Zenon DEF ScanStates
  <2>3. 1 \in 1..Len(formats) /\ 1 - 1 = 0
    BY <1>2
  <2>4. g[1] = Scanned(w, g[1 - 1], formats[1])
    BY <2>2, <2>3, Zenon
  <2> QED BY <1>2, <2>1, <2>3, <2>4, Zenon DEF st
<1>5. Left(g[0], Len(w), o)
  BY <1>4, StartIsLeft, Zenon
<1>6. Begins(w, q) /\ Left(st, Len(q), Put(o, formats[1][2], m.findex))
  BY <1>a, <1>4, <1>5, IndexRead, Zenon
<1>7. st.n = Len(q)
  BY <1>6, LeftHas, Zenon
<1>8. w[Len(q)] = Segment("f", m.frameindex)
  <2> DEFINE p == UpToDetector(m)
             c == m.frameindex >= 0
  <2>1. p \in Seq(Segs) /\ p # <<>>
    BY NameParts
  <2>2. q = p \o Optional(c, "f", m.frameindex) /\ c
    BY Zenon DEF UpToFrame
  <2>3. "f" \in Tags /\ m.frameindex \in Int
    <3>1. "f" \in Tags
      BY DEF Tags
    <3> QED BY <3>1, FileFields, Zenon
  <2> HIDE DEF p, c, q
  <2>4. q = p \o <<Segment("f", m.frameindex)>>
    BY <2>2, OptionalIs, Zenon
  <2>6. IsLonger(p \o <<Segment("f", m.frameindex)>>, p, Segment("f", m.frameindex))
    BY <2>1, <2>3, SegmentIn, OneMore, Zenon
  <2>7. IsLonger(q, p, Segment("f", m.frameindex))
    BY <2>4, <2>6, Zenon
  <2>5. Len(p) \in Nat
    BY <2>1, LenProperties
  <2>8. Len(q) \in 1..Len(q) /\ q[Len(q)] = Segment("f", m.frameindex)
    BY <2>5, <2>7 DEF IsLonger
  <2>9. w[Len(q)] = q[Len(q)]
    BY <1>6, <2>8 DEF Begins
  <2> QED BY <2>8, <2>9
<1>9. FrameIndexFromFileName(w, junk)
        = LET segment == w[st.n]
              i == IF segment.num # <<>> THEN segment.num[1] ELSE st.i
          IN  IF Matches(segment, "f") /\ i # -1 THEN i ELSE 0
  BY <1>1, Zenon DEF FrameIndexFromFileName, o, formats
<1>10. /\ Matches(Segment("f", m.frameindex), "f")
       /\ Segment("f", m.frameindex).num # <<>>
       /\ Segment("f", m.frameindex).num[1] = m.frameindex
  BY DEF Matches, Segment
<1>11. m.frameindex # -1
  BY FileFields
<1> QED BY <1>7, <1>8, <1>9, <1>10, <1>11, Zenon

-----------------------------------------------------------------------------
(* The root of a receiver's prefix                                             *)

PrefixFormats == <<<<"d", "">>, <<"p", "">>, <<"s", "">>, <<"S", "">>>>

PrefixStates(fname, g) ==
  /\ g[0] = Start(fname, Unset, 0)
  /\ g[1] = Scanned(fname, g[0], PrefixFormats[1])
  /\ g[2] = Scanned(fname, g[1], PrefixFormats[2])
  /\ g[3] = Scanned(fname, g[2], PrefixFormats[3])
  /\ g[4] = Scanned(fname, g[3], PrefixFormats[4])
  /\ NameFromReceiverFilePrefix(fname) = SubSeq(fname, 1, g[4].n)

LEMMA PrefixInTurn == ASSUME NEW fname PROVE \E g : PrefixStates(fname, g)
<1>1. Len(PrefixFormats) = 4 /\ Len(PrefixFormats) \in Nat
  BY DEF PrefixFormats
<1>2. PICK g : ScanStates(fname, Unset, 0, PrefixFormats, g)
  BY <1>1, ScanUnfolds, Zenon
<1>3. /\ g[0] = Start(fname, Unset, 0)
      /\ \A k \in 1..Len(PrefixFormats) : g[k] = Scanned(fname, g[k - 1], PrefixFormats[k])
      /\ Scan(fname, Unset, 0, PrefixFormats) = g[Len(PrefixFormats)]
  BY <1>2 DEF ScanStates
<1>4. \A k \in 1..4 : g[k] = Scanned(fname, g[k - 1], PrefixFormats[k])
  BY <1>1, <1>3
<1>5. /\ g[1] = Scanned(fname, g[0], PrefixFormats[1])
      /\ g[2] = Scanned(fname, g[1], PrefixFormats[2])
  BY <1>4
<1>6. /\ g[3] = Scanned(fname, g[2], PrefixFormats[3])
      /\ g[4] = Scanned(fname, g[3], PrefixFormats[4])
  BY <1>4
<1>7. NameFromReceiverFilePrefix(fname) = SubSeq(fname, 1, g[4].n)
  <2>1. Scan(fname, Unset, 0, PrefixFormats) = g[4]
    BY <1>1, <1>3
  <2> QED BY <2>1, Zenon DEF NameFromReceiverFilePrefix, PrefixFormats
<1> QED BY <1>3, <1>5, <1>6, <1>7, Zenon DEF PrefixStates

LEMMA PrefixTexts ==
  /\ PrefixFormats[1][1] = "d" /\ PrefixFormats[2][1] = "p"
  /\ PrefixFormats[3][1] = "s" /\ PrefixFormats[4][1] = "S"
BY DEF PrefixFormats

LEMMA BeginningIs ==
  ASSUME NEW w, NEW q \in Seq(Segs), Begins(w, q) PROVE SubSeq(w, 1, Len(q)) = q
<1>1. w \in Seq(Segs) /\ Len(q) <= Len(w) /\ \A j \in 1..Len(q) : w[j] = q[j]
  BY DEF Begins
<1>2. Len(q) \in Nat /\ Len(w) \in Nat
  BY <1>1, LenProperties
<1>3. \A j \in 1..Len(q) : w[j] \in Segs
  BY <1>1, <1>2
<1>4. /\ SubSeq(w, 1, Len(q)) \in Seq(Segs)
      /\ Len(SubSeq(w, 1, Len(q))) = Len(q)
      /\ \A j \in 1..Len(q) : SubSeq(w, 1, Len(q))[j] = w[j]
  BY <1>1, <1>2, <1>3
<1> QED BY <1>1, <1>4, SeqEqual

LEMMA RootIsRead ==
  ASSUME NEW m \in FileType, Plain(m.root)
  PROVE  NameFromReceiverFilePrefix(ReceiverFilePrefix(m)) = m.root
<1> DEFINE w == ReceiverFilePrefix(m)
           o0 == Unset
           o1 == Taken(m.detindex >= 0, o0, PrefixFormats[1][2], m.detindex)
           o2 == Taken(IsPositioned(m), o1, PrefixFormats[2][2], m.pindex)
           o3 == Taken(m.scan1, o2, PrefixFormats[3][2], Printed(m.sv1, m.prec))
           o4 == Taken(m.scan0, o3, PrefixFormats[4][2], Printed(m.sv0, m.prec))
           e0 == Last(m.root).tag
           e1 == Last(UpToScan0(m)).tag
           e2 == Last(UpToScan1(m)).tag
           e3 == Last(UpToPosition(m)).tag
<1>1. w = UpToDetector(m)
  BY NameIsParts, Zenon
<1>2. PICK g : PrefixStates(w, g)
  BY PrefixInTurn, Zenon
<1> USE DEF PrefixStates
<1>3. /\ e3 # "d" /\ e3 # "" /\ e2 # "p" /\ e2 # ""
      /\ e1 # "s" /\ e1 # "" /\ e0 # "S" /\ e0 # ""
  <2>1. /\ e1 \in {"x", "S"} /\ e2 \in {"x", "S", "s"} /\ e3 \in {"x", "S", "s", "p"}
    BY EndsOfParts
  <2>2. e0 = "x"
    BY DEF Plain
  <2> HIDE DEF e0, e1, e2, e3
  <2> QED BY <2>1, <2>2
<1> HIDE DEF o0, o1, o2, o3, o4, w
<1>4. Begins(w, UpToDetector(m))
  BY <1>1, NameParts, BeginsSelf, Zenon
<1>5. Left(g[0], Len(UpToDetector(m)), o0)
  BY <1>1, <1>2, StartIsLeft, Zenon DEF o0
<1>6. Begins(w, UpToPosition(m)) /\ Left(g[1], Len(UpToPosition(m)), o1)
  BY <1>2, <1>3, <1>4, <1>5, DetectorRead, PrefixTexts, Zenon DEF o1
<1>7. Begins(w, UpToScan1(m)) /\ Left(g[2], Len(UpToScan1(m)), o2)
  BY <1>2, <1>3, <1>6, PositionRead, PrefixTexts, Zenon DEF o2
<1>8. Begins(w, UpToScan0(m)) /\ Left(g[3], Len(UpToScan0(m)), o3)
  BY <1>2, <1>3, <1>7, Scan1Read, PrefixTexts, Zenon DEF o3
<1>9. Begins(w, m.root) /\ Left(g[4], Len(m.root), o4)
  BY <1>2, <1>3, <1>8, Scan0Read, PrefixTexts, Zenon DEF o4
<1>10. NameFromReceiverFilePrefix(w) = SubSeq(w, 1, Len(m.root))
  BY <1>2, <1>9, LeftHas, Zenon
<1>11. m.root \in Seq(Segs)
  BY FileFields, Zenon
<1>12. SubSeq(w, 1, Len(m.root)) = m.root
  BY <1>9, <1>11, BeginningIs, Zenon
<1> QED BY <1>10, <1>12, Zenon DEF w

-----------------------------------------------------------------------------
(* Names of one acquisition differ                                             *)

LEMMA SegmentHas ==
  ASSUME NEW t, NEW n PROVE Segment(t, n).tag = t /\ Segment(t, n).num[1] = n
BY DEF Segment

\* What a segment says.
Says(segment, t, n) == segment.tag = t /\ segment.num[1] = n

SuffixSays(w, a, d, f, i) ==
  /\ d >= 0 /\ f >= 0 => /\ Len(w) = a + 3 /\ Says(w[a + 1], "d", d)
                         /\ Says(w[a + 2], "f", f) /\ Says(w[a + 3], "", i)
  /\ d >= 0 /\ ~(f >= 0) => /\ Len(w) = a + 2 /\ Says(w[a + 1], "d", d)
                            /\ Says(w[a + 2], "", i)
  /\ ~(d >= 0) /\ f >= 0 => /\ Len(w) = a + 2 /\ Says(w[a + 1], "f", f)
                            /\ Says(w[a + 2], "", i)
  /\ ~(d >= 0) /\ ~(f >= 0) => Len(w) = a + 1 /\ Says(w[a + 1], "", i)

SameSuffix(d, f, i, e, h, j) == d = e /\ f = h /\ i = j

LEMMA SuffixesDiffer ==
  ASSUME NEW w, NEW a \in Nat,
         NEW d \in Int, NEW f \in Int, NEW i \in Int, SuffixSays(w, a, d, f, i),
         NEW e \in Int, NEW h \in Int, NEW j \in Int, SuffixSays(w, a, e, h, j),
         d >= -1, e >= -1, f >= -1, h >= -1
  PROVE  SameSuffix(d, f, i, e, h, j)
<1> DEFINE xt == w[a + 1].tag
           xn == w[a + 1].num[1]
           yt == w[a + 2].tag
           yn == w[a + 2].num[1]
           zn == w[a + 3].num[1]
           n == Len(w)
<1>1. /\ d >= 0 /\ f >= 0 => n = a + 3 /\ xt = "d" /\ xn = d /\ yt = "f" /\ yn = f /\ zn = i
      /\ d >= 0 /\ ~(f >= 0) => n = a + 2 /\ xt = "d" /\ xn = d /\ yt = "" /\ yn = i
      /\ ~(d >= 0) /\ f >= 0 => n = a + 2 /\ xt = "f" /\ xn = f /\ yt = "" /\ yn = i
      /\ ~(d >= 0) /\ ~(f >= 0) => n = a + 1 /\ xt = "" /\ xn = i
  BY Zenon DEF SuffixSays, Says
<1>2. /\ e >= 0 /\ h >= 0 => n = a + 3 /\ xt = "d" /\ xn = e /\ yt = "f" /\ yn = h /\ zn = j
      /\ e >= 0 /\ ~(h >= 0) => n = a + 2 /\ xt = "d" /\ xn = e /\ yt = "" /\ yn = j
      /\ ~(e >= 0) /\ h >= 0 => n = a + 2 /\ xt = "f" /\ xn = h /\ yt = "" /\ yn = j
      /\ ~(e >= 0) /\ ~(h >= 0) => n = a + 1 /\ xt = "" /\ xn = j
  BY Zenon DEF SuffixSays, Says
<1> HIDE DEF xt, xn, yt, yn, zn, n
<1>3. "d" # "f" /\ "d" # "" /\ "f" # "" /\ a + 1 # a + 2 /\ a + 2 # a + 3 /\ a + 1 # a + 3
  OBVIOUS
<1>4. (d >= 0 <=> e >= 0) /\ (f >= 0 <=> h >= 0)
  BY <1>1, <1>2, <1>3, Zenon
<1>5. i = j /\ (d >= 0 => d = e) /\ (f >= 0 => f = h)
  BY <1>1, <1>2, <1>4, Zenon
<1> QED BY <1>4, <1>5 DEF SameSuffix

\* The same with one segment or none, then the next.
OneOrNone(p, q, c, t, v) ==
  /\ c => IsLonger(q, p, Segment(t, v))
  /\ ~c => q = p

LEMMA PartAdded ==
  ASSUME NEW q \in Seq(Segs), q # <<>>, NEW c, NEW t \in Tags, NEW v \in Int,
         NEW w, w = q \o Optional(c, t, v)
  PROVE  OneOrNone(q, w, c, t, v)
<1>1. c => IsLonger(w, q, Segment(t, v))
  BY AppendedOptional, Zenon
<1>2. ~c => w = q
  <2>1. q \o <<>> = q
    BY ConcatEmptySeq
  <2> QED BY <2>1, OptionalIs, Zenon
<1> QED BY <1>1, <1>2, Zenon DEF OneOrNone

LEMMA PartsOfSuffix ==
  ASSUME NEW m \in FileType
  PROVE  /\ OneOrNone(UpToPosition(m), UpToDetector(m), m.detindex >= 0, "d", m.detindex)
         /\ OneOrNone(UpToDetector(m), UpToFrame(m), m.frameindex >= 0, "f", m.frameindex)
         /\ IsLonger(FileName(m), UpToFrame(m), Segment("", m.findex))
<1>1. OneOrNone(UpToPosition(m), UpToDetector(m), m.detindex >= 0, "d", m.detindex)
  <2> DEFINE c == m.detindex >= 0
  <2>1. UpToDetector(m) = UpToPosition(m) \o Optional(c, "d", m.detindex)
    BY Zenon DEF UpToDetector
  <2> HIDE DEF c
  <2>2. "d" \in Tags
    BY DEF Tags
  <2>3. OneOrNone(UpToPosition(m), UpToDetector(m), c, "d", m.detindex)
    BY <2>1, <2>2, NameParts, FileFields, PartAdded, Zenon
  <2> QED BY <2>3, Zenon DEF c
<1>2. OneOrNone(UpToDetector(m), UpToFrame(m), m.frameindex >= 0, "f", m.frameindex)
  <2> DEFINE c == m.frameindex >= 0
  <2>1. UpToFrame(m) = UpToDetector(m) \o Optional(c, "f", m.frameindex)
    BY Zenon DEF UpToFrame
  <2> HIDE DEF c
  <2>2. "f" \in Tags
    BY DEF Tags
  <2>3. OneOrNone(UpToDetector(m), UpToFrame(m), c, "f", m.frameindex)
    BY <2>1, <2>2, NameParts, FileFields, PartAdded, Zenon
  <2> QED BY <2>3, Zenon DEF c
<1>3. IsLonger(FileName(m), UpToFrame(m), Segment("", m.findex))
  <2>1. "" \in Tags
    BY DEF Tags
  <2>2. IsLonger(UpToFrame(m) \o <<Segment("", m.findex)>>, UpToFrame(m), Segment("", m.findex))
    BY <2>1, NameParts, FileFields, SegmentIn, OneMore, Zenon
  <2> QED BY <2>2, NameIsParts, Zenon
<1> QED BY <1>1, <1>2, <1>3

LEMMA SuffixOfName ==
  ASSUME NEW m \in FileType
  PROVE  SuffixSays(FileName(m), Len(UpToPosition(m)), m.detindex, m.frameindex, m.findex)
<1> DEFINE p == UpToPosition(m)
           q == UpToDetector(m)
           u == UpToFrame(m)
           w == FileName(m)
           d == m.detindex
           f == m.frameindex
           i == m.findex
           a == Len(p)
           D == d >= 0
           F == f >= 0
<1>1. D => IsLonger(q, p, Segment("d", d))
  BY PartsOfSuffix, Zenon DEF OneOrNone
<1>2. ~D => q = p
  BY PartsOfSuffix, Zenon DEF OneOrNone
<1>3. F => IsLonger(u, q, Segment("f", f))
  BY PartsOfSuffix, Zenon DEF OneOrNone
<1>4. ~F => u = q
  BY PartsOfSuffix, Zenon DEF OneOrNone
<1>5. IsLonger(w, u, Segment("", i))
  BY PartsOfSuffix, Zenon
<1>6. Len(p) \in Nat /\ Len(q) \in Nat /\ Len(u) \in Nat /\ Len(p) >= 1
  BY NameParts, LenPositive, Zenon
<1> HIDE DEF p, q, u, w, d, f, i, D, F
<1>7. /\ Says(Segment("d", d), "d", d) /\ Says(Segment("f", f), "f", f)
      /\ Says(Segment("", i), "", i)
  BY SegmentHas, Zenon DEF Says
<1>8. D /\ F => /\ Len(w) = a + 3 /\ Says(w[a + 1], "d", d)
                /\ Says(w[a + 2], "f", f) /\ Says(w[a + 3], "", i)
  <2> SUFFICES ASSUME D, F PROVE /\ Len(w) = a + 3 /\ Says(w[a + 1], "d", d)
                                 /\ Says(w[a + 2], "f", f) /\ Says(w[a + 3], "", i)
    BY Zenon
  <2>1. Len(q) = a + 1 /\ q[a + 1] = Segment("d", d)
    BY <1>1 DEF IsLonger
  <2>2. Len(u) = a + 2 /\ u[a + 2] = Segment("f", f) /\ u[a + 1] = q[a + 1]
    BY <1>3, <1>6, <2>1 DEF IsLonger
  <2>3. Len(w) = a + 3 /\ w[a + 3] = Segment("", i) /\ w[a + 2] = u[a + 2] /\ w[a + 1] = u[a + 1]
    <3>1. Len(u) + 1 = a + 3 /\ a + 1 \in 1..Len(u) /\ a + 2 \in 1..Len(u)
      BY <1>6, <2>2
    <3> QED BY <1>5, <3>1, Zenon DEF IsLonger
  <2> QED BY <1>7, <2>1, <2>2, <2>3, Zenon
<1>9. D /\ ~F => /\ Len(w) = a + 2 /\ Says(w[a + 1], "d", d) /\ Says(w[a + 2], "", i)
  <2> SUFFICES ASSUME D, ~F
               PROVE  Len(w) = a + 2 /\ Says(w[a + 1], "d", d) /\ Says(w[a + 2], "", i)
    BY Zenon
  <2>1. Len(u) = a + 1 /\ u[a + 1] = Segment("d", d)
    BY <1>1, <1>4 DEF IsLonger
  <2>2. Len(w) = a + 2 /\ w[a + 2] = Segment("", i) /\ w[a + 1] = u[a + 1]
    <3>1. Len(u) + 1 = a + 2 /\ a + 1 \in 1..Len(u)
      BY <1>6, <2>1
    <3> QED BY <1>5, <3>1, Zenon DEF IsLonger
  <2> QED BY <1>7, <2>1, <2>2, Zenon
<1>10. ~D /\ F => /\ Len(w) = a + 2 /\ Says(w[a + 1], "f", f) /\ Says(w[a + 2], "", i)
  <2> SUFFICES ASSUME ~D, F
               PROVE  Len(w) = a + 2 /\ Says(w[a + 1], "f", f) /\ Says(w[a + 2], "", i)
    BY Zenon
  <2>1. Len(u) = a + 1 /\ u[a + 1] = Segment("f", f)
    BY <1>2, <1>3 DEF IsLonger
  <2>2. Len(w) = a + 2 /\ w[a + 2] = Segment("", i) /\ w[a + 1] = u[a + 1]
    <3>1. Len(u) + 1 = a + 2 /\ a + 1 \in 1..Len(u)
      BY <1>6, <2>1
    <3> QED BY <1>5, <3>1, Zenon DEF IsLonger
  <2> QED BY <1>7, <2>1, <2>2, Zenon
<1>11. ~D /\ ~F => Len(w) = a + 1 /\ Says(w[a + 1], "", i)
  <2> SUFFICES ASSUME ~D, ~F PROVE Len(w) = a + 1 /\ Says(w[a + 1], "", i)
    BY Zenon
  <2>1. Len(w) = a + 1 /\ w[a + 1] = Segment("", i)
    BY <1>2, <1>4, <1>5 DEF IsLonger
  <2> QED BY <1>7, <2>1, Zenon
<1>12. SuffixSays(w, a, d, f, i)
  BY <1>8, <1>9, <1>10, <1>11, Zenon DEF SuffixSays, D, F
<1> QED BY <1>12, Zenon DEF w, p, d, f, i

\* Two files of the same position.
Placed(m, k) ==
  /\ m.root = k.root /\ m.scan0 = k.scan0 /\ m.sv0 = k.sv0 /\ m.scan1 = k.scan1
  /\ m.sv1 = k.sv1 /\ m.prec = k.prec /\ m.pindex = k.pindex /\ m.npos = k.npos

LEMMA SamePlace ==
  ASSUME NEW m, NEW k, Placed(m, k) PROVE UpToPosition(m) = UpToPosition(k)
BY Zenon DEF Placed, UpToPosition, UpToScan1, UpToScan0, IsPositioned

LEMMA NamesDiffer ==
  ASSUME NEW m \in FileType, NEW k \in FileType, Placed(m, k), FileName(m) = FileName(k)
  PROVE  m.detindex = k.detindex /\ m.frameindex = k.frameindex /\ m.findex = k.findex
<1> DEFINE w == FileName(m)
           a == Len(UpToPosition(m))
<1>1. SuffixSays(w, a, m.detindex, m.frameindex, m.findex)
  BY SuffixOfName, Zenon
<1>2. SuffixSays(w, a, k.detindex, k.frameindex, k.findex)
  BY SuffixOfName, SamePlace, Zenon
<1>3. a \in Nat
  BY NameParts, LenProperties
<1> HIDE DEF w, a
<1>4. /\ m.detindex \in Int /\ m.frameindex \in Int /\ m.findex \in Int
      /\ k.detindex \in Int /\ k.frameindex \in Int /\ k.findex \in Int
      /\ m.detindex >= -1 /\ k.detindex >= -1 /\ m.frameindex >= -1 /\ k.frameindex >= -1
  BY FileFields, Zenon
<1>5. SameSuffix(m.detindex, m.frameindex, m.findex, k.detindex, k.frameindex, k.findex)
  BY <1>1, <1>2, <1>3, <1>4, SuffixesDiffer, Zenon
<1> QED BY <1>5, Zenon DEF SameSuffix

-----------------------------------------------------------------------------
(* Two readings of one frame                                                   *)

LEMMA MissRead ==
  ASSUME NEW fname, NEW q \in Seq(Segs), q # <<>>, NEW format, ~Matches(Last(q), format[1]),
         Begins(fname, q), NEW st, NEW out, Left(st, Len(q), out)
  PROVE  Left(Scanned(fname, st, format), Len(q), out)
<1>1. Len(q) \in 1..Len(q)
  BY LenPositive
<1>2. fname[st.n] = Last(q)
  <2>1. fname[Len(q)] = q[Len(q)]
    BY <1>1 DEF Begins
  <2>2. st.n = Len(q)
    BY LeftHas, Zenon
  <2> QED BY <2>1, <2>2 DEF Last
<1>3. Scanned(fname, st, format) = st
  BY <1>2, ScannedMiss, Zenon
<1> QED BY <1>3, Zenon

LEMMA ClearMore ==
  ASSUME NEW q \in Seq(Segs), q # <<>>, Clear(q), NEW c, NEW t \in Tags, NEW v \in Int,
         NEW w, w = q \o Optional(c, t, v)
  PROVE  Clear(w)
<1>1. OneOrNone(q, w, c, t, v)
  BY PartAdded, Zenon
<1>2. CASE c
  <2>1. IsLonger(w, q, Segment(t, v))
    BY <1>1, <1>2, Zenon DEF OneOrNone
  <2>2. w \in Seq(Segs)
    BY AppendedIsSeq, Zenon
  <2>3. Len(q) \in Nat /\ DOMAIN q = 1..Len(q) /\ DOMAIN w = 1..Len(w)
    <3>1. Len(q) \in Nat /\ DOMAIN q = 1..Len(q)
      BY LenProperties
    <3>2. DOMAIN w = 1..Len(w)
      BY <2>2, LenProperties
    <3> QED BY <3>1, <3>2
  <2>4. Segment(t, v).num # <<>>
    BY DEF Segment
  <2>5. ASSUME NEW j \in DOMAIN w, w[j].tag \in {"", "p", "s", "S"} PROVE w[j].num # <<>>
    <3>1. j \in 1..(Len(q) + 1)
      BY <2>1, <2>3 DEF IsLonger
    <3>2. CASE j \in 1..Len(q)
      <4>1. w[j] = q[j]
        BY <2>1, <3>2, Zenon DEF IsLonger
      <4>2. q[j].tag \in {"", "p", "s", "S"} /\ j \in DOMAIN q
        BY <2>3, <2>5, <3>2, <4>1, Zenon
      <4>3. q[j].num # <<>>
        BY <4>2, Zenon DEF Clear
      <4> QED BY <4>1, <4>3, Zenon
    <3>3. CASE j = Len(q) + 1
      BY <2>1, <2>4, <3>3, Zenon DEF IsLonger
    <3>4. j \in 1..Len(q) \/ j = Len(q) + 1
      BY <2>3, <3>1
    <3> QED BY <3>2, <3>3, <3>4
  <2> QED BY <2>5, Zenon DEF Clear
<1>3. CASE ~c
  BY <1>1, <1>3, Zenon DEF OneOrNone
<1> QED BY <1>2, <1>3

\* No reader takes a part of a clear root for the detector.
NoDetector(q) == ~Matches(Last(q), "d")

LEMMA NoDetectorMore ==
  ASSUME NEW q \in Seq(Segs), q # <<>>, NoDetector(q), NEW c, NEW t \in Tags, t # "d",
         NEW v \in Int, NEW w, w = q \o Optional(c, t, v)
  PROVE  NoDetector(w)
<1>1. Last(w) \in {Segment(t, v), Last(q)}
  BY AppendedOptional, Zenon
<1>2. ~Matches(Segment(t, v), "d")
  BY DEF Matches, Segment
<1> QED BY <1>1, <1>2, Zenon DEF NoDetector

LEMMA ClearPosition ==
  ASSUME NEW m \in FileType, Clear(m.root)
  PROVE  /\ Clear(UpToPosition(m))
         /\ Last(m.root).tag # "d" => NoDetector(UpToPosition(m))
<1>1. "S" \in Tags /\ "s" \in Tags /\ "p" \in Tags /\ "S" # "d" /\ "s" # "d" /\ "p" # "d"
  BY DEF Tags
<1>2. m.root \in Seq(Segs) /\ m.root # <<>>
  BY FileFields, Zenon
<1> DEFINE a0 == Printed(m.sv0, m.prec)
           a1 == Printed(m.sv1, m.prec)
           c == IsPositioned(m)
<1>3. a0 \in Int /\ a1 \in Int /\ m.pindex \in Int
  BY FileFields, Zenon
<1>4. /\ UpToScan0(m) = m.root \o Optional(m.scan0, "S", a0)
      /\ UpToScan1(m) = UpToScan0(m) \o Optional(m.scan1, "s", a1)
      /\ UpToPosition(m) = UpToScan1(m) \o Optional(c, "p", m.pindex)
  BY Zenon DEF UpToScan0, UpToScan1, UpToPosition
<1> HIDE DEF a0, a1, c
<1>5. Clear(UpToPosition(m))
  <2>1. Clear(UpToScan0(m))
    BY <1>1, <1>2, <1>3, <1>4, ClearMore, Zenon
  <2>2. Clear(UpToScan1(m))
    BY <1>1, <1>3, <1>4, <2>1, NameParts, ClearMore, Zenon
  <2> QED BY <1>1, <1>3, <1>4, <2>2, NameParts, ClearMore, Zenon
<1>6. ASSUME Last(m.root).tag # "d" PROVE NoDetector(UpToPosition(m))
  <2>1. NoDetector(m.root)
    <3>1. Len(m.root) \in 1..Len(m.root) /\ DOMAIN m.root = 1..Len(m.root)
      BY <1>2, LenPositive, LenProperties
    <3>2. Last(m.root).tag = "" => Last(m.root).num # <<>>
      <4>1. Last(m.root) = m.root[Len(m.root)] /\ Len(m.root) \in DOMAIN m.root
        BY <3>1, Zenon DEF Last
      <4> QED BY <4>1 DEF Clear
    <3>3. [tag |-> "", num |-> <<>>].tag = "" /\ [tag |-> "", num |-> <<>>].num = <<>>
      OBVIOUS
    <3> QED BY <1>6, <3>2, <3>3, Zenon DEF NoDetector, Matches
  <2>2. NoDetector(UpToScan0(m))
    BY <1>1, <1>2, <1>3, <1>4, <2>1, NoDetectorMore, Zenon
  <2>3. NoDetector(UpToScan1(m))
    BY <1>1, <1>3, <1>4, <2>2, NameParts, NoDetectorMore, Zenon
  <2> QED BY <1>1, <1>3, <1>4, <2>3, NameParts, NoDetectorMore, Zenon
<1> QED BY <1>5, <1>6

\* What is known of the variables when the position is to be read.
AtPosition(st, m) ==
  /\ Fine(st) /\ st.n = Len(UpToPosition(m))
  /\ st.out["index"] = m.findex /\ st.out["f"] = m.frameindex
  /\ st.out["p"] = -1 /\ st.out["sv0"] = -1 /\ st.out["sv1"] = -1

LEMMA ReadToPosition ==
  ASSUME NEW m \in FileType, m.frameindex >= 0, NEW old, Named(old), NEW junk,
         m.detindex >= 0 \/ NoDetector(UpToPosition(m)),
         NEW g, FormatStates(FileName(m), old, junk, g)
  PROVE  Begins(FileName(m), UpToPosition(m)) /\ AtPosition(g[3], m)
<1> DEFINE w == FileName(m)
           o0 == Reset(old)
           o1 == Put(o0, "index", m.findex)
           o2 == Put(o1, "f", m.frameindex)
           o3 == Taken(m.detindex >= 0, o2, "det", m.detindex)
           c == m.detindex >= 0
<1>1. /\ g[0] = Start(w, o0, junk) /\ g[1] = Scanned(w, g[0], Formats[1])
      /\ g[2] = Scanned(w, g[1], Formats[2]) /\ g[3] = Scanned(w, g[2], Formats[3])
  BY Zenon DEF FormatStates
<1> HIDE DEF o0, o1, o2, o3, w
<1>2. Left(g[0], Len(w), o0)
  BY <1>1, StartIsLeft, Zenon
<1>3. Begins(w, UpToFrame(m)) /\ Left(g[1], Len(UpToFrame(m)), o1)
  BY <1>1, <1>2, IndexRead, FormatTexts, Zenon DEF w, o1
<1>4. Begins(w, UpToDetector(m)) /\ Left(g[2], Len(UpToDetector(m)), o2)
  <2> DEFINE b == m.frameindex >= 0
  <2>1. Begins(w, UpToDetector(m)) /\ Left(g[2], Len(UpToDetector(m)), Taken(b, o1, "f", m.frameindex))
    BY <1>1, <1>3, FrameRead, FormatTexts, Zenon
  <2>2. Taken(b, o1, "f", m.frameindex) = o2
    BY Zenon DEF Taken, o2
  <2> QED BY <2>1, <2>2, Zenon
<1>5. Begins(w, UpToPosition(m)) /\ Left(g[3], Len(UpToPosition(m)), o3)
  <2>1. CASE c
    BY <1>1, <1>4, <2>1, DetectorRead, FormatTexts, Zenon DEF o3
  <2>2. CASE ~c
    <3>1. NoDetector(UpToPosition(m))
      BY <2>2, Zenon
    <3>2. UpToDetector(m) = UpToPosition(m)
      BY <2>2, PartsOfSuffix, Zenon DEF OneOrNone
    <3>3. Begins(w, UpToPosition(m)) /\ Left(g[2], Len(UpToPosition(m)), o2)
      BY <1>4, <3>2, Zenon
    <3>4. UpToPosition(m) \in Seq(Segs) /\ UpToPosition(m) # <<>>
      BY NameParts, Zenon
    <3>5. ~Matches(Last(UpToPosition(m)), Formats[3][1])
      BY <3>1, FormatTexts, Zenon DEF NoDetector
    <3>6. Left(g[3], Len(UpToPosition(m)), o2)
      BY <1>1, <3>3, <3>4, <3>5, MissRead, Zenon
    <3>7. o3 = o2
      BY <2>2, Zenon DEF o3, Taken
    <3> QED BY <3>3, <3>6, <3>7, Zenon
  <2> QED BY <2>1, <2>2, Zenon
<1>6. Named(o0) /\ o0["p"] = -1 /\ o0["sv0"] = -1 /\ o0["sv1"] = -1
  BY ResetHas, Zenon DEF o0
<1>7. /\ "index" \in Variables /\ "f" \in Variables /\ "det" \in Variables
      /\ "p" \in Variables /\ "sv1" \in Variables /\ "sv0" \in Variables
  BY DEF Variables
<1>8. Changed(TRUE, o1, o0, "index", m.findex)
  BY <1>6, <1>7, PutHas, Zenon DEF o1
<1>9. Changed(TRUE, o2, o1, "f", m.frameindex)
  <2>1. Named(o1)
    BY <1>8, Zenon DEF Changed
  <2> QED BY <1>7, <2>1, PutHas, Zenon DEF o2
<1>10. Changed(c, o3, o2, "det", m.detindex)
  <2>1. Named(o2)
    BY <1>9, Zenon DEF Changed
  <2> QED BY <1>7, <2>1, TakenHas, Zenon DEF o3
<1>11. Named(o3) /\ Fine(g[3]) /\ g[3].out = o3 /\ g[3].n = Len(UpToPosition(m))
  <2>1. Named(o3)
    BY <1>10, Zenon DEF Changed
  <2> QED BY <1>5, <2>1, LeftIsFine, Zenon
<1>12. /\ o3["index"] = m.findex /\ o3["f"] = m.frameindex
       /\ o3["p"] = -1 /\ o3["sv0"] = -1 /\ o3["sv1"] = -1
  <2>1. o1["index"] = m.findex /\ \A u \in Variables \ {"index"} : o1[u] = o0[u]
    BY <1>8, Zenon DEF Changed
  <2>2. o2["f"] = m.frameindex /\ \A u \in Variables \ {"f"} : o2[u] = o1[u]
    BY <1>9, Zenon DEF Changed
  <2>3. \A u \in Variables \ {"det"} : o3[u] = o2[u]
    BY <1>10, Zenon DEF Changed
  <2> QED BY <1>6, <2>1, <2>2, <2>3 DEF Variables
<1> QED BY <1>5, <1>11, <1>12, Zenon DEF AtPosition, w
\* Two readers of names that begin alike see the same, and know the same but
\* for the detector; or both have come to an end of the root.
KnowTheSame(out, other) == \A u \in Variables \ {"det"} : out[u] = other[u]

Alike(st, other, fname, name, q) ==
  /\ Fine(st) /\ Fine(other) /\ KnowTheSame(st.out, other.out)
  /\ \/ st.n \in 1..Len(q) /\ other.n = st.n
     \/ st.n = Len(fname) /\ other.n = Len(name)

LEMMA SamePut ==
  ASSUME NEW out, Named(out), NEW other, Named(other), KnowTheSame(out, other), NEW v, NEW val
  PROVE  /\ KnowTheSame(Put(out, v, val), Put(other, v, val))
         /\ Named(Put(out, v, val)) /\ Named(Put(other, v, val))
<1>1. CASE v \in Variables
  <2>1. Changed(TRUE, Put(out, v, val), out, v, val)
    BY <1>1, PutHas, Zenon
  <2>2. Changed(TRUE, Put(other, v, val), other, v, val)
    BY <1>1, PutHas, Zenon
  <2> HIDE DEF Put
  <2> DEFINE a == Put(out, v, val)
             b == Put(other, v, val)
  <2>3. Named(a) /\ a[v] = val /\ \A u \in Variables \ {v} : a[u] = out[u]
    BY <2>1, Zenon DEF Changed
  <2>4. Named(b) /\ b[v] = val /\ \A u \in Variables \ {v} : b[u] = other[u]
    BY <2>2, Zenon DEF Changed
  <2> HIDE DEF a, b
  <2>5. ASSUME NEW u \in Variables \ {"det"} PROVE a[u] = b[u]
    <3>1. CASE u = v
      BY <2>3, <2>4, <3>1, Zenon
    <3>2. CASE u # v
      <4>1. a[u] = out[u] /\ b[u] = other[u]
        BY <2>3, <2>4, <2>5, <3>2, Zenon
      <4>2. out[u] = other[u]
        BY <2>5, Zenon DEF KnowTheSame
      <4> QED BY <4>1, <4>2, Zenon
    <3> QED BY <3>1, <3>2, Zenon
  <2>6. KnowTheSame(a, b)
    BY <2>5, Zenon DEF KnowTheSame
  <2> QED BY <2>3, <2>4, <2>6, Zenon DEF a, b
<1>2. CASE v \notin Variables
  BY <1>2, Zenon DEF Put
<1> QED BY <1>1, <1>2

\* The last segment of a name, to the formats of position and scans.
EndsInIndex(fname) ==
  fname \in Seq(Segs) /\ Len(fname) >= 2 /\ \E i : fname[Len(fname)] = Segment("", i)

LooksForPlace(format) == format[1] \in {"p", "s", "S"}

LEMMA AlikeScanned ==
  ASSUME NEW q \in Seq(Segs), q # <<>>, Clear(q),
         NEW fname, Begins(fname, q), EndsInIndex(fname),
         NEW name, Begins(name, q), EndsInIndex(name),
         NEW st, NEW other, Alike(st, other, fname, name, q),
         NEW format, LooksForPlace(format)
  PROVE  Alike(Scanned(fname, st, format), Scanned(name, other, format), fname, name, q)
<1>1. /\ Fine(st) /\ Fine(other) /\ KnowTheSame(st.out, other.out)
      /\ \/ st.n \in 1..Len(q) /\ other.n = st.n
         \/ st.n = Len(fname) /\ other.n = Len(name)
  BY Zenon DEF Alike
<1>2. /\ Left(st, st.n, st.out) /\ Named(st.out)
      /\ Left(other, other.n, other.out) /\ Named(other.out)
  BY <1>1, Zenon DEF Fine
<1>a. format[1] \in {"p", "s", "S"}
  BY DEF LooksForPlace
<1> DEFINE after == Scanned(fname, st, format)
           also == Scanned(name, other, format)
<1>3. CASE st.n \in 1..Len(q) /\ other.n = st.n
  <2> DEFINE n == st.n
             segment == q[n]
  <2>1. fname[n] = segment /\ name[n] = segment
    BY <1>3, Zenon DEF Begins
  <2>2. n \in 1..Len(q) /\ other.n = n
    BY <1>3
  <2>3. DOMAIN q = 1..Len(q) /\ Len(q) \in Nat
    BY LenProperties
  <2>4. Matches(segment, format[1]) => segment.num # <<>>
    <3>1. CASE segment.tag = format[1]
      <4>1. segment.tag \in {"", "p", "s", "S"}
        BY <1>a, <3>1
      <4> QED BY <2>2, <2>3, <4>1, Zenon DEF Clear
    <3>2. CASE segment = [tag |-> "", num |-> <<>>]
      <4>1. segment.tag \in {"", "p", "s", "S"}
        <5>1. [tag |-> "", num |-> <<>>].tag = ""
          OBVIOUS
        <5> QED BY <3>2, <5>1, Zenon
      <4> QED BY <2>2, <2>3, <4>1, Zenon DEF Clear
    <3> QED BY <3>1, <3>2, Zenon DEF Matches
  <2> HIDE DEF n, segment
  <2>5. CASE ~Matches(segment, format[1])
    <3>1. after = st
      BY <2>1, <2>5, ScannedMiss, Zenon DEF n
    <3>2. also = other
      BY <2>1, <2>2, <2>5, ScannedMiss, Zenon
    <3> QED BY <3>1, <3>2, Zenon
  <2>6. CASE Matches(segment, format[1])
    <3> DEFINE val == segment.num[1]
               a == Put(st.out, format[2], val)
               b == Put(other.out, format[2], val)
    <3>1. Matches(fname[n], format[1]) /\ fname[n].num # <<>> /\ fname[n].num[1] = val
      BY <2>1, <2>4, <2>6, Zenon
    <3>2. Matches(name[n], format[1]) /\ name[n].num # <<>> /\ name[n].num[1] = val
      BY <2>1, <2>4, <2>6, Zenon
    <3>3. Left(st, n, st.out) /\ Left(other, n, other.out)
      BY <1>2, <2>2, Zenon DEF n
    <3> HIDE DEF val
    <3>4. Left(after, Cut(fname, n), a)
      BY <3>1, <3>3, ScannedHit, Zenon
    <3>5. Left(also, Cut(name, n), b)
      BY <3>2, <3>3, ScannedHit, Zenon
    <3>6. KnowTheSame(a, b) /\ Named(a) /\ Named(b)
      BY <1>1, <1>2, SamePut, Zenon
    <3> HIDE DEF after, also, a, b
    <3>7. Fine(after) /\ after.out = a /\ after.n = Cut(fname, n)
      BY <3>4, <3>6, LeftIsFine, Zenon
    <3>8. Fine(also) /\ also.out = b /\ also.n = Cut(name, n)
      BY <3>5, <3>6, LeftIsFine, Zenon
    <3>9. CASE n = 1
      <4>1. Cut(fname, n) = Len(fname) /\ Cut(name, n) = Len(name)
        BY <3>9, Zenon DEF Cut
      <4> QED BY <3>6, <3>7, <3>8, <4>1, Zenon DEF Alike, after, also
    <3>10. CASE n # 1
      <4>1. Cut(fname, n) = n - 1 /\ Cut(name, n) = n - 1
        BY <3>10, Zenon DEF Cut
      <4>2. n - 1 \in 1..Len(q)
        BY <2>2, <2>3, <3>10
      <4>3. after.n \in 1..Len(q) /\ also.n = after.n
        BY <3>7, <3>8, <4>1, <4>2, Zenon
      <4> QED BY <3>6, <3>7, <3>8, <4>3, Zenon DEF Alike, after, also
    <3> QED BY <3>9, <3>10, Zenon
  <2> QED BY <2>5, <2>6, Zenon
<1>4. CASE st.n = Len(fname) /\ other.n = Len(name)
  <2>1. PICK i : fname[Len(fname)] = Segment("", i)
    BY Zenon DEF EndsInIndex
  <2>2. PICK j : name[Len(name)] = Segment("", j)
    BY Zenon DEF EndsInIndex
  <2>3. ~Matches(Segment("", i), format[1]) /\ ~Matches(Segment("", j), format[1])
    BY <1>a DEF Matches, Segment
  <2>4. after = st
    BY <1>4, <2>1, <2>3, ScannedMiss, Zenon
  <2>5. also = other
    BY <1>4, <2>2, <2>3, ScannedMiss, Zenon
  <2> QED BY <2>4, <2>5, Zenon
<1> QED BY <1>1, <1>3, <1>4, Zenon

LEMMA EndOfName == ASSUME NEW m \in FileType PROVE EndsInIndex(FileName(m))
BY NameIsLong, Zenon DEF EndsInIndex

ReadsAsFrame(k, before, rest, m, out) ==
  KnowTheSame(VariablesFromFileName(FileName(k), before, rest), out)
    <=> (k.frameindex = m.frameindex /\ k.findex = m.findex)

\* The names of two files of a position read as the same frame just when they
\* have the same frame and file index.
LEMMA SameFrameIsRead ==
  ASSUME NEW m \in FileType, m.frameindex >= 0, Clear(m.root),
         Last(m.root).tag = "d" => m.detindex >= 0, NEW old, Named(old), NEW junk,
         NEW k \in FileType, k.frameindex >= 0, k.detindex >= 0, Placed(m, k),
         NEW before, Named(before), NEW rest
  PROVE  ReadsAsFrame(k, before, rest, m, VariablesFromFileName(FileName(m), old, junk))
<1> DEFINE w == FileName(k)
           x == FileName(m)
           q == UpToPosition(m)
<1>1. PICK g : FormatStates(w, before, rest, g)
  BY NameIsLong, FormatsInTurn, Zenon
<1>2. PICK h : FormatStates(x, old, junk, h)
  BY NameIsLong, FormatsInTurn, Zenon
<1>3. q \in Seq(Segs) /\ q # <<>> /\ Clear(q)
  BY NameParts, ClearPosition, Zenon
<1>4. UpToPosition(k) = q
  BY SamePlace, Zenon
<1>5. m.detindex >= 0 \/ NoDetector(q)
  BY ClearPosition, Zenon
<1>6. Begins(w, q) /\ AtPosition(g[3], k)
  BY <1>1, <1>4, ReadToPosition, Zenon
<1>7. Begins(x, q) /\ AtPosition(h[3], m)
  BY <1>2, <1>5, ReadToPosition, Zenon
<1>8. EndsInIndex(w) /\ EndsInIndex(x)
  BY EndOfName, Zenon
<1>9. /\ g[4] = Scanned(w, g[3], Formats[4]) /\ h[4] = Scanned(x, h[3], Formats[4])
      /\ g[5] = Scanned(w, g[4], Formats[5]) /\ h[5] = Scanned(x, h[4], Formats[5])
      /\ g[6] = Scanned(w, g[5], Formats[6]) /\ h[6] = Scanned(x, h[5], Formats[6])
      /\ VariablesFromFileName(w, before, rest) = g[6].out
      /\ VariablesFromFileName(x, old, junk) = h[6].out
  BY <1>1, <1>2, Zenon DEF FormatStates
<1>10. g[6].out["index"] = k.findex /\ g[6].out["f"] = k.frameindex
  BY <1>9, IndexIsRead, Zenon
<1>11. h[6].out["index"] = m.findex /\ h[6].out["f"] = m.frameindex
  BY <1>9, IndexIsRead, Zenon
<1>12. ASSUME KnowTheSame(g[6].out, h[6].out)
       PROVE  k.frameindex = m.frameindex /\ k.findex = m.findex
  <2>1. "index" \in Variables \ {"det"} /\ "f" \in Variables \ {"det"}
    BY DEF Variables
  <2>2. g[6].out["index"] = h[6].out["index"] /\ g[6].out["f"] = h[6].out["f"]
    BY <1>12, <2>1, Zenon DEF KnowTheSame
  <2> QED BY <1>10, <1>11, <2>2, Zenon
<1>13. ASSUME k.frameindex = m.frameindex, k.findex = m.findex
       PROVE  KnowTheSame(g[6].out, h[6].out)
  <2> HIDE DEF w, x, q
  <2>1. KnowTheSame(g[3].out, h[3].out)
    <3>1. /\ g[3].out["index"] = h[3].out["index"] /\ g[3].out["f"] = h[3].out["f"]
          /\ g[3].out["p"] = h[3].out["p"] /\ g[3].out["sv0"] = h[3].out["sv0"]
          /\ g[3].out["sv1"] = h[3].out["sv1"]
      BY <1>6, <1>7, <1>13, Zenon DEF AtPosition
    <3>2. \A u \in Variables \ {"det"} : u \in {"index", "f", "p", "sv0", "sv1"}
      BY DEF Variables
    <3> QED BY <3>1, <3>2, Zenon DEF KnowTheSame
  <2>2. Alike(g[3], h[3], w, x, q)
    <3>1. g[3].n = Len(q) /\ h[3].n = Len(q) /\ Fine(g[3]) /\ Fine(h[3])
      BY <1>4, <1>6, <1>7, Zenon DEF AtPosition, q
    <3>2. Len(q) \in 1..Len(q)
      BY <1>3, LenPositive, Zenon
    <3> QED BY <2>1, <3>1, <3>2, Zenon DEF Alike
  <2>3. LooksForPlace(Formats[4]) /\ LooksForPlace(Formats[5]) /\ LooksForPlace(Formats[6])
    BY FormatTexts, Zenon DEF LooksForPlace
  <2>a. Begins(w, q) /\ Begins(x, q)
    BY <1>6, <1>7, Zenon
  <2>4. Alike(g[4], h[4], w, x, q)
    BY <1>3, <1>8, <1>9, <2>a, <2>2, <2>3, AlikeScanned, Zenon
  <2>5. Alike(g[5], h[5], w, x, q)
    BY <1>3, <1>8, <1>9, <2>a, <2>3, <2>4, AlikeScanned, Zenon
  <2>6. Alike(g[6], h[6], w, x, q)
    BY <1>3, <1>8, <1>9, <2>a, <2>3, <2>5, AlikeScanned, Zenon
  <2> QED BY <2>6, Zenon DEF Alike
<1> QED BY <1>9, <1>12, <1>13, Zenon DEF ReadsAsFrame

-----------------------------------------------------------------------------
(* The acquisition and its reader                                              *)

\* The inductive invariant: the file is one of the acquisition's, and variables
\* that are fresh were read from its name, over whatever they were before.
IsRead(out, m) ==
  \E old, junk : Named(old) /\ out = VariablesFromFileName(FileName(m), old, junk)

NamesInv ==
  /\ file \in FileType
  /\ Named(seen)
  /\ fresh \in BOOLEAN
  /\ fresh => IsRead(seen, file)

LEMMA UnsetIsNamed == Named(Unset)
BY DEF Named, Unset

LEMMA NamesInitInv == NamesInit => NamesInv
<1> SUFFICES ASSUME NamesInit PROVE NamesInv
  OBVIOUS
<1>1. MaxIndex \in Nat
  BY FileNamesConstants
<1>2. file \in FileType
  <2>1. {0} \subseteq 0..MaxIndex /\ {-1, 0} \subseteq -1..MaxIndex
    BY <1>1
  <2> QED BY <2>1 DEF NamesInit, FileType
<1>3. Named(seen)
  BY UnsetIsNamed, Zenon DEF NamesInit
<1> QED BY <1>2, <1>3 DEF NamesInit, NamesInv

LEMMA NamesNextInv == NamesInv /\ [NamesNext]_nameVars => NamesInv'
<1> SUFFICES ASSUME NamesInv, [NamesNext]_nameVars PROVE NamesInv'
  OBVIOUS
<1> USE DEF NamesInv
<1>1. MaxIndex \in Nat
  BY FileNamesConstants
<1>2. /\ file.frameindex \in -1..MaxIndex /\ file.detindex \in -1..MaxIndex
      /\ file.pindex \in 0..MaxIndex /\ file.findex \in 0..MaxIndex
  BY DEF FileType
<1>3. CASE NextFrame
  <2>1. file.frameindex + 1 \in -1..MaxIndex
    BY <1>1, <1>2, <1>3 DEF NextFrame
  <2>2. file' \in FileType
    BY <1>3, <2>1 DEF NextFrame, Write, FileType
  <2> QED BY <1>3, <2>2 DEF NextFrame, Write
<1>4. CASE NextDetector
  <2>1. file.detindex + 1 \in -1..MaxIndex
    BY <1>1, <1>2, <1>4 DEF NextDetector
  <2>2. file' \in FileType
    BY <1>4, <2>1 DEF NextDetector, Write, FileType
  <2> QED BY <1>4, <2>2 DEF NextDetector, Write
<1>5. CASE NextPosition
  <2>1. file.pindex + 1 \in 0..MaxIndex
    BY <1>1, <1>2, <1>5 DEF NextPosition
  <2>2. file' \in FileType
    BY <1>5, <2>1 DEF NextPosition, Write, FileType
  <2> QED BY <1>5, <2>2 DEF NextPosition, Write
<1>6. CASE NextFileIndex
  <2>1. file.findex + 1 \in 0..MaxIndex /\ -1 \in -1..MaxIndex
    BY <1>1, <1>2, <1>6 DEF NextFileIndex
  <2>2. file' \in FileType
    BY <1>6, <2>1 DEF NextFileIndex, Write, FileType
  <2> QED BY <1>6, <2>2 DEF NextFileIndex, Write
<1>7. CASE ReadVariables
  <2>1. PICK junk \in Junk : seen' = VariablesFromFileName(FileName(file), seen, junk)
    BY <1>7, Zenon DEF ReadVariables
  <2>2. file' = file /\ fresh' = TRUE
    BY <1>7, Zenon DEF ReadVariables
  <2>3. Named(seen')
    BY <2>1, ReadIsNamed, Zenon
  <2>4. IsRead(seen', file')
    BY <2>1, <2>2, Zenon DEF IsRead
  <2> QED BY <2>2, <2>3, <2>4
<1>8. CASE UNCHANGED nameVars
  BY <1>8 DEF nameVars
<1> QED BY <1>3, <1>4, <1>5, <1>6, <1>7, <1>8 DEF NamesNext, Written

\* A plain root: the variables are those of the file.
LEMMA VariablesAreRead == NamesInv => VariablesAreOfTheFile
<1> SUFFICES ASSUME NamesInv, fresh, Plain(file.root)
             PROVE  /\ seen.index = file.findex
                    /\ file.frameindex >= 0 => seen.f = file.frameindex
                    /\ file.detindex >= 0 => seen.det = file.detindex
                    /\ seen.p = IF Positioned THEN file.pindex ELSE -1
                    /\ seen.sv0 = IF file.scan0 THEN Printed(file.sv0, file.prec) ELSE -1
                    /\ seen.sv1 = IF file.scan1 THEN Printed(file.sv1, file.prec) ELSE -1
  BY Zenon DEF VariablesAreOfTheFile
<1>1. PICK old, junk : Named(old) /\ seen = VariablesFromFileName(FileName(file), old, junk)
  BY Zenon DEF NamesInv, IsRead
<1>2. Positioned = IsPositioned(file)
  BY Zenon DEF Positioned, IsPositioned
<1> DEFINE a0 == Printed(file.sv0, file.prec)
           a1 == Printed(file.sv1, file.prec)
<1>3. file \in FileType
  BY Zenon DEF NamesInv
<1>4. /\ seen["index"] = file.findex
      /\ file.frameindex >= 0 => seen["f"] = file.frameindex
      /\ file.detindex >= 0 => seen["det"] = file.detindex
      /\ seen["p"] = IF IsPositioned(file) THEN file.pindex ELSE -1
      /\ seen["sv0"] = IF file.scan0 THEN a0 ELSE -1
      /\ seen["sv1"] = IF file.scan1 THEN a1 ELSE -1
  <2>1. ReadsPlain(file, old, seen)
    BY <1>1, <1>3, PlainIsRead, Zenon
  <2> QED BY <2>1, Zenon DEF ReadsPlain
<1> HIDE DEF a0, a1
<1>5. /\ seen.index = seen["index"] /\ seen.f = seen["f"] /\ seen.det = seen["det"]
      /\ seen.p = seen["p"] /\ seen.sv0 = seen["sv0"] /\ seen.sv1 = seen["sv1"]
  OBVIOUS
<1> QED BY <1>2, <1>4, <1>5, Zenon DEF a0, a1

LEMMA MissingStay == NamesInv => MissingAreLeft
<1> SUFFICES ASSUME NamesInv, Plain(file.root), NEW junk \in Junk
             PROVE  LET again == VariablesFromFileName(FileName(file), seen, junk)
                    IN  /\ file.frameindex < 0 => again.f = seen.f
                        /\ file.detindex < 0 => again.det = seen.det
  BY Zenon DEF MissingAreLeft
<1> DEFINE again == VariablesFromFileName(FileName(file), seen, junk)
<1>1. file \in FileType /\ Named(seen)
  BY Zenon DEF NamesInv
<1>2. /\ file.frameindex < 0 => ~(file.frameindex >= 0)
      /\ file.detindex < 0 => ~(file.detindex >= 0)
  BY <1>1, FileFields
<1>3. /\ ~(file.frameindex >= 0) => again["f"] = seen["f"]
      /\ ~(file.detindex >= 0) => again["det"] = seen["det"]
  <2>1. ReadsPlain(file, seen, again)
    BY <1>1, PlainIsRead, Zenon
  <2> QED BY <2>1, Zenon DEF ReadsPlain
<1> HIDE DEF again
<1>4. again.f = again["f"] /\ again.det = again["det"] /\ seen.f = seen["f"] /\ seen.det = seen["det"]
  OBVIOUS
<1> QED BY <1>2, <1>3, <1>4, Zenon DEF again

LEMMA IndexesAgree == NamesInv => ReadersAgree
<1> SUFFICES ASSUME NamesInv, fresh
             PROVE  LET name == FileName(file)
                    IN  /\ seen.index = file.findex
                        /\ \A extension \in BOOLEAN :
                             FileIndexFromFileName(file, extension)
                               = IF extension \/ HasPoint(file) THEN seen.index ELSE -1
                        /\ \A junk \in Junk :
                             /\ FiveVariablesFromFileName(name, Unset, junk).index = seen.index
                             /\ ObjectVariablesFromFileName(name, seen, junk).f = seen.index
                             /\ file.frameindex >= 0 =>
                                  /\ FrameIndexFromFileName(name, junk) = seen.f
                                  /\ ObjectVariablesFromFileName(name, seen, junk).index = seen.f
  BY Zenon DEF ReadersAgree
<1>1. PICK old, junk : Named(old) /\ seen = VariablesFromFileName(FileName(file), old, junk)
  BY Zenon DEF NamesInv, IsRead
<1>2. file \in FileType /\ Named(seen)
  BY Zenon DEF NamesInv
<1>3. seen["index"] = file.findex /\ (file.frameindex >= 0 => seen["f"] = file.frameindex)
  BY <1>1, <1>2, IndexIsRead, Zenon
<1>4. seen.index = seen["index"] /\ seen.f = seen["f"]
  OBVIOUS
<1>5. seen.index = file.findex /\ (file.frameindex >= 0 => seen.f = file.frameindex)
  BY <1>3, <1>4, Zenon
<1>6. ASSUME NEW extension
      PROVE  FileIndexFromFileName(file, extension)
               = IF extension \/ HasPoint(file) THEN file.findex ELSE -1
  BY <1>2, FileIndexIsRead, Zenon
<1>7. ASSUME NEW rest \in Junk
      PROVE  /\ FiveVariablesFromFileName(FileName(file), Unset, rest).index = file.findex
             /\ ObjectVariablesFromFileName(FileName(file), seen, rest).f = file.findex
             /\ file.frameindex >= 0 =>
                  /\ FrameIndexFromFileName(FileName(file), rest) = file.frameindex
                  /\ ObjectVariablesFromFileName(FileName(file), seen, rest).index = file.frameindex
  <2> DEFINE o == ObjectVariablesFromFileName(FileName(file), seen, rest)
  <2>1. o["f"] = file.findex /\ (file.frameindex >= 0 => o["index"] = file.frameindex)
    BY <1>2, ObjectIndexIsRead, Zenon
  <2>2. o.f = o["f"] /\ o.index = o["index"]
    OBVIOUS
  <2> HIDE DEF o
  <2>3. o.f = file.findex /\ (file.frameindex >= 0 => o.index = file.frameindex)
    BY <2>1, <2>2, Zenon
  <2>4. /\ FiveVariablesFromFileName(FileName(file), Unset, rest).index = file.findex
        /\ file.frameindex >= 0 =>
             FrameIndexFromFileName(FileName(file), rest) = file.frameindex
    BY <1>2, UnsetIsNamed, FiveIndexIsRead, FrameIndexIsRead, Zenon
  <2> QED BY <2>3, <2>4, Zenon DEF o
<1> QED BY <1>5, <1>6, <1>7, Zenon

LEMMA RootsAreRead == NamesInv => RootIsReadBack
BY RootIsRead, Zenon DEF NamesInv, RootIsReadBack

\* Another file of the acquisition, at the same position.
IsOther(k, m, d, f, i) ==
  k \in FileType /\ Placed(m, k) /\ k.detindex = d /\ k.frameindex = f /\ k.findex = i

LEMMA OtherFile ==
  ASSUME NEW m \in FileType, NEW d \in -1..MaxIndex, NEW f \in -1..MaxIndex, NEW i \in 0..MaxIndex
  PROVE  IsOther([m EXCEPT !.detindex = d, !.frameindex = f, !.findex = i], m, d, f, i)
BY DEF FileType, Placed, IsOther

LEMMA FilesDiffer == NamesInv => FilesAreKeptApart
<1> SUFFICES ASSUME NamesInv, NEW d \in -1..MaxIndex, NEW f \in -1..MaxIndex, NEW i \in 0..MaxIndex,
                    FileName([file EXCEPT !.detindex = d, !.frameindex = f, !.findex = i])
                      = FileName(file)
             PROVE  [file EXCEPT !.detindex = d, !.frameindex = f, !.findex = i] = file
  BY Zenon DEF FilesAreKeptApart
<1> DEFINE k == [file EXCEPT !.detindex = d, !.frameindex = f, !.findex = i]
<1>1. file \in FileType
  BY Zenon DEF NamesInv
<1>2. k \in FileType /\ Placed(file, k) /\ k.detindex = d /\ k.frameindex = f /\ k.findex = i
  <2>1. IsOther(k, file, d, f, i)
    BY <1>1, OtherFile, Zenon
  <2> QED BY <2>1, Zenon DEF IsOther
<1>3. FileName(file) = FileName(k)
  BY Zenon
<1> HIDE DEF k
<1>4. file.detindex = k.detindex /\ file.frameindex = k.frameindex /\ file.findex = k.findex
  BY <1>1, <1>2, <1>3, NamesDiffer
<1>5. k = file
  BY <1>1, <1>2, <1>4 DEF FileType, Placed
<1> QED BY <1>5 DEF k

LEMMA FramesSame ==
  ASSUME NEW out, NEW other PROVE Frame(out) = Frame(other) <=> KnowTheSame(out, other)
BY DEF Frame, KnowTheSame

LEMMA FramesFound == NamesInv => FramesAreAssembled
<1> SUFFICES ASSUME NamesInv, fresh, file.frameindex >= 0, Clear(file.root),
                    Last(file.root).tag = "d" => file.detindex >= 0,
                    NEW d \in 0..MaxIndex, NEW f \in 0..MaxIndex, NEW i \in 0..MaxIndex,
                    NEW rest \in Junk
             PROVE  VerifySameFrame(
                      FileName([file EXCEPT !.detindex = d, !.frameindex = f, !.findex = i]),
                      seen, rest)
                    = (f = file.frameindex /\ i = file.findex)
  BY Zenon DEF FramesAreAssembled
<1> DEFINE k == [file EXCEPT !.detindex = d, !.frameindex = f, !.findex = i]
<1>1. file \in FileType
  BY Zenon DEF NamesInv
<1>2. PICK old, junk : Named(old) /\ seen = VariablesFromFileName(FileName(file), old, junk)
  BY Zenon DEF NamesInv, IsRead
<1>3. /\ k \in FileType /\ Placed(file, k)
      /\ k.detindex = d /\ k.frameindex = f /\ k.findex = i
  <2>1. d \in -1..MaxIndex /\ f \in -1..MaxIndex
    OBVIOUS
  <2>2. IsOther(k, file, d, f, i)
    BY <1>1, <2>1, OtherFile, Zenon
  <2> QED BY <2>2, Zenon DEF IsOther
<1>4. k.frameindex >= 0 /\ k.detindex >= 0
  BY <1>3
<1> HIDE DEF k
<1> DEFINE a == VariablesFromFileName(FileName(k), Unset, rest)
<1>5. KnowTheSame(a, seen) <=> (k.frameindex = file.frameindex /\ k.findex = file.findex)
  <2>1. ReadsAsFrame(k, Unset, rest, file, VariablesFromFileName(FileName(file), old, junk))
    BY <1>1, <1>2, <1>3, <1>4, SameFrameIsRead, UnsetIsNamed, Zenon
  <2> QED BY <1>2, <2>1, Zenon DEF ReadsAsFrame
<1>6. VerifySameFrame(FileName(k), seen, rest) <=> KnowTheSame(a, seen)
  <2>1. VerifySameFrame(FileName(k), seen, rest) <=> Frame(a) = Frame(seen)
    BY Zenon DEF VerifySameFrame
  <2> HIDE DEF a
  <2> QED BY <2>1, FramesSame
<1> HIDE DEF a
<1>7. VerifySameFrame(FileName(k), seen, rest) \in BOOLEAN
  BY Zenon DEF VerifySameFrame
<1>8. VerifySameFrame(FileName(k), seen, rest) <=> (f = file.frameindex /\ i = file.findex)
  BY <1>3, <1>5, <1>6, Zenon
<1>9. VerifySameFrame(FileName(k), seen, rest) = (f = file.frameindex /\ i = file.findex)
  BY <1>7, <1>8, Zenon
<1> QED BY <1>9, Zenon DEF k

\* The files of an acquisition are kept apart, and those of a frame put together.
THEOREM FramesKept == NamesSpec => []FramesAreKept
<1>1. NamesInv => FramesAreKept
  BY FilesDiffer, FramesFound, Zenon DEF FramesAreKept
<1> QED BY <1>1, NamesInitInv, NamesNextInv, PTL DEF NamesSpec

\* A name says what it was composed of to each of its readers, the way each of
\* them tells it.
THEOREM NamesRead == NamesSpec => []NamesAreReadBack
<1>1. NamesInv => NamesAreReadBack
  BY VariablesAreRead, MissingStay, IndexesAgree, RootsAreRead, Zenon DEF NamesAreReadBack
<1> QED BY <1>1, NamesInitInv, NamesNextInv, PTL DEF NamesSpec

-----------------------------------------------------------------------------
(* The loops over the lines of a data file                                     *)

\* The turns of the loop of a reader, one per line.
ReadStart == [got |-> <<>>, stop |-> FALSE]

ReadTurn(o, all, g, n) ==
  IF n = 0 THEN ReadStart
  ELSE IF o.kind = "double" THEN DoubleLine(o, g[n - 1], all[n]) ELSE IntLine(o, g[n - 1], all[n])

LastLine(o, all) == IF o.kind = "short" /\ all # <<>> THEN 1 ELSE Len(all)

ReadTurns(o, all, g) == g = [n \in 0..LastLine(o, all) |-> ReadTurn(o, all, g, n)]

LEMMA ChannelsAreOne ==
  ASSUME NEW o, NEW all
  PROVE  Channels(o, all) = (CHOOSE g : ReadTurns(o, all, g))[LastLine(o, all)].got
BY Zenon DEF Channels, ReadTurns, ReadTurn, ReadStart, LastLine

ReadStates(o, all, g) ==
  /\ \A n \in 0..LastLine(o, all) : g[n] = ReadTurn(o, all, g, n)
  /\ Channels(o, all) = g[LastLine(o, all)].got

LEMMA ChannelsUnfold ==
  ASSUME NEW o, NEW all, LastLine(o, all) \in Nat
  PROVE  \E g : ReadStates(o, all, g)
<1> DEFINE N == LastLine(o, all)
           Solves(g, m) == \A k \in 0..m : g[k] = ReadTurn(o, all, g, k)
           T == {m \in Nat : \E g : Solves(g, m)}
<1> HIDE DEF N
<1>1. 0 \in T
  <2>1. Solves([k \in {0} |-> ReadStart], 0)
    BY DEF ReadTurn
  <2> QED BY <2>1
<1>2. ASSUME NEW m \in Nat, m \in T PROVE m + 1 \in T
  <2>1. PICK g : Solves(g, m)
    BY <1>2
  <2> DEFINE last == ReadTurn(o, all, g, m + 1)
             h == [k \in 0..(m + 1) |-> IF k = m + 1 THEN last ELSE g[k]]
  <2> HIDE DEF last
  <2>2. \A k \in 0..m : h[k] = g[k]
    OBVIOUS
  <2>3. h[m + 1] = last
    OBVIOUS
  <2> HIDE DEF h
  <2>4. ASSUME NEW k \in 0..m PROVE h[k] = ReadTurn(o, all, h, k)
    <3>1. CASE k = 0
      BY <2>1, <2>2, <3>1 DEF ReadTurn
    <3>2. CASE k # 0
      <4>1. k - 1 \in 0..m
        BY <3>2
      <4>2. h[k - 1] = g[k - 1] /\ h[k] = g[k]
        BY <2>2, <4>1
      <4>3. g[k] = ReadTurn(o, all, g, k)
        BY <2>1
      <4>4. ReadTurn(o, all, h, k) = ReadTurn(o, all, g, k)
        BY <3>2, <4>2, Zenon DEF ReadTurn
      <4> QED BY <4>2, <4>3, <4>4, Zenon
    <3> QED BY <3>1, <3>2
  <2>5. h[m + 1] = ReadTurn(o, all, h, m + 1)
    <3>1. m + 1 # 0 /\ (m + 1) - 1 = m /\ m \in 0..m
      OBVIOUS
    <3>2. h[(m + 1) - 1] = g[(m + 1) - 1]
      BY <2>2, <3>1
    <3>3. ReadTurn(o, all, h, m + 1) = ReadTurn(o, all, g, m + 1)
      BY <3>1, <3>2, Zenon DEF ReadTurn
    <3> QED BY <2>3, <3>3, Zenon DEF last
  <2>6. \A k \in 0..(m + 1) : k \in 0..m \/ k = m + 1
    OBVIOUS
  <2>7. Solves(h, m + 1)
    BY <2>4, <2>5, <2>6
  <2> QED BY <2>7
<1>3. PICK g : Solves(g, N)
  <2> HIDE DEF T
  <2>1. \A n \in Nat : n \in T
    BY <1>1, <1>2, SetInduction
  <2> QED BY <2>1 DEF T, N
<1> DEFINE h == [k \in 0..N |-> g[k]]
<1>4. ASSUME NEW k \in 0..N PROVE ReadTurn(o, all, h, k) = g[k]
  <2>1. g[k] = ReadTurn(o, all, g, k)
    BY <1>3
  <2>2. k = 0 \/ h[k - 1] = g[k - 1]
    <3>1. N \in Nat
      BY DEF N
    <3>2. k = 0 \/ k - 1 \in 0..N
      BY <3>1
    <3> QED BY <3>2
  <2> HIDE DEF h
  <2>3. ReadTurn(o, all, h, k) = ReadTurn(o, all, g, k)
    <3>1. CASE k = 0
      BY <3>1, Zenon DEF ReadTurn
    <3>2. CASE k # 0
      BY <2>2, <3>2, Zenon DEF ReadTurn
    <3> QED BY <3>1, <3>2, Zenon
  <2> QED BY <2>1, <2>3, Zenon
<1>5. h = [k \in 0..N |-> ReadTurn(o, all, h, k)]
  BY <1>4
<1>6. \E f : ReadTurns(o, all, f)
  BY <1>5 DEF ReadTurns, N
<1>7. PICK f : ReadTurns(o, all, f) /\ Channels(o, all) = f[LastLine(o, all)].got
  BY <1>6, ChannelsAreOne, Zenon
<1>8. \A k \in 0..LastLine(o, all) : f[k] = ReadTurn(o, all, f, k)
  BY <1>7 DEF ReadTurns
<1> QED BY <1>7, <1>8, Zenon DEF ReadStates

-----------------------------------------------------------------------------
(* A reader that has got the first so many of what it wants                    *)

\* The first m of f.
FirstOf(f, m) == [j \in 1..m |-> f[j]]

LEMMA FirstOfIsSeq ==
  ASSUME NEW S, NEW f \in [Nat -> S], NEW m \in Nat
  PROVE  FirstOf(f, m) \in Seq(S) /\ Len(FirstOf(f, m)) = m
BY DEF FirstOf

IsFirstOf(s, f, m) == s = FirstOf(f, m)

LEMMA FirstOfAppended ==
  ASSUME NEW S, NEW f \in [Nat -> S], NEW m \in Nat
  PROVE  IsFirstOf(Append(FirstOf(f, m), f[m + 1]), f, m + 1)
<1> DEFINE s == FirstOf(f, m)
           t == FirstOf(f, m + 1)
           e == f[m + 1]
<1>1. s \in Seq(S) /\ Len(s) = m /\ t \in Seq(S) /\ Len(t) = m + 1 /\ e \in S
  BY FirstOfIsSeq
<1>2. (\A j \in 1..m : s[j] = f[j]) /\ (\A j \in 1..(m + 1) : t[j] = f[j])
  BY DEF FirstOf
<1> HIDE DEF s, t, e
<1>3. /\ Append(s, e) \in Seq(S) /\ Len(Append(s, e)) = m + 1
      /\ (\A j \in 1..m : Append(s, e)[j] = s[j]) /\ Append(s, e)[m + 1] = e
  BY <1>1, AppendProperties
<1>4. \A j \in 1..(m + 1) : Append(s, e)[j] = t[j]
  BY <1>2, <1>3 DEF e
<1>5. Append(s, e) = t
  BY <1>1, <1>3, <1>4, SeqEqual
<1> QED BY <1>5, Zenon DEF s, t, e, IsFirstOf

\* What a reader of ints does with a channel it gets.
MoreInts(st, c) == [st EXCEPT !.got = Append(@, c)]

\* The state of a reader: the first m of f, and whether the loop is left.
Has(st, f, m, b) == st \in [got : {FirstOf(f, m)}, stop : BOOLEAN] /\ (st.stop <=> b)

LEMMA HasWhat ==
  ASSUME NEW st, NEW f, NEW m, NEW b, Has(st, f, m, b)
  PROVE  /\ IsFirstOf(st.got, f, m)
         /\ b => st.stop
         /\ ~b => ~st.stop
<1> DEFINE x == FirstOf(f, m)
<1> HIDE DEF x
<1>1. st \in [got : {x}, stop : BOOLEAN] /\ (st.stop <=> b)
  BY Zenon DEF Has, x
<1>2. st.got = x
  BY <1>1
<1> QED BY <1>1, <1>2, Zenon DEF IsFirstOf, x

LEMMA StoppedHas ==
  ASSUME NEW st, NEW f, NEW m, NEW b, Has(st, f, m, b)
  PROVE  Has(Stopped(st), f, m, TRUE)
<1> DEFINE x == FirstOf(f, m)
<1> HIDE DEF x
<1>1. st \in [got : {x}, stop : BOOLEAN]
  BY Zenon DEF Has, x
<1>2. Stopped(st) \in [got : {x}, stop : BOOLEAN] /\ Stopped(st).stop
  BY <1>1 DEF Stopped
<1> QED BY <1>2, Zenon DEF Has, x

LEMMA MoreHas ==
  ASSUME NEW S, NEW f \in [Nat -> S], NEW st, NEW m \in Nat, NEW b, Has(st, f, m, b), NEW nch,
         NEW c, c = f[m + 1]
  PROVE  /\ Has(Got(st, c, nch), f, m + 1, m + 1 >= nch)
         /\ Has(MoreInts(st, c), f, m + 1, b)
<1> DEFINE x == FirstOf(f, m)
           y == FirstOf(f, m + 1)
           next == Got(st, c, nch)
           more == MoreInts(st, c)
<1>1. Append(x, c) = y
  <2>1. IsFirstOf(Append(FirstOf(f, m), f[m + 1]), f, m + 1)
    BY FirstOfAppended
  <2> QED BY <2>1, Zenon DEF IsFirstOf
<1>2. Len(x) = m
  BY FirstOfIsSeq
<1> HIDE DEF x, y
<1>3. st \in [got : {x}, stop : BOOLEAN] /\ (st.stop <=> b)
  BY Zenon DEF Has, x
<1>4. st.got = x
  BY <1>3
<1>5. next = [got |-> y, stop |-> m + 1 >= nch]
  BY <1>1, <1>2, <1>4, Zenon DEF Got
<1>6. next \in [got : {y}, stop : BOOLEAN] /\ (next.stop <=> m + 1 >= nch)
  <2> DEFINE z == m + 1 >= nch
  <2>1. z \in BOOLEAN
    OBVIOUS
  <2> HIDE DEF z
  <2>2. [got |-> y, stop |-> z] \in [got : {y}, stop : BOOLEAN] /\ ([got |-> y, stop |-> z].stop <=> z)
    BY <2>1
  <2>3. next = [got |-> y, stop |-> z]
    BY <1>5, Zenon DEF z
  <2> HIDE DEF next
  <2>4. next \in [got : {y}, stop : BOOLEAN] /\ (next.stop <=> z)
    BY <2>2, <2>3, Zenon
  <2> QED BY <2>4, Zenon DEF z
<1>7. more \in [got : {y}, stop : BOOLEAN] /\ (more.stop <=> b)
  BY <1>1, <1>3, <1>4 DEF MoreInts
<1>8. Has(next, f, m + 1, m + 1 >= nch)
  BY <1>6, Zenon DEF Has, y
<1>9. Has(more, f, m + 1, b)
  BY <1>7, Zenon DEF Has, y
<1> QED BY <1>8, <1>9

-----------------------------------------------------------------------------
(* Numbers as text                                                             *)

\* The tenths a double of a file has, an error the most.
WrittenTenths == {v \in Int : v <= 2 * Largest /\ -v <= 2 * Largest}

UnitOf(a, u) == a \div u < 10 * LeastOfSix /\ (u = 1 \/ a \div u >= LeastOfSix)

LEMMA UnitIs ==
  ASSUME NEW a \in Nat, a <= 2 * Largest
  PROVE  Unit(a) \in Units /\ UnitOf(a, Unit(a))
<1>1. \E u \in Units : UnitOf(a, u)
  <2>1. CASE a < 10 * LeastOfSix
    BY <2>1, SMT DEF UnitOf, LeastOfSix, Units
  <2>2. CASE a >= 10 * LeastOfSix /\ a < 100 * LeastOfSix
    BY <2>2, SMT DEF UnitOf, LeastOfSix, Units
  <2>3. CASE a >= 100 * LeastOfSix /\ a < 1000 * LeastOfSix
    BY <2>3, SMT DEF UnitOf, LeastOfSix, Units
  <2>4. CASE a >= 1000 * LeastOfSix /\ a < 10000 * LeastOfSix
    BY <2>4, SMT DEF UnitOf, LeastOfSix, Units
  <2>5. CASE a >= 10000 * LeastOfSix
    BY <2>5, SMT DEF UnitOf, Largest, LeastOfSix, Units
  <2> QED BY <2>1, <2>2, <2>3, <2>4, <2>5, SMT DEF LeastOfSix
<1>2. Unit(a) = CHOOSE u \in Units : UnitOf(a, u)
  BY Zenon DEF Unit, UnitOf
<1> QED BY <1>1, <1>2, Zenon

\* The nearest multiple of u is less than u, and at most the half of it, away.
NearestFacts(a, u, n) ==
  /\ n \in Nat /\ n % u = 0
  /\ 2 * (n - a) <= u /\ 2 * (a - n) <= u
  /\ n >= (a \div u) * u

LEMMA NearestIs ==
  ASSUME NEW a \in Nat, NEW u \in Units
  PROVE  NearestFacts(a, u, Nearest(a, u))
<1>1. CASE u = 1
  BY <1>1, SMT DEF NearestFacts, Nearest, Units
<1>2. CASE u = 10
  BY <1>2, SMT DEF NearestFacts, Nearest, Units
<1>3. CASE u = 100
  BY <1>3, SMT DEF NearestFacts, Nearest, Units
<1>4. CASE u = 1000
  BY <1>4, SMT DEF NearestFacts, Nearest, Units
<1>5. CASE u = 10000
  BY <1>5, SMT DEF NearestFacts, Nearest, Units
<1> QED BY <1>1, <1>2, <1>3, <1>4, <1>5 DEF Units

LEMMA MagnitudeIs ==
  ASSUME NEW v \in WrittenTenths
  PROVE  /\ v \in Int /\ Magnitude(v) \in Nat /\ Magnitude(v) <= 2 * Largest
         /\ WithSign(v, Magnitude(v)) = v
BY DEF WrittenTenths, Magnitude, WithSign

\* A double of up to six digits is shown as it is.
LEMMA FewDigitsStay ==
  ASSUME NEW v \in WrittenTenths, Magnitude(v) < 10 * LeastOfSix
  PROVE  SixDigits(v) = v
<1> DEFINE a == Magnitude(v)
           u == Unit(a)
           n == Nearest(a, u)
<1>1. a \in Nat /\ a <= 2 * Largest /\ a < 10 * LeastOfSix
  BY MagnitudeIs, Zenon
<1>2. SixDigits(v) = WithSign(v, n)
  BY Zenon DEF SixDigits
<1> HIDE DEF a
<1>3. u \in Units /\ UnitOf(a, u)
  BY <1>1, UnitIs, Zenon
<1>4. u = 1
  BY <1>1, <1>3, SMT DEF UnitOf, LeastOfSix, Units
<1>5. NearestFacts(a, u, n)
  BY <1>1, <1>3, NearestIs, Zenon
<1> HIDE DEF u, n
<1>6. n = a
  BY <1>1, <1>4, <1>5, SMT DEF NearestFacts, Units
<1> QED BY <1>2, <1>6, MagnitudeIs, Zenon DEF a

\* And one of more digits is within half a unit of the sixth.
LEMMA SixDigitsAreTheSame ==
  ASSUME NEW v \in WrittenTenths
  PROVE  SixDigits(v) \in Int /\ SameToSixDigits(SixDigits(v), v)
<1> DEFINE a == Magnitude(v)
           u == Unit(a)
           n == Nearest(a, u)
<1>1. v \in Int /\ a \in Nat /\ a <= 2 * Largest
  BY MagnitudeIs, Zenon
<1>2. CASE a < 10 * LeastOfSix
  BY <1>1, <1>2, FewDigitsStay DEF SameToSixDigits
<1>3. CASE ~(a < 10 * LeastOfSix)
  <2>1. SixDigits(v) = WithSign(v, n)
    BY Zenon DEF SixDigits
  <2>2. a = IF v >= 0 THEN v ELSE -v
    BY Zenon DEF Magnitude
  <2> HIDE DEF a
  <2>3. u \in Units /\ UnitOf(a, u)
    BY <1>1, UnitIs, Zenon
  <2>4. NearestFacts(a, u, n)
    BY <1>1, <2>3, NearestIs, Zenon
  <2> HIDE DEF u, n
  <2>5. n \in Nat /\ 2 * (n - a) <= u /\ 2 * (a - n) <= u
    BY <2>4, SMT DEF NearestFacts, Units
  <2>6. n - a <= a \div (2 * LeastOfSix) /\ a - n <= a \div (2 * LeastOfSix)
    BY <1>1, <1>3, <2>3, <2>5, SMT DEF UnitOf, LeastOfSix, Units
  <2>7. SixDigits(v) \in Int /\ Magnitude(SixDigits(v) - v) <= a \div (2 * LeastOfSix)
    BY <1>1, <2>1, <2>2, <2>5, <2>6 DEF WithSign, Magnitude
  <2> QED BY <1>3, <2>7, Zenon DEF SameToSixDigits, a
<1> QED BY <1>2, <1>3

LEMMA TruncatedIs ==
  ASSUME NEW v \in Int
  PROVE  /\ Truncated(v) \in Int
         /\ Truncated(Truncated(v)) = Truncated(v)
         /\ v >= 0 /\ v % 10 = 0 => Truncated(v) = v
BY DEF Truncated, Magnitude, WithSign

\* What an int reader takes of a number without an exponent, and leaves.
LEMMA PlainIsTaken ==
  ASSUME NEW n, ~n.exp
  PROVE  WholePart(n) = Truncated(n.v) /\ Remainder(n) = Magnitude(n.v) % 10
<1>1. Stop(n) = 10
  BY Zenon DEF Stop
<1> QED BY <1>1, Zenon DEF WholePart, Remainder, Truncated

LEMMA IntIsTaken ==
  ASSUME NEW v \in Int
  PROVE  /\ ~OfInt(v).exp /\ WholePart(OfInt(v)) = Truncated(v)
         /\ v % 10 = 0 => Remainder(OfInt(v)) = 0
<1>1. ~OfInt(v).exp /\ OfInt(v).v = v
  BY DEF OfInt
<1>2. WholePart(OfInt(v)) = Truncated(v) /\ Remainder(OfInt(v)) = Magnitude(v) % 10
  BY <1>1, PlainIsTaken, Zenon
<1>3. v % 10 = 0 => Magnitude(v) % 10 = 0
  BY DEF Magnitude
<1> QED BY <1>1, <1>2, <1>3, Zenon

LEMMA DoubleIsShown ==
  ASSUME NEW v
  PROVE  /\ OfDouble(v).v = SixDigits(v)
         /\ Magnitude(SixDigits(v)) >= Million => OfDouble(v).exp
         /\ ~(Magnitude(SixDigits(v)) >= Million) => ~OfDouble(v).exp
<1> DEFINE b == Magnitude(SixDigits(v)) >= Million
           s == SixDigits(v)
<1>1. OfDouble(v) = [v |-> s, exp |-> b]
  BY Zenon DEF OfDouble
<1>2. b = TRUE \/ b = FALSE
  OBVIOUS
<1> HIDE DEF b, s
<1>3. CASE b = TRUE
  <2>1. OfDouble(v) = [v |-> s, exp |-> TRUE]
    BY <1>1, <1>3, Zenon
  <2>2. OfDouble(v).v = s /\ OfDouble(v).exp = TRUE
    BY <2>1
  <2> QED BY <1>3, <2>2, Zenon DEF b, s
<1>4. CASE b = FALSE
  <2>1. OfDouble(v) = [v |-> s, exp |-> FALSE]
    BY <1>1, <1>4, Zenon
  <2>2. OfDouble(v).v = s /\ OfDouble(v).exp = FALSE
    BY <2>1
  <2> QED BY <1>4, <2>2, Zenon DEF b, s
<1> QED BY <1>2, <1>3, <1>4, Zenon

\* What an int reader takes of a double.
TakenOfDouble(v, x) ==
  LET a == Magnitude(v)
  IN  /\ a < 10 * LeastOfSix => x = Truncated(v)
      /\ ~(a < 10 * LeastOfSix) /\ a < Million - 5 => x % 10 = 0 /\ Magnitude(x - v) <= 5
      /\ ~(a < Million - 5) => Magnitude(x) \in {10 * digit : digit \in 1..9}

LEMMA DoubleIsTaken ==
  ASSUME NEW v \in Int, v <= Largest, -v <= Largest
  PROVE  TakenOfDouble(v, WholePart(OfDouble(v)))
<1> DEFINE a == Magnitude(v)
           u == Unit(a)
           n == Nearest(a, u)
           s == SixDigits(v)
           x == WholePart(OfDouble(v))
<1>0. v \in WrittenTenths /\ v \in Int
  BY SMT DEF WrittenTenths, Largest, LeastOfSix
<1>1. a \in Nat /\ a <= Largest /\ a <= 2 * Largest
  BY <1>0, SMT DEF Magnitude, Largest
<1>2. s = WithSign(v, n)
  BY Zenon DEF SixDigits
<1>3. OfDouble(v).v = s
  BY DoubleIsShown, Zenon
<1>4. a = IF v >= 0 THEN v ELSE -v
  BY Zenon DEF Magnitude
<1>5. u \in Units /\ UnitOf(a, u)
  <2> HIDE DEF a
  <2> QED BY <1>1, UnitIs, Zenon
<1>6. NearestFacts(a, u, n)
  <2> HIDE DEF a, u
  <2> QED BY <1>1, <1>5, NearestIs, Zenon
<1>7. CASE a < 10 * LeastOfSix
  <2>1. s = v
    BY <1>0, <1>7, FewDigitsStay, Zenon
  <2>2. ~(a >= Million)
    BY <1>1, <1>7, SMT DEF Million, LeastOfSix
  <2>3. ~OfDouble(v).exp
    BY <2>1, <2>2, DoubleIsShown, Zenon
  <2>4. x = Truncated(v)
    BY <1>3, <2>1, <2>3, PlainIsTaken, Zenon
  <2>5. a < Million - 5
    BY <1>1, <1>7, SMT DEF Million, LeastOfSix
  <2> QED BY <1>7, <2>4, <2>5, Zenon DEF TakenOfDouble
<1>8. CASE ~(a < 10 * LeastOfSix) /\ a < Million - 5
  <2> HIDE DEF a, u, n, s
  <2>1. u = 10
    BY <1>1, <1>5, <1>8, SMT DEF UnitOf, Million, LeastOfSix, Units
  <2>2. n \in Nat /\ n % 10 = 0 /\ n - a <= 5 /\ a - n <= 5
    BY <1>1, <1>6, <2>1, SMT DEF NearestFacts, Units
  <2>3. s \in Int /\ Magnitude(s) = n
    BY <1>0, <1>2, <1>4, <1>8, <2>2 DEF WithSign, Magnitude
  <2>4. ~(Magnitude(s) >= Million)
    BY <1>1, <1>8, <2>2, <2>3, SMT DEF Million, LeastOfSix
  <2>5. ~OfDouble(v).exp
    BY <2>4, DoubleIsShown, Zenon DEF s
  <2>6. x = Truncated(s)
    BY <1>3, <2>5, PlainIsTaken, Zenon
  <2>7. Truncated(s) = s
    BY <2>2, <2>3 DEF Truncated, WithSign, Magnitude
  <2>8. x % 10 = 0 /\ Magnitude(x - v) <= 5
    <3>1. s % 10 = 0 /\ Magnitude(s - v) <= 5
      BY <1>0, <1>2, <1>4, <2>2 DEF WithSign, Magnitude
    <3> QED BY <2>6, <2>7, <3>1, Zenon
  <2> QED BY <1>8, <2>8, Zenon DEF TakenOfDouble, a
<1>9. CASE ~(a < Million - 5)
  <2> HIDE DEF a, u, n, s
  <2> DEFINE y == Unit(n)
             k == n \div (LeastOfSix * y)
  <2>1. n \in Nat /\ n >= Million /\ n <= 2 * Largest
    <3>1. CASE u = 1
      BY <1>1, <1>5, <1>9, <3>1, SMT DEF UnitOf, Million, LeastOfSix, Units
    <3>2. CASE u = 10
      <4>1. a >= Million - 5 /\ a <= Million - 1
        BY <1>1, <1>5, <1>9, <3>2, SMT DEF UnitOf, Million, LeastOfSix, Units
      <4>2. n = Nearest(a, 10)
        BY <3>2 DEF n
      <4>3. n = Million
        BY <1>1, <4>1, <4>2, SMT DEF Nearest, Million, LeastOfSix
      <4> QED BY <4>3, SMT DEF Million, Largest, LeastOfSix
    <3>3. CASE u # 1 /\ u # 10
      BY <1>1, <1>5, <1>6, <3>3, SMT DEF UnitOf, NearestFacts, Million, Largest, LeastOfSix, Units
    <3> QED BY <3>1, <3>2, <3>3
  <2>2. y \in Units /\ UnitOf(n, y)
    <3> QED BY <2>1, UnitIs, Zenon
  <2>3. Magnitude(s) = n
    BY <1>0, <1>2, <1>4, <2>1, SMT DEF WithSign, Magnitude, Million, LeastOfSix
  <2>4. OfDouble(v).exp
    BY <2>1, <2>3, DoubleIsShown, Zenon DEF s
  <2>5. Stop(OfDouble(v)) = LeastOfSix * y
    BY <1>3, <2>3, <2>4, Zenon DEF Stop
  <2>6. x = WithSign(s, k * 10)
    BY <1>3, <2>3, <2>5, Zenon DEF WholePart
  <2>7. k \in 1..9
    <3> HIDE DEF y
    <3>1. y # 1
      BY <2>1, <2>2, SMT DEF UnitOf, Million, LeastOfSix, Units
    <3> QED BY <2>1, <2>2, <3>1, SMT DEF UnitOf, LeastOfSix, Units
  <2> HIDE DEF k, x, y
  <2>8. Magnitude(x) = 10 * k
    BY <2>6, <2>7 DEF WithSign, Magnitude
  <2>9. Magnitude(x) \in {10 * digit : digit \in 1..9}
    BY <2>7, <2>8
  <2>10. ~(a < 10 * LeastOfSix)
    BY <1>1, <1>9, SMT DEF Million, LeastOfSix
  <2> QED BY <1>9, <2>9, <2>10, Zenon DEF TakenOfDouble, a, x
<1> QED BY <1>7, <1>8, <1>9, Zenon

-----------------------------------------------------------------------------
(* The lines of a data file                                                    *)

\* What an acquisition writes.
DataFiles == DoubleFiles \cup IntFiles

LEMMA BoundedIsSeq ==
  ASSUME NEW S, NEW n \in Nat, NEW d \in BoundedSeq(S, n)
  PROVE  d \in Seq(S) /\ Len(d) \in 0..n /\ \A c \in 1..Len(d) : d[c] \in S
<1>1. PICK k \in 0..n : d \in [1..k -> S]
  BY DEF BoundedSeq, SeqOf
<1>2. d \in Seq(S) /\ Len(d) = k
  BY <1>1
<1> QED BY <1>1, <1>2

\* A double that is written.
InFile(v) == v \in Int /\ v <= Largest /\ -v <= Largest

LEMMA BetweenIsInFile == \A v \in -Largest..Largest : InFile(v)
<1>1. Largest \in Int
  BY SMT DEF Largest
<1> QED BY <1>1 DEF InFile

LEMMA DataFileHas ==
  ASSUME NEW w \in DataFiles
  PROVE  /\ Len(w.data) \in Nat /\ Len(w.data) <= Len(Angles)
         /\ \A c \in 1..Len(w.data) : w.data[c] \in Int /\ InFile(Angles[c])
         /\ w.format = "f" \/ w.err => \A c \in 1..Len(w.data) : InFile(w.data[c])
         /\ w.offset \in {0, 1} /\ w.format \in {"f", "i"} /\ w.err \in BOOLEAN /\ w.ang \in BOOLEAN
         /\ w.kind # "none"
<1>1. MaxChannels \in Nat /\ MaxChannels <= Len(Angles) /\ Angles \in Seq(-Largest..Largest)
  BY DataFileConstants, LenProperties
<1>2. /\ w.offset \in {0, 1} /\ w.format \in {"f", "i"} /\ w.err \in BOOLEAN /\ w.ang \in BOOLEAN
      /\ w.kind # "none"
      /\ \/ w.data \in BoundedSeq(Doubles, MaxChannels)
         \/ w.data \in BoundedSeq(Ints, MaxChannels) /\ w.format # "f" /\ ~w.err
  BY DEF DataFiles, DoubleFiles, IntFiles
<1>3. (\A v \in Doubles : InFile(v)) /\ (\A v \in Ints : v \in Int)
  BY DataFileConstants, BetweenIsInFile
<1>4. /\ Len(w.data) \in 0..MaxChannels
      /\ (\A c \in 1..Len(w.data) : w.data[c] \in Doubles) \/ (\A c \in 1..Len(w.data) : w.data[c] \in Ints)
      /\ w.format = "f" \/ w.err => \A c \in 1..Len(w.data) : w.data[c] \in Doubles
  BY <1>1, <1>2, BoundedIsSeq
<1>5. /\ \A c \in 1..Len(w.data) : w.data[c] \in Int
      /\ w.format = "f" \/ w.err => \A c \in 1..Len(w.data) : InFile(w.data[c])
  BY <1>3, <1>4, Zenon DEF InFile
<1>6. \A c \in 1..Len(w.data) : InFile(Angles[c])
  <2>1. \A c \in 1..Len(w.data) : c \in 1..Len(Angles)
    BY <1>1, <1>4
  <2>2. \A c \in 1..Len(Angles) : Angles[c] \in -Largest..Largest
    BY <1>1, ElementOfSeq, Zenon
  <2> QED BY <2>1, <2>2, BetweenIsInFile, Zenon
<1>7. Len(w.data) \in Nat /\ Len(w.data) <= Len(Angles)
  BY <1>1, <1>4
<1> QED BY <1>2, <1>5, <1>6, <1>7, Zenon

\* What follows the channel or its angle in a line.
LineRest(w, c) == IF w.err THEN <<Shown(w, c), OfDouble(Error(w, c))>> ELSE <<Shown(w, c)>>

LineSays(w, c, line) ==
  /\ line[1] = IF w.ang THEN OfDouble(Angles[c]) ELSE OfInt((c - 1 + w.offset) * 10)
  /\ Tail(line) = LineRest(w, c)

LEMMA PairAndOne ==
  ASSUME NEW a, NEW s, NEW e
  PROVE  Tail(<<a, s>> \o <<e>>) = <<s, e>> /\ (<<a, s>> \o <<e>>)[1] = a
<1> DEFINE S == {a, s, e}
           w == <<a, s>> \o <<e>>
<1>1. /\ <<a, s>> \in Seq(S) /\ Len(<<a, s>>) = 2 /\ <<a, s>>[1] = a /\ <<a, s>>[2] = s
      /\ <<e>> \in Seq(S) /\ Len(<<e>>) = 1 /\ <<e>>[1] = e
      /\ <<s, e>> \in Seq(S) /\ Len(<<s, e>>) = 2 /\ <<s, e>>[1] = s /\ <<s, e>>[2] = e
  OBVIOUS
<1>2. /\ w \in Seq(S) /\ Len(w) = 2 + 1
      /\ \A i \in 1..(2 + 1) : w[i] = IF i <= 2 THEN <<a, s>>[i] ELSE <<e>>[i - 2]
  <2> HIDE DEF S
  <2> QED BY <1>1, ConcatProperties
<1>3. w[1] = a /\ w[2] = s /\ w[3] = e
  BY <1>1, <1>2
<1>4. w # <<>>
  BY <1>2
<1> HIDE DEF w, S
<1>5. /\ Tail(w) \in Seq(S) /\ Len(Tail(w)) = Len(w) - 1
      /\ \A i \in 1..Len(Tail(w)) : Tail(w)[i] = w[i + 1]
  BY <1>2, <1>4, HeadTailProperties
<1>6. Len(Tail(w)) = 2 /\ \A i \in 1..2 : Tail(w)[i] = <<s, e>>[i]
  <2>1. Len(Tail(w)) = 2
    BY <1>2, <1>5
  <2>2. 1 \in 1..2 /\ 2 \in 1..2 /\ 1 + 1 = 2 /\ 2 + 1 = 3 /\ \A i \in 1..2 : i = 1 \/ i = 2
    OBVIOUS
  <2>3. \A i \in 1..2 : Tail(w)[i] = w[i + 1]
    BY <1>5, <2>1
  <2>4. Tail(w)[1] = w[1 + 1] /\ Tail(w)[2] = w[2 + 1]
    BY <2>2, <2>3, Zenon
  <2>5. Tail(w)[1] = s /\ Tail(w)[2] = e
    BY <1>3, <2>2, <2>4
  <2>6. <<s, e>>[1] = s /\ <<s, e>>[2] = e
    OBVIOUS
  <2> QED BY <2>1, <2>2, <2>5, <2>6, Zenon
<1>7. Tail(w) = <<s, e>>
  BY <1>1, <1>5, <1>6, SeqEqual
<1> QED BY <1>3, <1>7 DEF w

LEMMA LineIs ==
  ASSUME NEW w, NEW c PROVE LineSays(w, c, Line(w, c))
<1> DEFINE a == IF w.ang THEN OfDouble(Angles[c]) ELSE OfInt((c - 1 + w.offset) * 10)
           s == Shown(w, c)
           e == OfDouble(Error(w, c))
<1>1. CASE w.err
  <2>1. Line(w, c) = <<a, s>> \o <<e>> /\ LineRest(w, c) = <<s, e>>
    BY <1>1, Zenon DEF Line, LineRest
  <2> HIDE DEF a, s, e
  <2>2. Tail(<<a, s>> \o <<e>>) = <<s, e>> /\ (<<a, s>> \o <<e>>)[1] = a
    BY PairAndOne
  <2> QED BY <2>1, <2>2, Zenon DEF LineSays, a
<1>2. CASE ~w.err
  <2>1. Line(w, c) = <<a, s>> \o <<>> /\ LineRest(w, c) = <<s>>
    BY <1>2, Zenon DEF Line, LineRest
  <2> HIDE DEF a, s, e
  <2>2. <<a, s>> \o <<>> = <<a, s>>
    OBVIOUS
  <2>3. <<a, s>>[1] = a /\ Tail(<<a, s>>) = <<s>>
    OBVIOUS
  <2> QED BY <2>1, <2>2, <2>3, Zenon DEF LineSays, a
<1> QED BY <1>1, <1>2

LEMMA LineRestHas ==
  ASSUME NEW w, NEW c
  PROVE  /\ LineRest(w, c) # <<>> /\ LineRest(w, c)[1] = Shown(w, c)
         /\ w.err => ~(Len(LineRest(w, c)) < 2) /\ LineRest(w, c)[2] = OfDouble(Error(w, c))
         /\ ~w.err => Len(LineRest(w, c)) < 2
<1> DEFINE s == Shown(w, c)
           e == OfDouble(Error(w, c))
<1>1. CASE w.err
  <2>1. LineRest(w, c) = <<s, e>>
    BY <1>1, Zenon DEF LineRest
  <2> HIDE DEF s, e
  <2>2. <<s, e>> # <<>> /\ <<s, e>>[1] = s /\ <<s, e>>[2] = e /\ ~(Len(<<s, e>>) < 2)
    OBVIOUS
  <2> QED BY <1>1, <2>1, <2>2, Zenon DEF s, e
<1>2. CASE ~w.err
  <2>1. LineRest(w, c) = <<s>>
    BY <1>2, Zenon DEF LineRest
  <2> HIDE DEF s
  <2>2. <<s>> # <<>> /\ <<s>>[1] = s /\ Len(<<s>>) < 2
    OBVIOUS
  <2> QED BY <1>2, <2>1, <2>2, Zenon DEF s
<1> QED BY <1>1, <1>2

-----------------------------------------------------------------------------
(* One turn of a reader                                                        *)

\* The channels before the first one asked for.
FirstAsked(o, w) == IF o.ang \/ o.offset <= w.offset THEN 0 ELSE o.offset - w.offset

\* A reader that is called the way the file is written.
Suits(o, w) == o.offset \in {0, 1, 2} /\ o.ang \in BOOLEAN /\ o.ang = w.ang

\* What follows the channel is what the loop looks at; a line of a channel
\* before the first one asked for is passed over.
LineReads(o, w, c) ==
  /\ o.ang => Tail(Line(w, c)) = LineRest(w, c) /\ Line(w, c)[1] = OfDouble(Angles[c])
  /\ ~o.ang => /\ AfterInt(Line(w, c)) = LineRest(w, c)
               /\ Remainder(Line(w, c)[1]) = 0
               /\ WholePart(Line(w, c)[1]) < o.offset * 10 <=> c <= FirstAsked(o, w)

LEMMA LineRead ==
  ASSUME NEW w \in DataFiles, NEW c \in 1..Len(w.data), NEW o, Suits(o, w)
  PROVE  LineReads(o, w, c)
<1> DEFINE line == Line(w, c)
           n == (c - 1 + w.offset) * 10
<1>1. line[1] = (IF w.ang THEN OfDouble(Angles[c]) ELSE OfInt(n)) /\ Tail(line) = LineRest(w, c)
  BY LineIs, Zenon DEF LineSays
<1>a. o.offset \in {0, 1, 2} /\ o.ang \in BOOLEAN /\ o.ang = w.ang
  BY Zenon DEF Suits
<1>2. w.offset \in {0, 1} /\ c \in Nat /\ c >= 1
  BY DataFileHas
<1>3. n \in Int /\ n >= 0 /\ n % 10 = 0
  BY <1>2
<1>4. WholePart(OfInt(n)) = n /\ Remainder(OfInt(n)) = 0 /\ ~OfInt(n).exp
  <2> HIDE DEF n
  <2> QED BY <1>3, TruncatedIs, IntIsTaken, Zenon
<1> HIDE DEF line
<1>5. ASSUME o.ang PROVE Tail(line) = LineRest(w, c) /\ line[1] = OfDouble(Angles[c])
  BY <1>1, <1>5, <1>a, Zenon
<1>6. ASSUME ~o.ang
      PROVE  /\ AfterInt(line) = LineRest(w, c)
             /\ Remainder(line[1]) = 0
             /\ WholePart(line[1]) < o.offset * 10 <=> c <= FirstAsked(o, w)
  <2>1. line[1] = OfInt(n)
    BY <1>1, <1>6, <1>a, Zenon
  <2>2. Remainder(line[1]) = 0 /\ WholePart(line[1]) = n /\ ~line[1].exp
    BY <1>4, <2>1, Zenon
  <2>3. AfterInt(line) = LineRest(w, c)
    BY <1>1, <2>2, Zenon DEF AfterInt
  <2>4. n < o.offset * 10 <=> c <= FirstAsked(o, w)
    BY <1>2, <1>6, <1>a DEF FirstAsked
  <2> QED BY <2>2, <2>3, <2>4, Zenon
<1> QED BY <1>5, <1>6, Zenon DEF line, LineReads

\* The channel as a reader of doubles gets it.
Channel(o, w, c) ==
  [ang |-> IF o.ang THEN SixDigits(Angles[c]) ELSE 0, v |-> Shown(w, c).v,
   err |-> IF o.err THEN SixDigits(Error(w, c)) ELSE 0]

\* What a turn of a reader of doubles does, when it is to get what it is called
\* for, and when it wants errors the file does not have.
DoubleTurns(o, w, c, st) ==
  LET next == DoubleLine(o, st, Line(w, c))
  IN  /\ st.stop => next = Stopped(st)
      /\ ~st.stop /\ c <= FirstAsked(o, w) => next = st
      /\ ~st.stop /\ ~(c <= FirstAsked(o, w)) /\ (o.nch = 0 \/ (o.err /\ ~w.err)) =>
           next = Stopped(st)
      /\ ~st.stop /\ ~(c <= FirstAsked(o, w)) /\ o.nch # 0 /\ (o.err => w.err) =>
           next = Got(st, Channel(o, w, c), o.nch)

LEMMA DoubleTurn ==
  ASSUME NEW w \in DataFiles, NEW c \in 1..Len(w.data), NEW o, Suits(o, w), NEW st
  PROVE  DoubleTurns(o, w, c, st)
<1> DEFINE line == Line(w, c)
           rest == LineRest(w, c)
           first == FirstAsked(o, w)
           early == c <= first
           next == DoubleLine(o, st, line)
           given == IF o.ang THEN Tail(line) ELSE AfterInt(line)
           passed == ~o.ang /\ WholePart(line[1]) < o.offset * 10
           short == Len(rest) < 2
<1>1. /\ o.ang => Tail(line) = rest /\ line[1] = OfDouble(Angles[c])
      /\ ~o.ang => /\ AfterInt(line) = rest
                   /\ WholePart(line[1]) < o.offset * 10 <=> early
  <2>1. LineReads(o, w, c)
    BY LineRead, Zenon
  <2> QED BY <2>1, Zenon DEF LineReads
<1>2. /\ rest # <<>> /\ rest[1] = Shown(w, c)
      /\ w.err => ~short /\ rest[2] = OfDouble(Error(w, c))
      /\ ~w.err => short
  BY LineRestHas, Zenon
<1>3. o.ang => ~early
  <2>1. o.ang => first = 0
    BY Zenon DEF FirstAsked
  <2>2. ~(c <= 0)
    OBVIOUS
  <2> QED BY <2>1, <2>2, Zenon
<1>4. OfDouble(Angles[c]).v = SixDigits(Angles[c]) /\ OfDouble(Error(w, c)).v = SixDigits(Error(w, c))
  BY DoubleIsShown, Zenon
<1> HIDE DEF line, rest, early, short
<1>5. given = rest
  BY <1>1, Zenon
<1>6. passed <=> early
  BY <1>1, <1>3, Zenon
<1>7. next =
        IF st.stop \/ given = <<>> THEN Stopped(st)
        ELSE IF passed THEN st
        ELSE IF (o.err /\ Len(given) < 2) \/ o.nch = 0 THEN Stopped(st)
        ELSE Got(st, [ang |-> IF o.ang THEN line[1].v ELSE 0, v |-> given[1].v,
                      err |-> IF o.err THEN given[2].v ELSE 0], o.nch)
  BY Zenon DEF DoubleLine
<1> HIDE DEF next, given, passed
<1>8. st.stop => next = Stopped(st)
  BY <1>7, Zenon
<1>9. ~st.stop /\ early => next = st
  BY <1>2, <1>5, <1>6, <1>7, Zenon
<1>10. ~st.stop /\ ~early /\ (o.nch = 0 \/ (o.err /\ ~w.err)) => next = Stopped(st)
  BY <1>2, <1>5, <1>6, <1>7, Zenon DEF short
<1>11. ASSUME ~st.stop, ~early, o.nch # 0, o.err => w.err
       PROVE  next = Got(st, Channel(o, w, c), o.nch)
  <2> DEFINE a == IF o.ang THEN line[1].v ELSE 0
             e == IF o.err THEN given[2].v ELSE 0
  <2>1. next = Got(st, [ang |-> a, v |-> given[1].v, err |-> e], o.nch)
    BY <1>2, <1>5, <1>6, <1>7, <1>11, Zenon DEF short
  <2>2. a = IF o.ang THEN SixDigits(Angles[c]) ELSE 0
    BY <1>1, <1>4, Zenon
  <2>3. e = IF o.err THEN SixDigits(Error(w, c)) ELSE 0
    BY <1>2, <1>4, <1>5, <1>11, Zenon
  <2>4. given[1].v = Shown(w, c).v
    BY <1>2, <1>5, Zenon
  <2> HIDE DEF a, e
  <2>5. [ang |-> a, v |-> given[1].v, err |-> e] = Channel(o, w, c)
    BY <2>2, <2>3, <2>4, Zenon DEF Channel
  <2> QED BY <2>1, <2>5, Zenon
<1> QED BY <1>8, <1>9, <1>10, <1>11, Zenon DEF next, line, early, DoubleTurns

\* The channel as a reader of ints gets it.
IntChannel(w, c) == [ang |-> 0, v |-> WholePart(Shown(w, c)), err |-> 0]

IntTurns(o, w, c, st) ==
  LET next == IntLine(o, st, Line(w, c))
      full == Len(st.got) >= o.nch
  IN  /\ st.stop \/ full => next = Stopped(st)
      /\ ~st.stop /\ ~full /\ c <= FirstAsked(o, w) => next = st
      /\ ~st.stop /\ ~full /\ ~(c <= FirstAsked(o, w)) => next = MoreInts(st, IntChannel(w, c))

LEMMA IntTurn ==
  ASSUME NEW w \in DataFiles, NEW c \in 1..Len(w.data), NEW o,
         Suits(o, w), ~o.ang, o.kind = "int", NEW st
  PROVE  IntTurns(o, w, c, st)
<1> DEFINE line == Line(w, c)
           rest == LineRest(w, c)
           early == c <= FirstAsked(o, w)
           full == Len(st.got) >= o.nch
           passed == WholePart(line[1]) < o.offset * 10
           v == WholePart(rest[1])
           next == IntLine(o, st, line)
<1>1. AfterInt(line) = rest /\ Remainder(line[1]) = 0 /\ (passed <=> early)
  <2>1. LineReads(o, w, c)
    BY LineRead, Zenon
  <2> QED BY <2>1, Zenon DEF LineReads
<1>2. rest # <<>> /\ rest[1] = Shown(w, c)
  BY LineRestHas, Zenon
<1>3. v = WholePart(Shown(w, c))
  BY <1>2, Zenon
<1> HIDE DEF line, rest, early, full, passed
<1>4. "int" # "short"
  OBVIOUS
<1>5. next =
        IF st.stop \/ AfterInt(line) = <<>> \/ Remainder(line[1]) # 0
             \/ (o.kind = "short" /\ ~Fits(WholePart(AfterInt(line)[1]))) \/ full
        THEN Stopped(st)
        ELSE IF passed THEN st
        ELSE [st EXCEPT !.got = Append(@, [ang |-> 0, v |-> WholePart(AfterInt(line)[1]), err |-> 0])]
  BY Zenon DEF IntLine, full, passed
<1>6. WholePart(AfterInt(line)[1]) = v
  BY <1>1, Zenon
<1> HIDE DEF next, v
<1>7. st.stop \/ full => next = Stopped(st)
  BY <1>5, Zenon
<1>8. ~st.stop /\ ~full /\ early => next = st
  BY <1>1, <1>2, <1>4, <1>5, Zenon
<1>9. ASSUME ~st.stop, ~full, ~early
      PROVE  next = MoreInts(st, IntChannel(w, c))
  <2>1. next = [st EXCEPT !.got = Append(@, [ang |-> 0, v |-> v, err |-> 0])]
    BY <1>1, <1>2, <1>4, <1>5, <1>6, <1>9, Zenon
  <2>2. [ang |-> 0, v |-> v, err |-> 0] = IntChannel(w, c)
    BY <1>3, Zenon DEF IntChannel
  <2> QED BY <2>1, <2>2, Zenon DEF MoreInts
<1> QED BY <1>7, <1>8, <1>9, Zenon DEF next, line, full, early, IntTurns

-----------------------------------------------------------------------------
(* What a reader has got after so many lines                                   *)

Wanted(o, w) == [j \in Nat |-> Channel(o, w, j + FirstAsked(o, w))]
WantedInts(o, w) == [j \in Nat |-> IntChannel(w, j + FirstAsked(o, w))]

\* The channels of the first n that are asked for.
Filled(n, first, nch) == IF n <= first THEN 0 ELSE Smaller(nch, n - first)

LEMMA WantedHas ==
  ASSUME NEW o, NEW w, NEW first, first = FirstAsked(o, w), NEW j \in Nat, NEW c, c = j + first
  PROVE  Wanted(o, w)[j] = Channel(o, w, c) /\ WantedInts(o, w)[j] = IntChannel(w, c)
BY DEF Wanted, WantedInts

LEMMA WantedIsOnNat ==
  ASSUME NEW o, NEW w
  PROVE  (\E S : Wanted(o, w) \in [Nat -> S]) /\ (\E S : WantedInts(o, w) \in [Nat -> S])
<1> DEFINE f == Wanted(o, w)
           h == WantedInts(o, w)
<1>1. f \in [Nat -> {f[j] : j \in Nat}]
  BY DEF Wanted
<1>2. h \in [Nat -> {h[j] : j \in Nat}]
  BY DEF WantedInts
<1> HIDE DEF f, h
<1> QED BY <1>1, <1>2, Zenon DEF f, h

FilledFacts(n, first, nch) ==
  LET m == Filled(n, first, nch)
      next == Filled(n + 1, first, nch)
  IN  /\ m \in Nat /\ m <= nch /\ next \in Nat
      /\ m = nch => next = nch
      /\ n + 1 <= first => next = m
      /\ nch = 0 => next = nch
      /\ ~(n + 1 <= first) /\ m < nch => next = m + 1 /\ (m + 1) + first = n + 1
      /\ ~(n + 1 <= first) /\ n <= first /\ nch # 0 => m < nch

LEMMA FilledIs ==
  ASSUME NEW n \in Nat, NEW first \in Nat, NEW nch \in Nat
  PROVE  FilledFacts(n, first, nch)
BY DEF FilledFacts, Filled, Smaller

LEMMA FirstAskedIs ==
  ASSUME NEW o, NEW w \in DataFiles, Suits(o, w) PROVE FirstAsked(o, w) \in Nat
BY DataFileHas DEF FirstAsked, Suits

DoubleAt(st, o, w, n) ==
  LET m == Filled(n, FirstAsked(o, w), o.nch)
  IN  \E b \in BOOLEAN :
        /\ Has(st, Wanted(o, w), m, b)
        /\ b => m = o.nch
        /\ ~b => n <= FirstAsked(o, w) \/ m < o.nch

LEMMA DoubleStep ==
  ASSUME NEW o, NEW w \in DataFiles, Suits(o, w), o.nch \in Nat, o.err => w.err,
         NEW n \in Nat, NEW c \in 1..Len(w.data), c = n + 1, NEW st, DoubleAt(st, o, w, n)
  PROVE  DoubleAt(DoubleLine(o, st, Line(w, c)), o, w, c)
<1> DEFINE first == FirstAsked(o, w)
           m == Filled(n, first, o.nch)
           k == Filled(c, first, o.nch)
           f == Wanted(o, w)
           next == DoubleLine(o, st, Line(w, c))
           early == c <= first
           nch == o.nch
<1>1. PICK b \in BOOLEAN : Has(st, f, m, b) /\ (b => m = nch) /\ (~b => n <= first \/ m < nch)
  BY Zenon DEF DoubleAt
<1>2. (b => st.stop) /\ (~b => ~st.stop)
  BY <1>1, HasWhat, Zenon
<1>3. first \in Nat /\ nch \in Nat
  BY FirstAskedIs, Zenon
<1>4. /\ m \in Nat /\ m <= nch /\ k \in Nat
      /\ m = nch => k = nch
      /\ early => k = m
      /\ nch = 0 => k = nch
      /\ ~early /\ m < nch => k = m + 1 /\ (m + 1) + first = c
      /\ ~early /\ n <= first /\ nch # 0 => m < nch
  <2>1. FilledFacts(n, first, nch)
    BY <1>3, FilledIs, Zenon
  <2> QED BY <2>1, Zenon DEF FilledFacts
<1>5. /\ st.stop => next = Stopped(st)
      /\ ~st.stop /\ early => next = st
      /\ ~st.stop /\ ~early /\ nch = 0 => next = Stopped(st)
      /\ ~st.stop /\ ~early /\ nch # 0 => next = Got(st, Channel(o, w, c), nch)
  <2>1. DoubleTurns(o, w, c, st)
    BY DoubleTurn, Zenon
  <2> QED BY <2>1, Zenon DEF DoubleTurns
<1>6. Has(Stopped(st), f, m, TRUE)
  BY <1>1, StoppedHas, Zenon
<1>7. SUFFICES \E x \in BOOLEAN : Has(next, f, k, x) /\ (x => k = nch) /\ (~x => c <= first \/ k < nch)
  BY Zenon DEF DoubleAt
<1> HIDE DEF first, m, k, f, next, nch
<1>8. CASE b
  BY <1>1, <1>2, <1>4, <1>5, <1>6, <1>8, Zenon
<1>9. CASE ~b /\ early
  BY <1>1, <1>2, <1>4, <1>5, <1>9, Zenon
<1>10. CASE ~b /\ ~early /\ nch = 0
  <2>1. m = nch
    BY <1>4, <1>10
  <2> QED BY <1>2, <1>4, <1>5, <1>6, <1>10, <2>1, Zenon
<1>11. CASE ~b /\ ~early /\ nch # 0
  <2>1. m < nch
    BY <1>1, <1>4, <1>11, Zenon
  <2>2. k = m + 1 /\ (m + 1) + first = c /\ m + 1 \in Nat
    BY <1>4, <1>11, <2>1
  <2>3. f[m + 1] = Channel(o, w, c)
    <3>1. Wanted(o, w)[m + 1] = Channel(o, w, c)
      <4>1. c = (m + 1) + first /\ first = FirstAsked(o, w)
        BY <2>2 DEF first
      <4> QED BY <2>2, <4>1, WantedHas
    <3> QED BY <3>1, Zenon DEF f
  <2>4. PICK S : f \in [Nat -> S]
    BY WantedIsOnNat, Zenon DEF f
  <2>5. Has(Got(st, Channel(o, w, c), nch), f, m + 1, m + 1 >= nch)
    BY <1>1, <1>4, <2>3, <2>4, MoreHas, Zenon
  <2> DEFINE x == m + 1 >= nch
  <2>6. x \in BOOLEAN /\ (x => k = nch) /\ (~x => k < nch)
    BY <1>3, <1>4, <2>1, <2>2 DEF nch
  <2>7. next = Got(st, Channel(o, w, c), nch)
    BY <1>2, <1>5, <1>11, Zenon
  <2>8. Has(next, f, k, x)
    BY <2>2, <2>5, <2>7, Zenon
  <2> HIDE DEF x
  <2> QED BY <2>6, <2>8, Zenon
<1> QED BY <1>8, <1>9, <1>10, <1>11, Zenon

\* A reader that wants errors the file does not have.
RefusedAt(st, o, w) == \E b \in BOOLEAN : Has(st, Wanted(o, w), 0, b)

LEMMA RefusedStep ==
  ASSUME NEW o, NEW w \in DataFiles, Suits(o, w), o.err, ~w.err,
         NEW c \in 1..Len(w.data), NEW st, RefusedAt(st, o, w)
  PROVE  RefusedAt(DoubleLine(o, st, Line(w, c)), o, w)
<1> DEFINE next == DoubleLine(o, st, Line(w, c))
           early == c <= FirstAsked(o, w)
<1>1. PICK b \in BOOLEAN : Has(st, Wanted(o, w), 0, b)
  BY Zenon DEF RefusedAt
<1>2. /\ st.stop => next = Stopped(st)
      /\ ~st.stop /\ early => next = st
      /\ ~st.stop /\ ~early => next = Stopped(st)
  <2>1. DoubleTurns(o, w, c, st)
    BY DoubleTurn, Zenon
  <2> QED BY <2>1, Zenon DEF DoubleTurns
<1>3. Has(Stopped(st), Wanted(o, w), 0, TRUE)
  BY <1>1, StoppedHas, Zenon
<1> HIDE DEF next, early
<1>4. \E x \in BOOLEAN : Has(next, Wanted(o, w), 0, x)
  BY <1>1, <1>2, <1>3, Zenon
<1> QED BY <1>4, Zenon DEF RefusedAt, next

IntAt(st, o, w, n) ==
  LET m == Filled(n, FirstAsked(o, w), o.nch)
  IN  \E b \in BOOLEAN : Has(st, WantedInts(o, w), m, b) /\ (b => m = o.nch)

LEMMA IntStep ==
  ASSUME NEW o, NEW w \in DataFiles, Suits(o, w), ~o.ang, o.kind = "int", o.nch \in Nat,
         NEW n \in Nat, NEW c \in 1..Len(w.data), c = n + 1, NEW st, IntAt(st, o, w, n)
  PROVE  IntAt(IntLine(o, st, Line(w, c)), o, w, c)
<1> DEFINE first == FirstAsked(o, w)
           m == Filled(n, first, o.nch)
           k == Filled(c, first, o.nch)
           f == WantedInts(o, w)
           next == IntLine(o, st, Line(w, c))
           early == c <= first
           nch == o.nch
           full == Len(st.got) >= nch
<1>1. PICK b \in BOOLEAN : Has(st, f, m, b) /\ (b => m = nch)
  BY Zenon DEF IntAt
<1>2. (b => st.stop) /\ (~b => ~st.stop) /\ IsFirstOf(st.got, f, m)
  BY <1>1, HasWhat, Zenon
<1>3. first \in Nat /\ nch \in Nat
  BY FirstAskedIs, Zenon
<1>4. /\ m \in Nat /\ m <= nch /\ k \in Nat
      /\ m = nch => k = nch
      /\ early => k = m
      /\ ~early /\ m < nch => k = m + 1 /\ (m + 1) + first = c
  <2>1. FilledFacts(n, first, nch)
    BY <1>3, FilledIs, Zenon
  <2> QED BY <2>1, Zenon DEF FilledFacts
<1>5. /\ st.stop \/ full => next = Stopped(st)
      /\ ~st.stop /\ ~full /\ early => next = st
      /\ ~st.stop /\ ~full /\ ~early =>
           next = MoreInts(st, IntChannel(w, c))
  <2>1. IntTurns(o, w, c, st)
    BY IntTurn, Zenon
  <2> QED BY <2>1, Zenon DEF IntTurns
<1>6. Has(Stopped(st), f, m, TRUE)
  BY <1>1, StoppedHas, Zenon
<1>7. PICK S : f \in [Nat -> S]
  BY WantedIsOnNat, Zenon
<1>8. SUFFICES \E x \in BOOLEAN : Has(next, f, k, x) /\ (x => k = nch)
  BY Zenon DEF IntAt
<1>9. full <=> m = nch
  <2> HIDE DEF f, m
  <2>1. st.got = FirstOf(f, m)
    BY <1>2, Zenon DEF IsFirstOf
  <2>2. Len(FirstOf(f, m)) = m
    BY <1>4, <1>7, FirstOfIsSeq
  <2>3. full <=> m >= nch
    BY <2>1, <2>2, Zenon
  <2> HIDE DEF full, nch
  <2> QED BY <1>3, <1>4, <2>3
<1> HIDE DEF first, m, k, f, next, nch, full, early
<1>10. CASE b \/ full
  BY <1>1, <1>2, <1>4, <1>5, <1>6, <1>9, <1>10, Zenon
<1>11. CASE ~b /\ ~full /\ early
  BY <1>1, <1>2, <1>4, <1>5, <1>11, Zenon
<1>12. CASE ~b /\ ~full /\ ~early
  <2>1. m < nch
    BY <1>3, <1>4, <1>9, <1>12
  <2>2. k = m + 1 /\ (m + 1) + first = c /\ m + 1 \in Nat
    BY <1>4, <1>12, <2>1
  <2>3. f[m + 1] = IntChannel(w, c)
    <3>1. WantedInts(o, w)[m + 1] = IntChannel(w, c)
      <4>1. c = (m + 1) + first /\ first = FirstAsked(o, w)
        BY <2>2 DEF first
      <4> QED BY <2>2, <4>1, WantedHas
    <3> QED BY <3>1, Zenon DEF f
  <2>4. Has(MoreInts(st, IntChannel(w, c)), f, m + 1, b)
    BY <1>1, <1>4, <1>7, <2>3, MoreHas, Zenon
  <2>5. next = MoreInts(st, IntChannel(w, c))
    BY <1>2, <1>5, <1>12, Zenon
  <2>6. Has(next, f, k, b)
    BY <2>2, <2>4, <2>5, Zenon
  <2> QED BY <1>12, <2>6, Zenon
<1> QED BY <1>10, <1>11, <1>12, Zenon

-----------------------------------------------------------------------------
(* The loop of a reader                                                        *)

\* How a reader is called: of doubles, or of ints.
Called(o, w) ==
  /\ Suits(o, w)
  /\ o.nch \in Nat
  /\ o.kind = "double" \/ (o.kind = "int" /\ ~o.ang)

LineTurn(o, st, line) == IF o.kind = "double" THEN DoubleLine(o, st, line) ELSE IntLine(o, st, line)

ReadsAt(st, o, w, n) ==
  IF o.kind = "double"
  THEN IF o.err => w.err THEN DoubleAt(st, o, w, n) ELSE RefusedAt(st, o, w)
  ELSE IntAt(st, o, w, n)

LEMMA ReadStep ==
  ASSUME NEW w \in DataFiles, NEW o, Called(o, w), NEW n \in Nat, NEW c \in 1..Len(w.data),
         c = n + 1, NEW st, ReadsAt(st, o, w, n)
  PROVE  ReadsAt(LineTurn(o, st, Line(w, c)), o, w, c)
<1>1. Suits(o, w) /\ o.nch \in Nat /\ (o.kind = "double" \/ (o.kind = "int" /\ ~o.ang))
  BY Zenon DEF Called
<1>2. "int" # "double"
  OBVIOUS
<1>3. CASE o.kind = "double" /\ (o.err => w.err)
  <2>1. DoubleAt(st, o, w, n)
    BY <1>3, Zenon DEF ReadsAt
  <2>2. DoubleAt(DoubleLine(o, st, Line(w, c)), o, w, c)
    BY <1>1, <1>3, <2>1, DoubleStep, Zenon
  <2> QED BY <1>3, <2>2, Zenon DEF ReadsAt, LineTurn
<1>4. CASE o.kind = "double" /\ ~(o.err => w.err)
  <2>1. RefusedAt(st, o, w) /\ o.err /\ ~w.err
    BY <1>4, Zenon DEF ReadsAt
  <2>2. RefusedAt(DoubleLine(o, st, Line(w, c)), o, w)
    BY <1>1, <2>1, RefusedStep, Zenon
  <2> QED BY <1>4, <2>2, Zenon DEF ReadsAt, LineTurn
<1>5. CASE o.kind = "int" /\ ~o.ang
  <2>1. IntAt(st, o, w, n)
    BY <1>2, <1>5, Zenon DEF ReadsAt
  <2>2. IntAt(IntLine(o, st, Line(w, c)), o, w, c)
    BY <1>1, <1>5, <2>1, IntStep, Zenon
  <2> QED BY <1>2, <1>5, <2>2, Zenon DEF ReadsAt, LineTurn
<1> QED BY <1>1, <1>3, <1>4, <1>5, Zenon

LEMMA StartHas == ASSUME NEW f PROVE Has(ReadStart, f, 0, FALSE)
<1>1. FirstOf(f, 0) = <<>>
  BY DEF FirstOf
<1>2. ReadStart \in [got : {<<>>}, stop : BOOLEAN] /\ (ReadStart.stop <=> FALSE)
  BY DEF ReadStart
<1> QED BY <1>1, <1>2, Zenon DEF Has

LEMMA ReadStarts ==
  ASSUME NEW w \in DataFiles, NEW o, Called(o, w)
  PROVE  ReadsAt(ReadStart, o, w, 0)
<1> DEFINE first == FirstAsked(o, w)
           m == Filled(0, first, o.nch)
<1>1. first \in Nat
  BY FirstAskedIs, Zenon DEF Called
<1>2. 0 <= first /\ m = 0
  BY <1>1 DEF Filled
<1>3. Has(ReadStart, Wanted(o, w), 0, FALSE) /\ Has(ReadStart, WantedInts(o, w), 0, FALSE)
  BY StartHas, Zenon
<1> HIDE DEF first, m
<1>4. Has(ReadStart, Wanted(o, w), m, FALSE) /\ Has(ReadStart, WantedInts(o, w), m, FALSE)
  BY <1>2, <1>3, Zenon
<1>5. DoubleAt(ReadStart, o, w, 0)
  BY <1>2, <1>4, Zenon DEF DoubleAt, m, first
<1>6. RefusedAt(ReadStart, o, w)
  BY <1>3, Zenon DEF RefusedAt
<1>7. IntAt(ReadStart, o, w, 0)
  BY <1>4, Zenon DEF IntAt, m, first
<1> QED BY <1>5, <1>6, <1>7, Zenon DEF ReadsAt

LinesOf(w) == [n \in Nat |-> Line(w, n)]

LEMMA LinesAre ==
  ASSUME NEW w, NEW d \in Nat
  PROVE  /\ \E S : LinesOf(w) \in [Nat -> S]
         /\ Len(FirstOf(LinesOf(w), d)) = d
         /\ \A n \in 1..d : FirstOf(LinesOf(w), d)[n] = Line(w, n)
         /\ LinesOf(w)[d + 1] = Line(w, d + 1)
<1> DEFINE f == LinesOf(w)
<1>1. f \in [Nat -> {f[n] : n \in Nat}]
  BY DEF LinesOf
<1>2. \A n \in Nat : f[n] = Line(w, n)
  BY DEF LinesOf
<1> HIDE DEF f
<1>3. Len(FirstOf(f, d)) = d
  BY <1>1, FirstOfIsSeq
<1>4. \A n \in 1..d : FirstOf(f, d)[n] = f[n]
  BY DEF FirstOf
<1>5. (\A n \in 1..d : n \in Nat) /\ d + 1 \in Nat
  OBVIOUS
<1>6. \E S : f \in [Nat -> S]
  BY <1>1, Zenon
<1> QED BY <1>2, <1>3, <1>4, <1>5, <1>6, Zenon DEF f

\* What a reader gets of a file of which so many lines are written.
ReadsGet(o, w, d) ==
  \E st : ReadsAt(st, o, w, d) /\ Channels(o, FirstOf(LinesOf(w), d)) = st.got

LEMMA ReaderGets ==
  ASSUME NEW w \in DataFiles, NEW o, Called(o, w), NEW d \in 0..Len(w.data)
  PROVE  ReadsGet(o, w, d)
<1> DEFINE all == FirstOf(LinesOf(w), d)
<1>1. d \in Nat /\ d <= Len(w.data)
  BY DataFileHas
<1>2. Len(all) = d /\ \A n \in 1..d : all[n] = Line(w, n)
  BY <1>1, LinesAre, Zenon
<1>3. o.kind # "short"
  <2>1. "double" # "short" /\ "int" # "short"
    OBVIOUS
  <2> QED BY <2>1, Zenon DEF Called
<1> HIDE DEF all
<1>4. LastLine(o, all) = d
  BY <1>2, <1>3, Zenon DEF LastLine
<1>5. LastLine(o, all) \in Nat
  BY <1>1, <1>4
<1>6. PICK g : ReadStates(o, all, g)
  BY <1>5, ChannelsUnfold, Zenon
<1>7. (\A n \in 0..d : g[n] = ReadTurn(o, all, g, n)) /\ Channels(o, all) = g[d].got
  BY <1>4, <1>6, Zenon DEF ReadStates
<1> DEFINE T == {n \in Nat : n <= d => ReadsAt(g[n], o, w, n)}
<1>8. 0 \in T
  <2>1. 0 \in 0..d
    BY <1>1
  <2>2. g[0] = ReadStart
    BY <1>7, <2>1, Zenon DEF ReadTurn
  <2>3. ReadsAt(ReadStart, o, w, 0)
    BY ReadStarts, Zenon
  <2>4. ReadsAt(g[0], o, w, 0)
    BY <2>2, <2>3, Zenon
  <2> QED BY <2>4
<1>9. ASSUME NEW n \in Nat, n \in T PROVE n + 1 \in T
  <2> SUFFICES ASSUME n + 1 <= d PROVE ReadsAt(g[n + 1], o, w, n + 1)
    OBVIOUS
  <2>1. /\ n + 1 \in 0..d /\ n + 1 \in 1..d /\ n + 1 # 0 /\ (n + 1) - 1 = n /\ n <= d
        /\ n + 1 \in 1..Len(w.data)
    BY <1>1, DataFileHas
  <2>2. ReadsAt(g[n], o, w, n)
    BY <1>9, <2>1
  <2>3. g[n + 1] = ReadTurn(o, all, g, n + 1) /\ all[n + 1] = Line(w, n + 1)
    BY <1>2, <1>7, <2>1, Zenon
  <2>4. ReadTurn(o, all, g, n + 1) = LineTurn(o, g[n], all[n + 1])
    BY <2>1, Zenon DEF ReadTurn, LineTurn
  <2>5. ReadsAt(LineTurn(o, g[n], Line(w, n + 1)), o, w, n + 1)
    BY <2>1, <2>2, ReadStep, Zenon
  <2> QED BY <2>3, <2>4, <2>5, Zenon
<1>10. ReadsAt(g[d], o, w, d)
  <2> HIDE DEF T
  <2>1. \A n \in Nat : n \in T
    BY <1>8, <1>9, SetInduction
  <2> QED BY <1>1, <2>1 DEF T
<1> QED BY <1>7, <1>10, Zenon DEF ReadsGet, all

-----------------------------------------------------------------------------
(* What is written and what is read                                            *)

\* The channels a reader asks for of the whole file.
Whole(o, w) == Filled(Len(w.data), FirstAsked(o, w), o.nch)

LEMMA FilledGrows ==
  ASSUME NEW w \in DataFiles, NEW o, Called(o, w), NEW d \in 0..Len(w.data)
  PROVE  LET m == Filled(d, FirstAsked(o, w), o.nch)
         IN  m \in Nat /\ Whole(o, w) \in Nat /\ m <= Whole(o, w)
<1>1. FirstAsked(o, w) \in Nat /\ o.nch \in Nat
  BY FirstAskedIs, Zenon DEF Called
<1>2. Len(w.data) \in Nat
  BY DataFileHas
<1> QED BY <1>1, <1>2 DEF Whole, Filled, Smaller

\* The sequence s is the first of what is wanted, and all of it when the file is
\* whole.
GetsWanted(s, f, m, whole) == \E k \in 0..m : IsFirstOf(s, f, k) /\ (whole => k = m)

LEMMA FirstOfKeeps ==
  ASSUME NEW f, NEW m \in Nat, NEW n \in Nat, m <= n, NEW s, IsFirstOf(s, f, m),
         NEW whole, whole => m = n
  PROVE  GetsWanted(s, f, n, whole)
<1>1. m \in 0..n
  OBVIOUS
<1> QED BY <1>1, Zenon DEF GetsWanted

\* What a reader of doubles gets is what it asks for, or nothing when it wants
\* errors that are not in the file.
LEMMA DoublesKept ==
  ASSUME NEW w \in DataFiles, NEW o, Called(o, w), NEW d \in 0..Len(w.data), o.kind = "double",
         NEW s, s = Channels(o, FirstOf(LinesOf(w), d)), NEW whole, whole => d = Len(w.data)
  PROVE  IF o.err /\ ~w.err THEN s = <<>> ELSE GetsWanted(s, Wanted(o, w), Whole(o, w), whole)
<1> DEFINE f == Wanted(o, w)
           m == Filled(d, FirstAsked(o, w), o.nch)
<1>1. PICK st : ReadsAt(st, o, w, d) /\ s = st.got
  <2>1. ReadsGet(o, w, d)
    BY ReaderGets, Zenon
  <2> QED BY <2>1, Zenon DEF ReadsGet
<1>2. CASE o.err /\ ~w.err
  <2>1. RefusedAt(st, o, w)
    BY <1>1, <1>2, Zenon DEF ReadsAt
  <2>2. PICK b \in BOOLEAN : Has(st, f, 0, b)
    BY <2>1, Zenon DEF RefusedAt
  <2>3. IsFirstOf(st.got, f, 0)
    BY <2>2, HasWhat, Zenon
  <2>4. FirstOf(f, 0) = <<>>
    BY DEF FirstOf
  <2> QED BY <1>1, <1>2, <2>3, <2>4, Zenon DEF IsFirstOf
<1>3. CASE ~(o.err /\ ~w.err)
  <2>1. DoubleAt(st, o, w, d)
    BY <1>1, <1>3, Zenon DEF ReadsAt
  <2>2. PICK b \in BOOLEAN : Has(st, f, m, b)
    BY <2>1, Zenon DEF DoubleAt
  <2>3. IsFirstOf(s, f, m)
    BY <1>1, <2>2, HasWhat, Zenon
  <2>4. m \in Nat /\ Whole(o, w) \in Nat /\ m <= Whole(o, w)
    BY FilledGrows, Zenon
  <2>5. whole => m = Whole(o, w)
    BY Zenon DEF Whole
  <2> HIDE DEF f, m
  <2>6. GetsWanted(s, f, Whole(o, w), whole)
    BY <2>3, <2>4, <2>5, FirstOfKeeps, Zenon
  <2> QED BY <1>3, <2>6, Zenon DEF f
<1> QED BY <1>2, <1>3, Zenon

LEMMA IntsKept ==
  ASSUME NEW w \in DataFiles, NEW o, Called(o, w), NEW d \in 0..Len(w.data), o.kind = "int",
         NEW s, s = Channels(o, FirstOf(LinesOf(w), d)), NEW whole, whole => d = Len(w.data)
  PROVE  GetsWanted(s, WantedInts(o, w), Whole(o, w), whole)
<1> DEFINE f == WantedInts(o, w)
           m == Filled(d, FirstAsked(o, w), o.nch)
<1>1. PICK st : ReadsAt(st, o, w, d) /\ s = st.got
  <2>1. ReadsGet(o, w, d)
    BY ReaderGets, Zenon
  <2> QED BY <2>1, Zenon DEF ReadsGet
<1>2. "int" # "double"
  OBVIOUS
<1>3. IntAt(st, o, w, d)
  BY <1>1, <1>2, Zenon DEF ReadsAt
<1>4. PICK b \in BOOLEAN : Has(st, f, m, b)
  BY <1>3, Zenon DEF IntAt
<1>5. IsFirstOf(s, f, m)
  BY <1>1, <1>4, HasWhat, Zenon
<1>6. m \in Nat /\ Whole(o, w) \in Nat /\ m <= Whole(o, w)
  BY FilledGrows, Zenon
<1>7. whole => m = Whole(o, w)
  BY Zenon DEF Whole
<1> HIDE DEF f, m
<1>8. GetsWanted(s, f, Whole(o, w), whole)
  BY <1>5, <1>6, <1>7, FirstOfKeeps, Zenon
<1> QED BY <1>8, Zenon DEF f

\* A channel as it is read is within the digits its text has.
LEMMA ChannelIsRead ==
  ASSUME NEW w \in DataFiles, NEW c \in 1..Len(w.data), NEW o, o.err => w.err
  PROVE  DoubleOf(Channel(o, w, c), o, w, c) /\ IntOf(IntChannel(w, c), w, c)
<1> DEFINE d == w.data[c]
           a == Magnitude(d)
           got == Channel(o, w, c)
           gotInt == IntChannel(w, c)
<1>1. d \in Int /\ InFile(Angles[c]) /\ (w.format = "f" \/ w.err => InFile(d))
  BY DataFileHas, Zenon
<1>2. \A v : InFile(v) => v \in WrittenTenths /\ 2 * v \in WrittenTenths
  BY SMT DEF InFile, WrittenTenths, Largest
<1>3. /\ got.ang = IF o.ang THEN SixDigits(Angles[c]) ELSE 0
      /\ got.v = Shown(w, c).v
      /\ got.err = IF o.err THEN SixDigits(Error(w, c)) ELSE 0
  BY DEF Channel
<1>4. gotInt.v = WholePart(Shown(w, c))
  BY DEF IntChannel
<1> HIDE DEF d, got, gotInt
<1>5. SameToSixDigits(SixDigits(Angles[c]), Angles[c])
  BY <1>1, <1>2, SixDigitsAreTheSame, Zenon
<1>6. ASSUME w.err PROVE SameToSixDigits(SixDigits(Error(w, c)), Error(w, c))
  <2>1. Error(w, c) \in WrittenTenths
    BY <1>1, <1>2, <1>6, Zenon DEF Error, d
  <2> QED BY <2>1, SixDigitsAreTheSame, Zenon
<1>7. ASSUME w.format = "f"
      PROVE  /\ SameToSixDigits(Shown(w, c).v, d)
             /\ TakenOfDouble(d, WholePart(Shown(w, c)))
  <2>1. Shown(w, c) = OfDouble(d) /\ InFile(d)
    BY <1>1, <1>7, Zenon DEF Shown, d
  <2>2. TakenOfDouble(d, WholePart(OfDouble(d)))
    BY <2>1, DoubleIsTaken, Zenon DEF InFile
  <2>3. SameToSixDigits(SixDigits(d), d) /\ OfDouble(d).v = SixDigits(d)
    BY <1>2, <2>1, SixDigitsAreTheSame, DoubleIsShown, Zenon
  <2> QED BY <2>1, <2>2, <2>3, Zenon
<1>8. ASSUME w.format # "f"
      PROVE  Shown(w, c).v = Truncated(d) /\ WholePart(Shown(w, c)) = Truncated(d)
  <2>1. Shown(w, c) = OfInt(Truncated(d))
    BY <1>8, Zenon DEF Shown, d
  <2>2. Truncated(d) \in Int /\ Truncated(Truncated(d)) = Truncated(d)
    BY <1>1, TruncatedIs, Zenon
  <2>3. WholePart(OfInt(Truncated(d))) = Truncated(d)
    BY <2>2, IntIsTaken, Zenon
  <2>4. OfInt(Truncated(d)).v = Truncated(d)
    BY DEF OfInt
  <2> QED BY <2>1, <2>3, <2>4, Zenon
<1>9. DoubleOf(got, o, w, c)
  BY <1>3, <1>5, <1>6, <1>7, <1>8, Zenon DEF DoubleOf, d
<1>10. IntOf(gotInt, w, c)
  BY <1>4, <1>7, <1>8, Zenon DEF IntOf, TakenOfDouble, d
<1> QED BY <1>9, <1>10, Zenon DEF got, gotInt

-----------------------------------------------------------------------------
(* The file while it is written                                                *)

NoWriter == [file |-> [kind |-> "none"], done |-> 0, open |-> FALSE]

\* Of the file that is open the lines of the first channels are there, and of
\* one that is closed all lines.
DataInv ==
  \/ lines = NoFile /\ writing = NoWriter
  \/ /\ writing \in [file : DataFiles, done : Nat, open : BOOLEAN]
     /\ writing.done \in 0..Len(writing.file.data)
     /\ lines = FirstOf(LinesOf(writing.file), writing.done)
     /\ ~writing.open => writing.done = Len(writing.file.data)

\* It holds from the start and every step keeps it.
THEOREM DataKept == DataSpec => []DataInv
<1>1. DataInit => DataInv
  BY DEF DataInit, DataInv, NoWriter
<1>2. DataInv /\ [DataNext]_dataVars => DataInv'
  <2> SUFFICES ASSUME DataInv, [DataNext]_dataVars PROVE DataInv'
    OBVIOUS
  <2>1. CASE UNCHANGED <<lines, writing>>
    BY <2>1 DEF DataInv
  <2>2. CASE Open
    <3>1. PICK w \in DataFiles :
            writing' = [file |-> w, done |-> 0, open |-> TRUE] /\ lines' = <<>>
      BY <2>2 DEF Open, DataFiles
    <3>2. /\ writing' \in [file : DataFiles, done : Nat, open : BOOLEAN]
          /\ writing'.done = 0 /\ writing'.file = w /\ writing'.open
      BY <3>1
    <3>3. 0 \in 0..Len(w.data)
      BY DataFileHas
    <3>4. FirstOf(LinesOf(w), 0) = <<>>
      BY DEF FirstOf
    <3> QED BY <3>1, <3>2, <3>3, <3>4, Zenon DEF DataInv
  <2>3. CASE WriteLine
    <3> DEFINE w == writing.file
               n == writing.done
    <3>1. writing.open /\ ~(lines = NoFile /\ writing = NoWriter)
      BY <2>3 DEF WriteLine, NoWriter
    <3>2. /\ writing \in [file : DataFiles, done : Nat, open : BOOLEAN]
          /\ n \in 0..Len(w.data) /\ lines = FirstOf(LinesOf(w), n)
      BY <3>1, Zenon DEF DataInv
    <3>3. w \in DataFiles /\ n \in Nat
      BY <3>2
    <3>4. n < Len(w.data) /\ Len(w.data) \in Nat
      BY <2>3, <3>3, DataFileHas DEF WriteLine
    <3>5. /\ writing' \in [file : DataFiles, done : Nat, open : BOOLEAN]
          /\ writing'.done = n + 1 /\ writing'.file = w /\ writing'.open
      BY <2>3, <3>1, <3>2 DEF WriteLine
    <3>6. n + 1 \in 0..Len(w.data)
      BY <3>3, <3>4
    <3>7. lines' = FirstOf(LinesOf(w), n + 1)
      <4>1. lines' = Append(lines, Line(w, n + 1))
        BY <2>3, Zenon DEF WriteLine
      <4>2. LinesOf(w)[n + 1] = Line(w, n + 1)
        BY <3>3, LinesAre, Zenon
      <4>3. PICK S : LinesOf(w) \in [Nat -> S]
        BY <3>3, LinesAre, Zenon
      <4>4. IsFirstOf(Append(FirstOf(LinesOf(w), n), LinesOf(w)[n + 1]), LinesOf(w), n + 1)
        BY <3>3, <4>3, FirstOfAppended, Zenon
      <4> QED BY <3>2, <4>1, <4>2, <4>4, Zenon DEF IsFirstOf
    <3> QED BY <3>5, <3>6, <3>7, Zenon DEF DataInv
  <2>4. CASE Close
    <3> DEFINE w == writing.file
               n == writing.done
    <3>1. writing.open /\ ~(lines = NoFile /\ writing = NoWriter)
      BY <2>4 DEF Close, NoWriter
    <3>2. /\ writing \in [file : DataFiles, done : Nat, open : BOOLEAN]
          /\ n \in 0..Len(w.data) /\ lines = FirstOf(LinesOf(w), n)
      BY <3>1, Zenon DEF DataInv
    <3>3. /\ writing' \in [file : DataFiles, done : Nat, open : BOOLEAN]
          /\ writing'.done = n /\ writing'.file = w
      BY <2>4, <3>2 DEF Close
    <3>4. n = Len(w.data) /\ lines' = lines
      BY <2>4, Zenon DEF Close
    <3> QED BY <3>2, <3>3, <3>4, Zenon DEF DataInv
  <2>5. CASE WriteFails \/ ReadLines \/ ReadFails
    BY <2>1, <2>5, Zenon DEF WriteFails, ReadLines, ReadFails
  <2>6. DataNext \/ UNCHANGED dataVars
    BY Zenon
  <2>7. UNCHANGED dataVars => UNCHANGED <<lines, writing>>
    BY DEF dataVars
  <2> QED BY <2>1, <2>2, <2>3, <2>4, <2>5, <2>6, <2>7, Zenon DEF DataNext
<1> QED BY <1>1, <1>2, PTL DEF DataSpec

\* A step that calls a reader on the file that was written last.
LEMMA StepReads ==
  ASSUME DataInv, [DataNext]_dataVars, reader' # reader, NEW kind, kind # "none",
         ReadAsWritten(kind)'
  PROVE  /\ reader' \in DoubleReaders \cup IntReaders
         /\ reader'.kind = kind /\ reader'.ang = writing.file.ang
         /\ read' = Channels(reader', lines)
         /\ writing' = writing
         /\ writing.file \in DataFiles /\ writing.done \in 0..Len(writing.file.data)
         /\ lines = FirstOf(LinesOf(writing.file), writing.done)
         /\ ~writing.open => writing.done = Len(writing.file.data)
<1>1. /\ reader'.kind = kind /\ reader'.ang = writing'.file.ang /\ writing'.file.kind # "none"
  BY DEF ReadAsWritten
<1>2. ~NothingRead
  BY <1>1 DEF NothingRead
<1>3. ReadLines
  <2>1. reader' = reader \/ NothingRead \/ ReadLines
    BY Zenon DEF DataNext, Open, WriteLine, Close, WriteFails, ReadFails, dataVars
  <2> QED BY <1>2, <2>1, Zenon
<1>4. /\ reader' \in DoubleReaders \cup IntReaders /\ read' = Channels(reader', lines)
      /\ writing' = writing
  BY <1>3, Zenon DEF ReadLines
<1>5. writing.file.kind # "none"
  BY <1>1, <1>4
<1>6. ~(lines = NoFile /\ writing = NoWriter)
  BY <1>5 DEF NoWriter
<1>7. /\ writing \in [file : DataFiles, done : Nat, open : BOOLEAN]
      /\ writing.done \in 0..Len(writing.file.data)
      /\ lines = FirstOf(LinesOf(writing.file), writing.done)
      /\ ~writing.open => writing.done = Len(writing.file.data)
  BY <1>6, Zenon DEF DataInv
<1>8. writing.file \in DataFiles
  BY <1>7
<1>9. reader'.ang = writing.file.ang
  BY <1>1, <1>4
<1> QED BY <1>1, <1>4, <1>7, <1>8, <1>9, Zenon

LEMMA ReaderIsCalled ==
  ASSUME NEW o \in DoubleReaders \cup IntReaders, NEW w, o.ang = w.ang,
         o.kind \in {"double", "int"}
  PROVE  Called(o, w)
<1>1. MaxChannels \in Nat
  BY DataFileConstants, LenProperties
<1>2. CASE o \in DoubleReaders
  <2>1. o.offset \in {0, 1, 2} /\ o.ang \in BOOLEAN /\ o.nch \in 0..MaxChannels /\ o.kind = "double"
    BY <1>2 DEF DoubleReaders
  <2>2. o.nch \in Nat
    BY <1>1, <2>1
  <2> QED BY <2>1, <2>2, Zenon DEF Called, Suits
<1>3. CASE o \in IntReaders
  <2>1. o.offset \in {0, 1, 2} /\ o.ang \in {FALSE} /\ o.nch \in 0..MaxChannels /\ o.kind \in {"int", "short"}
    BY <1>3 DEF IntReaders
  <2>2. o.nch \in Nat /\ o.kind = "int"
    BY <1>1, <2>1
  <2>3. o.ang \in BOOLEAN /\ ~o.ang
    BY <2>1, Zenon
  <2> QED BY <2>1, <2>2, <2>3, Zenon DEF Called, Suits
<1> QED BY <1>2, <1>3

\* The channels a reader asks for, as a sequence.
LEMMA AskedIs ==
  ASSUME NEW w \in DataFiles, NEW o, Called(o, w)
  PROVE  LET first == FirstAsked(o, w)
             length == Smaller(o.nch, Len(w.data) - first)
         IN  (IF length > 0 THEN length ELSE 0) = Whole(o, w)
<1>1. FirstAsked(o, w) \in Nat /\ o.nch \in Nat
  BY FirstAskedIs, Zenon DEF Called
<1>2. Len(w.data) \in Nat
  BY DataFileHas
<1> QED BY <1>1, <1>2 DEF Whole, Filled, Smaller

AskedFrom(asked, o, w) == asked = [c \in 1..Whole(o, w) |-> c + FirstAsked(o, w)]

\* The channel each number that is asked for stands for.
LEMMA AskedHas ==
  ASSUME NEW w \in DataFiles, NEW o, Called(o, w), NEW asked, AskedFrom(asked, o, w)
  PROVE  /\ Len(asked) = Whole(o, w) /\ Whole(o, w) \in Nat
         /\ \A j \in 1..Whole(o, w) :
              /\ asked[j] \in 1..Len(w.data)
              /\ Wanted(o, w)[j] = Channel(o, w, asked[j])
              /\ WantedInts(o, w)[j] = IntChannel(w, asked[j])
<1> DEFINE m == Whole(o, w)
           first == FirstAsked(o, w)
<1>1. first \in Nat /\ o.nch \in Nat /\ Len(w.data) \in Nat
  BY FirstAskedIs, DataFileHas, Zenon DEF Called
<1>2. m \in Nat /\ \A j \in 1..m : j \in Nat /\ j + first \in 1..Len(w.data)
  BY <1>1 DEF Whole, Filled, Smaller
<1>3. asked = [c \in 1..m |-> c + first]
  BY Zenon DEF AskedFrom
<1> HIDE DEF m, first
<1>4. Len(asked) = m /\ \A j \in 1..m : asked[j] = j + first
  BY <1>2, <1>3
<1>5. ASSUME NEW j \in 1..m
      PROVE  /\ asked[j] \in 1..Len(w.data)
             /\ Wanted(o, w)[j] = Channel(o, w, asked[j])
             /\ WantedInts(o, w)[j] = IntChannel(w, asked[j])
  <2>1. j \in Nat /\ j + first \in 1..Len(w.data) /\ asked[j] = j + first
    BY <1>2, <1>4, Zenon
  <2>2. first = FirstAsked(o, w)
    BY Zenon DEF first
  <2> QED BY <2>1, <2>2, WantedHas
<1> QED BY <1>2, <1>4, <1>5, Zenon DEF m

\* So what a reader gets are the channels that are asked for.
GetsDoubles(s, asked, o, w, whole) ==
  /\ Len(s) <= Len(asked)
  /\ \A j \in DOMAIN s : DoubleOf(s[j], o, w, asked[j])
  /\ whole => Len(s) = Len(asked)

GetsInts(s, asked, w, whole) ==
  /\ Len(s) <= Len(asked)
  /\ \A j \in DOMAIN s : IntOf(s[j], w, asked[j])
  /\ whole => Len(s) = Len(asked)

LEMMA FirstOfHas ==
  ASSUME NEW f, NEW k \in Nat, NEW s, IsFirstOf(s, f, k)
  PROVE  Len(s) = k /\ DOMAIN s = 1..k /\ \A j \in 1..k : s[j] = f[j]
BY DEF IsFirstOf, FirstOf

LEMMA DoublesAreAsked ==
  ASSUME NEW w \in DataFiles, NEW o, Called(o, w), NEW asked, AskedFrom(asked, o, w),
         o.err => w.err, NEW s, NEW whole, GetsWanted(s, Wanted(o, w), Whole(o, w), whole)
  PROVE  GetsDoubles(s, asked, o, w, whole)
<1> DEFINE m == Whole(o, w)
           f == Wanted(o, w)
<1>1. /\ Len(asked) = m /\ m \in Nat
      /\ \A j \in 1..m : asked[j] \in 1..Len(w.data) /\ f[j] = Channel(o, w, asked[j])
  BY AskedHas, Zenon
<1>2. PICK k \in 0..m : IsFirstOf(s, f, k) /\ (whole => k = m)
  BY Zenon DEF GetsWanted
<1> HIDE DEF m, f
<1>3. k \in Nat /\ k <= m /\ \A j \in 1..k : j \in 1..m
  BY <1>1
<1>4. Len(s) = k /\ DOMAIN s = 1..k /\ \A j \in 1..k : s[j] = f[j]
  BY <1>2, <1>3, FirstOfHas, Zenon
<1>5. ASSUME NEW j \in DOMAIN s PROVE DoubleOf(s[j], o, w, asked[j])
  <2>1. asked[j] \in 1..Len(w.data) /\ s[j] = Channel(o, w, asked[j])
    BY <1>1, <1>3, <1>4, Zenon
  <2> QED BY <2>1, ChannelIsRead, Zenon
<1> QED BY <1>1, <1>2, <1>3, <1>4, <1>5, Zenon DEF GetsDoubles

LEMMA IntsAreAsked ==
  ASSUME NEW w \in DataFiles, NEW o, Called(o, w), NEW asked, AskedFrom(asked, o, w),
         ~o.err, NEW s, NEW whole, GetsWanted(s, WantedInts(o, w), Whole(o, w), whole)
  PROVE  GetsInts(s, asked, w, whole)
<1> DEFINE m == Whole(o, w)
           f == WantedInts(o, w)
<1>1. /\ Len(asked) = m /\ m \in Nat
      /\ \A j \in 1..m : asked[j] \in 1..Len(w.data) /\ f[j] = IntChannel(w, asked[j])
  BY AskedHas, Zenon
<1>2. PICK k \in 0..m : IsFirstOf(s, f, k) /\ (whole => k = m)
  BY Zenon DEF GetsWanted
<1> HIDE DEF m, f
<1>3. k \in Nat /\ k <= m /\ \A j \in 1..k : j \in 1..m
  BY <1>1
<1>4. Len(s) = k /\ DOMAIN s = 1..k /\ \A j \in 1..k : s[j] = f[j]
  BY <1>2, <1>3, FirstOfHas, Zenon
<1>5. ASSUME NEW j \in DOMAIN s PROVE IntOf(s[j], w, asked[j])
  <2>1. asked[j] \in 1..Len(w.data) /\ s[j] = IntChannel(w, asked[j])
    BY <1>1, <1>3, <1>4, Zenon
  <2> QED BY <2>1, ChannelIsRead, Zenon
<1> QED BY <1>1, <1>2, <1>3, <1>4, <1>5, Zenon DEF GetsInts

\* The channels asked for when a reader has been called.
LEMMA AskedNow ==
  ASSUME DataInv, [DataNext]_dataVars, reader' # reader, NEW kind,
         kind = "double" \/ kind = "int", ReadAsWritten(kind)'
  PROVE  Called(reader', writing.file) /\ AskedFrom(Asked', reader', writing.file)
<1> DEFINE w == writing.file
           o == reader'
<1>1. kind # "none"
  OBVIOUS
<1>2. /\ o \in DoubleReaders \cup IntReaders /\ o.kind = kind /\ o.ang = w.ang
      /\ writing' = writing /\ w \in DataFiles
  BY <1>1, StepReads
<1>3. Called(o, w)
  BY <1>2, ReaderIsCalled
<1> DEFINE first == FirstAsked(o, w)
           length == Smaller(o.nch, Len(w.data) - first)
<1>4. Asked' = [c \in 1..(IF length > 0 THEN length ELSE 0) |-> c + first]
  BY <1>2, Zenon DEF Asked, FirstAsked
<1>5. (IF length > 0 THEN length ELSE 0) = Whole(o, w)
  BY <1>2, <1>3, AskedIs, Zenon
<1> HIDE DEF length, first
<1>6. Asked' = [c \in 1..Whole(o, w) |-> c + first]
  BY <1>4, <1>5, Zenon
<1> QED BY <1>3, <1>6, Zenon DEF first, AskedFrom

\* Whatever channels, errors and angles are written, and in whatever format, a
\* reader of doubles or of ints gets those it asks for, with the digits the text
\* of the file has: six of a double, and of one with an exponent no more than the
\* first for a reader of ints (fileIOStatic.h:240-810).
THEOREM DataRead == DataSpec => DataIsReadBack
<1> DEFINE DoubleBody ==
             reader' # reader /\ ReadAsWritten("double")' =>
               LET IsChannel(got, c) == DoubleOf(got, reader', writing.file, c)
               IN  IF reader'.err /\ ~writing.file.err THEN read' = <<>>
                   ELSE GetsAsked(IsChannel)
           IntBody ==
             reader' # reader /\ ReadAsWritten("int")' =>
               LET IsChannel(got, c) == IntOf(got, writing.file, c)
               IN  GetsAsked(IsChannel)
           w == writing.file
           o == reader'
           s == read'
           asked == Asked'
           whole == ~writing.open
<1>1. DataInv /\ [DataNext]_dataVars => [DoubleBody]_dataVars
  <2> SUFFICES ASSUME DataInv, [DataNext]_dataVars, reader' # reader, ReadAsWritten("double")'
               PROVE  IF o.err /\ ~w.err THEN s = <<>> ELSE GetsDoubles(s, asked, o, w, whole)
    BY Zenon DEF GetsAsked, GetsDoubles
  <2>1. "double" # "none"
    OBVIOUS
  <2>2. /\ o.kind = "double" /\ s = Channels(o, lines)
        /\ w \in DataFiles /\ writing.done \in 0..Len(w.data)
        /\ lines = FirstOf(LinesOf(w), writing.done)
        /\ whole => writing.done = Len(w.data)
    BY <2>1, StepReads
  <2>3. Called(o, w) /\ AskedFrom(asked, o, w)
    BY AskedNow, Zenon
  <2>4. s = Channels(o, FirstOf(LinesOf(w), writing.done))
    BY <2>2, Zenon
  <2> HIDE DEF o, w, whole, s, asked
  <2>5. IF o.err /\ ~w.err THEN s = <<>> ELSE GetsWanted(s, Wanted(o, w), Whole(o, w), whole)
    BY <2>2, <2>3, <2>4, DoublesKept, Zenon
  <2> QED BY <2>2, <2>3, <2>5, DoublesAreAsked, Zenon
<1>2. DataInv /\ [DataNext]_dataVars => [IntBody]_dataVars
  <2> SUFFICES ASSUME DataInv, [DataNext]_dataVars, reader' # reader, ReadAsWritten("int")'
               PROVE  GetsInts(s, asked, w, whole)
    BY Zenon DEF GetsAsked, GetsInts
  <2>1. "int" # "none" /\ "int" # "double"
    OBVIOUS
  <2>2. /\ o.kind = "int" /\ s = Channels(o, lines) /\ o \in DoubleReaders \cup IntReaders
        /\ w \in DataFiles /\ writing.done \in 0..Len(w.data)
        /\ lines = FirstOf(LinesOf(w), writing.done)
        /\ whole => writing.done = Len(w.data)
    BY <2>1, StepReads
  <2>3. Called(o, w) /\ AskedFrom(asked, o, w)
    BY AskedNow, Zenon
  <2>4. s = Channels(o, FirstOf(LinesOf(w), writing.done))
    BY <2>2, Zenon
  <2> HIDE DEF o, w, whole, s, asked
  <2>5. ~o.err
    <3>1. o \in IntReaders
      <4>1. o \in DoubleReaders => o.kind = "double"
        BY DEF DoubleReaders
      <4> QED BY <2>1, <2>2, <4>1, Zenon
    <3>2. o.err \in {FALSE}
      BY <3>1 DEF IntReaders
    <3> QED BY <3>2
  <2>6. GetsWanted(s, WantedInts(o, w), Whole(o, w), whole)
    BY <2>2, <2>3, <2>4, IntsKept, Zenon
  <2> QED BY <2>2, <2>3, <2>5, <2>6, IntsAreAsked, Zenon
<1>3. DataSpec => []DataInv
  BY DataKept
<1> QED BY <1>1, <1>2, <1>3, PTL DEF DataSpec, DataIsReadBack, DoublesAreReadBack, IntsAreReadBack
=============================================================================
