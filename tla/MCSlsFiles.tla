------------------------------- MODULE MCSlsFiles -------------------------------
(***************************************************************************)
(* Model checking of the files of slsDetectorPackage: the names of files,  *)
(* the members and the mutex of fileIO, and the data files.  The three do  *)
(* not touch each other's state: a behaviour is one of one of them, and    *)
(* the variables of the other two do not change.                           *)
(***************************************************************************)
EXTENDS SlsFileIO, SlsFileNames, SlsDataFile

CONSTANTS t1, t2, s1, s2

VARIABLE part  \* which of the three

\* A segment without a number, and one with the number 1.
Tagged(tag) == [tag |-> tag, num |-> <<>>]
Numbered(tag) == [tag |-> tag, num |-> <<1>>]

\* Roots of two segments and of one; roots that end in what looks like a
\* detector, a frame or a position, in a letter without its number, and in '_';
\* one of which two segments look like variables.
MCRoots ==
  {<<Tagged("x"), Tagged("x")>>, <<Tagged("x"), Numbered("d")>>, <<Numbered("f")>>,
   <<Tagged("x"), Tagged("d")>>, <<Tagged("x"), Tagged("p")>>, <<Tagged("x"), Tagged("")>>,
   <<Numbered("p"), Numbered("d")>>}

\* One plain root and one that is not have a '.' in their text.
MCPointed == {<<Tagged("x"), Tagged("x")>>, <<Numbered("f")>>}

\* What an int holds that nothing set: also the value that stands for none.
MCJunk == {-1, 7}

\* -1.5, a double with a sign and a fraction; 100000.5, whose fraction is the
\* seventh digit; and -1234567, which is written with an exponent.
MCDoubles == {-15, 1000005, -12345670}

\* Angles 0.5 and 2: one the reader of a channel number splits, one it takes
\* whole.
MCAngles == <<5, 20>>

\* The members of fileIO in one of their initial states, where they stay.
IOStill == Init /\ text["fileName"] = <<s1, s1>>

\* A name in one of its initial states, where it stays.
NamesStill ==
  /\ NamesInit
  /\ file = [root |-> <<Numbered("f")>>, scan0 |-> FALSE, sv0 |-> 25, scan1 |-> FALSE,
             sv1 |-> 25, prec |-> 0, pindex |-> 0, npos |-> MaxIndex, findex |-> 0,
             frameindex |-> -1, detindex |-> -1]

FilesInit ==
  \/ part = "names" /\ NamesInit /\ IOStill /\ DataInit
  \/ part = "io" /\ NamesStill /\ Init /\ DataInit
  \/ part = "data" /\ NamesStill /\ IOStill /\ DataInit

FilesNext ==
  \/ part = "names" /\ NamesNext /\ UNCHANGED <<part, vars, dataVars>>
  \/ part = "io" /\ Next /\ UNCHANGED <<part, nameVars, dataVars>>
  \/ part = "data" /\ DataNext /\ UNCHANGED <<part, nameVars, vars>>

filesVars == <<part, nameVars, vars, dataVars>>

\* Every thread of fileIO goes on with the call it is in.
FilesFairness ==
  \A t \in Threads :
    WF_filesVars(part = "io" /\ Step(t) /\ UNCHANGED <<part, nameVars, dataVars>>)

FilesSpec == FilesInit /\ [][FilesNext]_filesVars /\ FilesFairness

=============================================================================
