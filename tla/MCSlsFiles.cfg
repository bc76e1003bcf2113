SPECIFICATION FilesSpec
CONSTANTS
  t1 = t1
  t2 = t2
  s1 = s1
  s2 = s2
  Nobody = Nobody
  \* Two threads that make two calls each; one number that a setter refuses and
  \* one that is incremented by what is given, and one text.
  Threads = {t1, t2}
  Numbers = {"frameIndex", "framesPerFile"}
  Texts = {"fileName"}
  Args = {0, 1}
  Strings = {s1, s2}
  MaxCalls = 2
  \* 2.5 rounds to 2 and 3.5 to 4 when printed without digits after the point.
  Roots <- MCRoots
  Pointed <- MCPointed
  Scans = {25, 35}
  Precisions = {0, 1}
  Junk <- MCJunk
  MaxIndex = 1
  \* 40000 is an int and no short int.
  Doubles <- MCDoubles
  Ints = {10, 400000}
  Angles <- MCAngles
  MaxChannels = 2
  \* The second file is written over the first.
  MaxFiles = 2
INVARIANTS
  NamesAreReadBack
  FramesAreKept
  QuietTextsAreWhole
  SetterReturnsRecent
PROPERTIES
  CallsReturn
  DataIsReadBack
\* The calls of the threads and the indexes of the files are bounded.
CHECK_DEADLOCK FALSE
