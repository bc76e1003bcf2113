---------------------------- MODULE SlsFileIO_proofs ----------------------------
(***************************************************************************)
(* What the mutex of class fileIO protects, for any number of threads and  *)
(* calls: the texts are written by one setter at a time, and a setter of a *)
(* number returns nothing older than what it stored, although it reads the *)
(* member after it has unlocked.                                           *)
(***************************************************************************)
EXTENDS SlsFileIO, TLAPS

Holders == {"store", "storeRest", "unlock"}
Places == Holders \cup {"idle", "lock", "return", "returnRest", "load", "add"}
Ops == {"none", "setText", "setNumber", "readName", "getText", "getNumber", "increment"}

IOTypeOK ==
  /\ number \in [Numbers -> Int]
  /\ text \in [Texts -> [1..2 -> Strings]]
  /\ call \in [Threads -> [op : Ops, field : Fields \cup {"none"}, arg : Args \cup Strings \cup {0, 1}]]
  /\ pc \in [Threads -> Places]
  /\ DOMAIN got = Threads
  /\ DOMAIN since = Threads

\* The member and the argument are those the operation is for.
CallFits(t) ==
  /\ call[t].op \in {"setNumber", "getNumber", "increment"} => call[t].field \in Numbers
  /\ call[t].op \in {"setText", "getText"} => call[t].field \in Texts
  /\ call[t].op = "setNumber" => call[t].arg \in Args
  /\ call[t].op = "increment" => call[t].arg \in Int /\ call[t].field # "framesPerFile"
  /\ call[t].op = "setText" => call[t].arg \in Strings

\* A thread is where its operation takes it.
PlaceFits(t) ==
  /\ pc[t] \in {"lock", "unlock"} => call[t].op \in {"setNumber", "setText", "readName"}
  /\ pc[t] = "store" => call[t].op \in {"setNumber", "setText"}
  /\ pc[t] = "storeRest" => call[t].op = "setText"
  /\ pc[t] = "return" => call[t].op \in {"setNumber", "setText", "getNumber", "getText"}
  /\ pc[t] = "returnRest" => call[t].op \in {"setText", "getText"}
  /\ pc[t] = "load" => call[t].op = "increment"
  /\ pc[t] = "add" => call[t].op = "increment" /\ got[t][1] \in Int

\* Between lock and unlock a thread has the mutex.
Holds(t) == pc[t] \in Holders => mutex = t

\* The half that a setter has stored is still there when it stores the other.
HalfStored(t) == pc[t] = "storeRest" => text[call[t].field][1] = call[t].arg

\* From its store to its end a setter knows all the member has been since.
Followed(t) ==
  call[t].op = "setNumber" =>
    /\ pc[t] \in {"unlock", "return"} => number[call[t].field] \in since[t]
    /\ pc[t] = "idle" => got[t][1] \in since[t]
    /\ pc[t] = "unlock" =>
         call[t].arg \in since[t] \/ (call[t].field = "framesPerFile" /\ call[t].arg < 1)

\* Frames per file are set by nothing but their setter, which refuses others.
FramesAreSome == "framesPerFile" \in Numbers => number["framesPerFile"] > 0

CallsFit == \A t \in Threads : CallFits(t)
PlacesFit == \A t \in Threads : PlaceFits(t)
OneHolds == \A t \in Threads : Holds(t)
HalvesStored == \A t \in Threads : HalfStored(t)
AllFollowed == \A t \in Threads : Followed(t)

IOInv ==
  /\ IOTypeOK /\ CallsFit /\ PlacesFit /\ OneHolds /\ HalvesStored /\ QuietTextsAreWhole /\ AllFollowed
  /\ FramesAreSome

-----------------------------------------------------------------------------

LEMMA NoFieldIsBoth ==
  Numbers \cap Texts = {} /\ "none" \notin Fields /\ Args \subseteq Int
BY FileIOConstants DEF Fields

LEMMA InitInv == Init => IOInv
<1> SUFFICES ASSUME Init PROVE IOInv
  OBVIOUS
<1>1. IOTypeOK
  <2>1. PICK i \in Args : number = [n \in Numbers |->
          IF n \in {"frameIndex", "currentFrameIndex", "detIndex"} THEN -1
          ELSE IF n = "framesPerFile" THEN 1 ELSE i]
    BY DEF Init
  <2>2. number \in [Numbers -> Int]
    BY <2>1, NoFieldIsBoth
  <2>3. PICK s \in Strings : text = [x \in Texts |-> <<s, s>>]
    BY DEF Init
  <2>4. text \in [Texts -> [1..2 -> Strings]]
    BY <2>3
  <2> QED BY <2>2, <2>4 DEF Init, IOTypeOK, NoCall, Ops, Places
<1>2. QuietTextsAreWhole
  BY DEF Init, QuietTextsAreWhole
<1>3. FramesAreSome
  BY DEF Init, FramesAreSome
<1> QED
  BY <1>1, <1>2, <1>3 DEF Init, IOInv, CallsFit, PlacesFit, OneHolds, HalvesStored, AllFollowed,
     CallFits, PlaceFits, Holds, HalfStored, Followed, NoCall, Holders

\* A call begins: nobody else is touched.
LEMMA CallInv ==
  ASSUME IOInv, NEW t \in Threads, NEW op \in Ops \ {"none"},
         NEW field \in Fields \cup {"none"}, NEW arg \in Args \cup Strings \cup {0, 1},
         NEW first \in {"lock", "return", "load"}, Call(t, op, field, arg, first),
         op \in {"setNumber", "getNumber", "increment"} => field \in Numbers,
         op \in {"setText", "getText"} => field \in Texts,
         op = "setNumber" => arg \in Args,
         op = "increment" => arg \in Int /\ field # "framesPerFile",
         op = "setText" => arg \in Strings,
         first = "lock" => op \in {"setNumber", "setText", "readName"},
         first = "return" => op \in {"getNumber", "getText"},
         first = "load" => op = "increment"
  PROVE  IOInv'
<1> USE DEF IOInv, Call
<1>1. IOTypeOK'
  BY DEF IOTypeOK, Places
<1>2. /\ call'[t] = [op |-> op, field |-> field, arg |-> arg] /\ pc'[t] = first
      /\ \A u \in Threads \ {t} : call'[u] = call[u] /\ pc'[u] = pc[u] /\ got'[u] = got[u] /\ since'[u] = since[u]
      /\ number' = number /\ text' = text /\ mutex' = mutex
  BY DEF IOTypeOK
<1> HIDE DEF Call
<1>3. CallsFit'
  BY <1>2 DEF CallsFit, CallFits
<1>4. PlacesFit'
  BY <1>2 DEF PlacesFit, PlaceFits
<1>5. OneHolds'
  BY <1>2 DEF OneHolds, Holds, Holders
<1>6. HalvesStored'
  BY <1>2 DEF HalvesStored, HalfStored
<1>7. QuietTextsAreWhole'
  BY <1>2, pc[t] = "idle" DEF QuietTextsAreWhole, Call
<1>8. AllFollowed'
  BY <1>2 DEF AllFollowed, Followed
<1>9. FramesAreSome'
  BY <1>2 DEF FramesAreSome
<1> QED BY <1>1, <1>3, <1>4, <1>5, <1>6, <1>7, <1>8, <1>9

\* The mutex passes to a thread that nobody excludes.
LEMMA LockInv ==
  ASSUME IOInv, NEW t \in Threads, Lock(t)
  PROVE  IOInv'
<1> USE NoFieldIsBoth DEF IOInv, Lock
<1>1. IOTypeOK'
  BY DEF IOTypeOK, Places, Holders
<1>2. CallsFit'
  BY DEF CallsFit, CallFits, IOTypeOK
<1>3. PlacesFit'
  BY DEF PlacesFit, PlaceFits, IOTypeOK
<1>4. OneHolds'
  BY FileIOConstants DEF OneHolds, Holds, Holders, IOTypeOK
<1>5. HalvesStored'
  BY DEF HalvesStored, HalfStored, OneHolds, Holds, Holders, IOTypeOK
<1>6. QuietTextsAreWhole'
  BY DEF QuietTextsAreWhole, HalvesStored, HalfStored, OneHolds, Holds, Holders, IOTypeOK
<1>7. AllFollowed'
  BY DEF AllFollowed, Followed, PlacesFit, PlaceFits, IOTypeOK
<1>8. FramesAreSome'
  BY DEF FramesAreSome, CallsFit, CallFits, PlacesFit, PlaceFits, IOTypeOK
<1> QED BY <1>1, <1>2, <1>3, <1>4, <1>5, <1>6, <1>7, <1>8 DEF IOInv

\* A number is stored, or refused.
LEMMA StoreNumberInv ==
  ASSUME IOInv, NEW t \in Threads, StoreNumber(t)
  PROVE  IOInv'
<1> USE NoFieldIsBoth DEF IOInv, StoreNumber, Stored, Accepted
<1>1. IOTypeOK'
  BY DEF IOTypeOK, Places, Holders, CallsFit, CallFits, PlacesFit, PlaceFits
<1>2. CallsFit'
  BY DEF CallsFit, CallFits, IOTypeOK
<1>3. PlacesFit'
  BY DEF PlacesFit, PlaceFits, IOTypeOK
<1>4. OneHolds'
  BY DEF OneHolds, Holds, Holders, IOTypeOK
<1>5. HalvesStored'
  BY DEF HalvesStored, HalfStored, OneHolds, Holds, Holders, IOTypeOK
<1>6. QuietTextsAreWhole'
  BY DEF QuietTextsAreWhole, HalvesStored, HalfStored, OneHolds, Holds, Holders, IOTypeOK
<1>7. ASSUME NEW u \in Threads PROVE Followed(u)'
  <2>1. Followed(u) /\ CallFits(u) /\ PlaceFits(u) /\ CallFits(t)
    BY DEF AllFollowed, CallsFit, PlacesFit
  <2>2. CASE u = t
    <3> DEFINE n == call[t].field
               v == IF Accepted(n, call[t].arg) THEN call[t].arg ELSE number[n]
    <3>1. n \in Numbers /\ call[t].arg \in Int
      BY <2>1 DEF CallFits
    <3>2. call' = call /\ pc'[t] = "unlock" /\ number'[n] = v /\ since'[t] = {v}
      BY <3>1 DEF IOTypeOK
    <3>3. v = call[t].arg \/ (n = "framesPerFile" /\ call[t].arg < 1)
      BY <3>1
    <3> HIDE DEF v
    <3> QED BY <2>2, <3>2, <3>3 DEF Followed
  <2>3. CASE u # t
    BY <2>1, <2>3 DEF Followed, CallFits, IOTypeOK
  <2> QED BY <2>2, <2>3
<1>8. FramesAreSome'
  BY DEF FramesAreSome, CallsFit, CallFits, PlacesFit, PlaceFits, IOTypeOK
<1> QED BY <1>1, <1>2, <1>3, <1>4, <1>5, <1>6, <1>7, <1>8 DEF IOInv, AllFollowed

\* The first half of a text is stored.
LEMMA StoreTextInv ==
  ASSUME IOInv, NEW t \in Threads, StoreText(t)
  PROVE  IOInv'
<1> USE NoFieldIsBoth DEF IOInv, StoreText
<1>1. IOTypeOK'
  BY DEF IOTypeOK, Places, Holders, CallsFit, CallFits, PlacesFit, PlaceFits
<1>2. CallsFit'
  BY DEF CallsFit, CallFits, IOTypeOK
<1>3. PlacesFit'
  BY DEF PlacesFit, PlaceFits, IOTypeOK
<1>4. OneHolds'
  BY DEF OneHolds, Holds, Holders, IOTypeOK
<1>5. HalvesStored'
  BY DEF HalvesStored, HalfStored, OneHolds, Holds, Holders, CallsFit, CallFits, IOTypeOK
<1>6. QuietTextsAreWhole'
  BY DEF QuietTextsAreWhole, HalvesStored, HalfStored, OneHolds, Holds, Holders, IOTypeOK
<1>7. AllFollowed'
  BY DEF AllFollowed, Followed, PlacesFit, PlaceFits, IOTypeOK
<1>8. FramesAreSome'
  BY DEF FramesAreSome, CallsFit, CallFits, PlacesFit, PlaceFits, IOTypeOK
<1> QED BY <1>1, <1>2, <1>3, <1>4, <1>5, <1>6, <1>7, <1>8 DEF IOInv

\* The second half is stored on top of the setter's own first half.
LEMMA StoreRestInv ==
  ASSUME IOInv, NEW t \in Threads, StoreRest(t)
  PROVE  IOInv'
<1> USE NoFieldIsBoth DEF IOInv, StoreRest, Stored
<1>1. IOTypeOK'
  BY DEF IOTypeOK, Places, Holders, CallsFit, CallFits, PlacesFit, PlaceFits
<1>2. CallsFit'
  BY DEF CallsFit, CallFits, IOTypeOK
<1>3. PlacesFit'
  BY DEF PlacesFit, PlaceFits, IOTypeOK
<1>4. OneHolds'
  BY DEF OneHolds, Holds, Holders, IOTypeOK
<1>5. HalvesStored'
  BY DEF HalvesStored, HalfStored, OneHolds, Holds, Holders, IOTypeOK
<1>6. QuietTextsAreWhole'
  BY DEF QuietTextsAreWhole, HalvesStored, HalfStored, OneHolds, Holds, Holders, IOTypeOK
<1>7. AllFollowed'
  BY DEF AllFollowed, Followed, PlacesFit, PlaceFits, IOTypeOK
<1>8. FramesAreSome'
  BY DEF FramesAreSome, CallsFit, CallFits, PlacesFit, PlaceFits, IOTypeOK
<1> QED BY <1>1, <1>2, <1>3, <1>4, <1>5, <1>6, <1>7, <1>8 DEF IOInv

\* The mutex is given back.
LEMMA UnlockInv ==
  ASSUME IOInv, NEW t \in Threads, Unlock(t)
  PROVE  IOInv'
<1> USE NoFieldIsBoth DEF IOInv, Unlock
<1>1. IOTypeOK'
  BY DEF IOTypeOK, Places, Holders
<1>2. CallsFit'
  BY DEF CallsFit, CallFits, IOTypeOK
<1>3. PlacesFit'
  BY DEF PlacesFit, PlaceFits, IOTypeOK
<1>4. OneHolds'
  BY DEF OneHolds, Holds, Holders, IOTypeOK
<1>5. HalvesStored'
  BY DEF HalvesStored, HalfStored, OneHolds, Holds, Holders, IOTypeOK
<1>6. QuietTextsAreWhole'
  BY DEF QuietTextsAreWhole, HalvesStored, HalfStored, OneHolds, Holds, Holders, IOTypeOK
<1>7. AllFollowed'
  BY DEF AllFollowed, Followed, PlacesFit, PlaceFits, IOTypeOK
<1>8. FramesAreSome'
  BY DEF FramesAreSome, CallsFit, CallFits, PlacesFit, PlaceFits, IOTypeOK
<1> QED BY <1>1, <1>2, <1>3, <1>4, <1>5, <1>6, <1>7, <1>8 DEF IOInv

\* A number is read without the mutex.
LEMMA ReturnNumberInv ==
  ASSUME IOInv, NEW t \in Threads, ReturnNumber(t)
  PROVE  IOInv'
<1> USE NoFieldIsBoth DEF IOInv, ReturnNumber
<1>1. IOTypeOK'
  BY DEF IOTypeOK, Places, Holders
<1>2. CallsFit'
  BY DEF CallsFit, CallFits, IOTypeOK
<1>3. PlacesFit'
  BY DEF PlacesFit, PlaceFits, IOTypeOK
<1>4. OneHolds'
  BY DEF OneHolds, Holds, Holders, IOTypeOK
<1>5. HalvesStored'
  BY DEF HalvesStored, HalfStored, OneHolds, Holds, Holders, IOTypeOK
<1>6. QuietTextsAreWhole'
  BY DEF QuietTextsAreWhole, HalvesStored, HalfStored, OneHolds, Holds, Holders, IOTypeOK
<1>7. AllFollowed'
  BY DEF AllFollowed, Followed, PlacesFit, PlaceFits, IOTypeOK
<1>8. FramesAreSome'
  BY DEF FramesAreSome, CallsFit, CallFits, PlacesFit, PlaceFits, IOTypeOK
<1> QED BY <1>1, <1>2, <1>3, <1>4, <1>5, <1>6, <1>7, <1>8 DEF IOInv

LEMMA ReturnTextInv ==
  ASSUME IOInv, NEW t \in Threads, ReturnText(t)
  PROVE  IOInv'
<1> USE NoFieldIsBoth DEF IOInv, ReturnText
<1>1. IOTypeOK'
  BY DEF IOTypeOK, Places, Holders
<1>2. CallsFit'
  BY DEF CallsFit, CallFits, IOTypeOK
<1>3. PlacesFit'
  BY DEF PlacesFit, PlaceFits, IOTypeOK
<1>4. OneHolds'
  BY DEF OneHolds, Holds, Holders, IOTypeOK
<1>5. HalvesStored'
  BY DEF HalvesStored, HalfStored, OneHolds, Holds, Holders, IOTypeOK
<1>6. QuietTextsAreWhole'
  BY DEF QuietTextsAreWhole, HalvesStored, HalfStored, OneHolds, Holds, Holders, IOTypeOK
<1>7. AllFollowed'
  BY DEF AllFollowed, Followed, PlacesFit, PlaceFits, IOTypeOK
<1>8. FramesAreSome'
  BY DEF FramesAreSome, CallsFit, CallFits, PlacesFit, PlaceFits, IOTypeOK
<1> QED BY <1>1, <1>2, <1>3, <1>4, <1>5, <1>6, <1>7, <1>8 DEF IOInv

LEMMA ReturnRestInv ==
  ASSUME IOInv, NEW t \in Threads, ReturnRest(t)
  PROVE  IOInv'
<1> USE NoFieldIsBoth DEF IOInv, ReturnRest
<1>1. IOTypeOK'
  BY DEF IOTypeOK, Places, Holders
<1>2. CallsFit'
  BY DEF CallsFit, CallFits, IOTypeOK
<1>3. PlacesFit'
  BY DEF PlacesFit, PlaceFits, IOTypeOK
<1>4. OneHolds'
  BY DEF OneHolds, Holds, Holders, IOTypeOK
<1>5. HalvesStored'
  BY DEF HalvesStored, HalfStored, OneHolds, Holds, Holders, IOTypeOK
<1>6. QuietTextsAreWhole'
  BY DEF QuietTextsAreWhole, HalvesStored, HalfStored, OneHolds, Holds, Holders, IOTypeOK
<1>7. AllFollowed'
  BY DEF AllFollowed, Followed, PlacesFit, PlaceFits, IOTypeOK
<1>8. FramesAreSome'
  BY DEF FramesAreSome, CallsFit, CallFits, PlacesFit, PlaceFits, IOTypeOK
<1> QED BY <1>1, <1>2, <1>3, <1>4, <1>5, <1>6, <1>7, <1>8 DEF IOInv

\* An increment reads, and writes later.
LEMMA LoadInv ==
  ASSUME IOInv, NEW t \in Threads, Load(t)
  PROVE  IOInv'
<1> USE NoFieldIsBoth DEF IOInv, Load
<1>1. IOTypeOK'
  BY DEF IOTypeOK, Places, Holders
<1>2. CallsFit'
  BY DEF CallsFit, CallFits, IOTypeOK
<1>3. PlacesFit'
  BY DEF PlacesFit, PlaceFits, CallsFit, CallFits, IOTypeOK
<1>4. OneHolds'
  BY DEF OneHolds, Holds, Holders, IOTypeOK
<1>5. HalvesStored'
  BY DEF HalvesStored, HalfStored, OneHolds, Holds, Holders, IOTypeOK
<1>6. QuietTextsAreWhole'
  BY DEF QuietTextsAreWhole, HalvesStored, HalfStored, OneHolds, Holds, Holders, IOTypeOK
<1>7. AllFollowed'
  BY DEF AllFollowed, Followed, PlacesFit, PlaceFits, IOTypeOK
<1>8. FramesAreSome'
  BY DEF FramesAreSome, CallsFit, CallFits, PlacesFit, PlaceFits, IOTypeOK
<1> QED BY <1>1, <1>2, <1>3, <1>4, <1>5, <1>6, <1>7, <1>8 DEF IOInv

LEMMA AddInv ==
  ASSUME IOInv, NEW t \in Threads, Add(t)
  PROVE  IOInv'
<1> USE NoFieldIsBoth DEF IOInv, Add, Stored
<1>1. IOTypeOK'
  BY DEF IOTypeOK, Places, Holders, CallsFit, CallFits, PlacesFit, PlaceFits
<1>2. CallsFit'
  BY DEF CallsFit, CallFits, IOTypeOK
<1>3. PlacesFit'
  BY DEF PlacesFit, PlaceFits, IOTypeOK
<1>4. OneHolds'
  BY DEF OneHolds, Holds, Holders, IOTypeOK
<1>5. HalvesStored'
  BY DEF HalvesStored, HalfStored, OneHolds, Holds, Holders, IOTypeOK
<1>6. QuietTextsAreWhole'
  BY DEF QuietTextsAreWhole, HalvesStored, HalfStored, OneHolds, Holds, Holders, IOTypeOK
<1>7. AllFollowed'
  BY DEF AllFollowed, Followed, PlacesFit, PlaceFits, IOTypeOK
<1>8. FramesAreSome'
  BY DEF FramesAreSome, CallsFit, CallFits, PlacesFit, PlaceFits, IOTypeOK
<1> QED BY <1>1, <1>2, <1>3, <1>4, <1>5, <1>6, <1>7, <1>8 DEF IOInv

LEMMA NextInv == IOInv /\ [Next]_vars => IOInv'
<1> SUFFICES ASSUME IOInv, [Next]_vars PROVE IOInv'
  OBVIOUS
<1>1. ASSUME NEW t \in Threads, SetText(t) PROVE IOInv'
  <2>1. PICK x \in Texts, s \in Strings : Call(t, "setText", x, s, "lock")
    BY <1>1 DEF SetText
  <2> QED BY <2>1, CallInv DEF Fields, Ops
<1>2. ASSUME NEW t \in Threads, SetNumber(t) PROVE IOInv'
  <2>1. PICK n \in Numbers, i \in Args : Call(t, "setNumber", n, i, "lock")
    BY <1>2 DEF SetNumber
  <2> QED BY <2>1, CallInv DEF Fields, Ops
<1>3. ASSUME NEW t \in Threads, ReadName(t) PROVE IOInv'
  BY <1>3, CallInv DEF ReadName, Ops
<1>4. ASSUME NEW t \in Threads, GetText(t) PROVE IOInv'
  <2>1. PICK x \in Texts : Call(t, "getText", x, 0, "return")
    BY <1>4 DEF GetText
  <2> QED BY <2>1, CallInv DEF Fields, Ops
<1>5. ASSUME NEW t \in Threads, GetNumber(t) PROVE IOInv'
  <2>1. PICK n \in Numbers : Call(t, "getNumber", n, 0, "return")
    BY <1>5 DEF GetNumber
  <2> QED BY <2>1, CallInv DEF Fields, Ops
<1>6. ASSUME NEW t \in Threads, Increment(t) PROVE IOInv'
  <2>1. PICK n \in Incremented : \E i \in Amounts(n) : Call(t, "increment", n, i, "load")
    BY <1>6 DEF Increment
  <2>2. PICK i \in Amounts(n) : Call(t, "increment", n, i, "load")
    BY <2>1
  <2>3. n \in Numbers /\ n # "framesPerFile" /\ i \in Args \cup {1} /\ i \in Int
    BY NoFieldIsBoth DEF Incremented, Amounts
  <2> QED BY <2>2, <2>3, CallInv DEF Fields, Ops
<1>7. ASSUME NEW t \in Threads, Step(t) PROVE IOInv'
  BY <1>7, LockInv, StoreNumberInv, StoreTextInv, StoreRestInv, UnlockInv, ReturnNumberInv,
     ReturnTextInv, ReturnRestInv, LoadInv, AddInv DEF Step
<1>8. CASE UNCHANGED vars
  BY <1>8 DEF vars, IOInv, IOTypeOK, CallsFit, PlacesFit, OneHolds, HalvesStored, AllFollowed,
     CallFits, PlaceFits, Holds, HalfStored, Followed, QuietTextsAreWhole, FramesAreSome
<1> QED BY <1>1, <1>2, <1>3, <1>4, <1>5, <1>6, <1>7, <1>8 DEF Next

LEMMA IOInvariant == Spec => []IOInv
<1>1. Init => IOInv
  BY InitInv
<1>2. IOInv /\ [Next]_vars => IOInv'
  BY NextInv
<1> QED BY <1>1, <1>2, PTL DEF Spec

\* A text is never a mixture of what two setters wrote, but for the copying of
\* one of them (fileIO.h:94-112).
THEOREM TextsAreWhole == Spec => []QuietTextsAreWhole
<1>1. IOInv => QuietTextsAreWhole
  BY DEF IOInv
<1> QED BY <1>1, IOInvariant, PTL

\* A setter of a number returns what it left in the member or something stored
\* after it, and stores what it is given if the member takes it: frames per file
\* are always some
\* (fileIO.h:113-183).
THEOREM SettersReturnRecent == Spec => []SetterReturnsRecent
<1>1. IOInv => SetterReturnsRecent
  BY DEF IOInv, AllFollowed, Followed, FramesAreSome, SetterReturnsRecent
<1> QED BY <1>1, IOInvariant, PTL
=============================================================================
