------------------------------- MODULE SlsFileIO -------------------------------
(***************************************************************************)
(* class fileIO: the variables of the file names, shared by the threads of *)
(* a program, and the mutex around the functions that write them.          *)
(*                                                                         *)
(* A setter assigns under the mutex and reads the member back after it has *)
(* unlocked; a getter and an increment never lock.  A text is copied to    *)
(* and from its buffer in two halves, between which another thread may     *)
(* run; a number is stored at once.                                        *)
(***************************************************************************)
EXTENDS Integers

CONSTANTS
  Threads,   \* who calls
  Numbers,   \* the numbers modelled, of those setNumber is for
  Texts,     \* the texts modelled: "filePath", "fileName"
  Args,      \* what a setter is given, numbers
  Strings,   \* what a setter is given, texts
  Nobody,    \* the holder of a free mutex
  MaxCalls   \* bound: calls of each thread

ASSUME FileIOConstants ==
  /\ Numbers \subseteq {"fileIndex", "frameIndex", "currentFrameIndex",
                        "framesPerFile", "detIndex", "fileFormat"}
  /\ Texts \subseteq {"filePath", "fileName"}
  /\ Args \subseteq Int
  /\ Nobody \notin Threads
  /\ MaxCalls \in Nat

VARIABLES
  number,  \* the members that are numbers
  text,    \* the two halves of each character buffer
  mutex,   \* mf: who holds it
  call,    \* what each thread is calling
  pc,      \* where it is in that call
  got,     \* what it has read: a number, a text in halves
  since,   \* what the member could be for the call: its value when the call
           \* stored or declined to store, and all that was stored after
  calls    \* how many calls it has made

vars == <<number, text, mutex, call, pc, got, since, calls>>

Fields == Numbers \cup Texts
NoCall == [op |-> "none", field |-> "none", arg |-> 0]
Unread == <<>>

\* The buffers and the file index are in the shared memory and hold what an
\* earlier program left there; the constructor sets the other numbers.
Init ==
  /\ \E i \in Args : number = [n \in Numbers |->
       IF n \in {"frameIndex", "currentFrameIndex", "detIndex"} THEN -1
       ELSE IF n = "framesPerFile" THEN 1 ELSE i]
  /\ \E s \in Strings : text = [x \in Texts |-> <<s, s>>]
  /\ mutex = Nobody
  /\ call = [t \in Threads |-> NoCall]
  /\ pc = [t \in Threads |-> "idle"]
  /\ got = [t \in Threads |-> Unread]
  /\ since = [t \in Threads |-> {}]
  /\ calls = [t \in Threads |-> 0]

Call(t, op, field, arg, first) ==
  /\ pc[t] = "idle"
  /\ calls[t] < MaxCalls
  /\ calls' = [calls EXCEPT ![t] = @ + 1]
  /\ call' = [call EXCEPT ![t] = [op |-> op, field |-> field, arg |-> arg]]
  /\ pc' = [pc EXCEPT ![t] = first]
  /\ got' = [got EXCEPT ![t] = Unread]
  /\ since' = [since EXCEPT ![t] = {}]
  /\ UNCHANGED <<number, text, mutex>>

\* setFilePath, setFileName
SetText(t) == \E x \in Texts, s \in Strings : Call(t, "setText", x, s, "lock")

\* setFileIndex, setFrameIndex, setCurrentFrameIndex, setFramesPerFile,
\* setDetectorIndex, setFileFormat
SetNumber(t) == \E n \in Numbers, i \in Args : Call(t, "setNumber", n, i, "lock")

\* The functions that read variables from a file name given to them: they touch
\* no member, but lock as the setters do.
ReadName(t) == Call(t, "readName", "none", 0, "lock")

\* The getters
GetText(t) == \E x \in Texts : Call(t, "getText", x, 0, "return")
GetNumber(t) == \E n \in Numbers : Call(t, "getNumber", n, 0, "return")

\* incrementFileIndex, incrementFrameIndex, incrementCurrentFrameIndex,
\* incrementDetectorIndex: the frame index by what it is given, the others by 1.
Incremented == Numbers \ {"framesPerFile", "fileFormat"}
Amounts(n) == IF n = "frameIndex" THEN Args ELSE {1}
Increment(t) ==
  \E n \in Incremented : \E i \in Amounts(n) : Call(t, "increment", n, i, "load")

\* Fault: the mutex is not waited for.
LockUnheld(t) ==
  /\ pc[t] = "lock"
  /\ mutex' = t
  /\ pc' = [pc EXCEPT ![t] = IF call[t].op = "readName" THEN "unlock" ELSE "store"]
  /\ UNCHANGED <<number, text, call, got, since, calls>>

Lock(t) ==
  /\ pc[t] = "lock"
  /\ mutex = Nobody
  /\ mutex' = t
  /\ pc' = [pc EXCEPT ![t] = IF call[t].op = "readName" THEN "unlock" ELSE "store"]
  /\ UNCHANGED <<number, text, call, got, since, calls>>

\* Those whose call is about the member see what is stored in it.
Stored(t, field, v) ==
  [u \in Threads |->
     IF u = t THEN {v}
     ELSE IF call[u].field = field THEN since[u] \cup {v} ELSE since[u]]

\* Fault: no frame per file is as good as one.
AcceptedFromZero(field, i) == field = "framesPerFile" => i >= 0

\* if (i>0) *framesPerFile=i;
Accepted(field, i) == field = "framesPerFile" => i > 0

StoreNumber(t) ==
  /\ pc[t] = "store"
  /\ call[t].op = "setNumber"
  /\ pc' = [pc EXCEPT ![t] = "unlock"]
  /\ LET n == call[t].field
         v == IF Accepted(n, call[t].arg) THEN call[t].arg ELSE number[n]
     IN  /\ number' = [number EXCEPT ![n] = v]
         /\ since' = Stored(t, n, v)
  /\ UNCHANGED <<text, mutex, call, got, calls>>

\* sprintf writes the first half of the text ...
StoreText(t) ==
  /\ pc[t] = "store"
  /\ call[t].op = "setText"
  /\ text' = [text EXCEPT ![call[t].field][1] = call[t].arg]
  /\ pc' = [pc EXCEPT ![t] = "storeRest"]
  /\ UNCHANGED <<number, mutex, call, got, since, calls>>

\* ... and the second.
StoreRest(t) ==
  /\ pc[t] = "storeRest"
  /\ text' = [text EXCEPT ![call[t].field][2] = call[t].arg]
  /\ since' = Stored(t, call[t].field, call[t].arg)
  /\ pc' = [pc EXCEPT ![t] = "unlock"]
  /\ UNCHANGED <<number, mutex, call, got, calls>>

\* Fault: a function that reads a name returns without unlocking.
UnlockForgotten(t) ==
  /\ pc[t] = "unlock"
  /\ mutex' = IF call[t].op = "readName" THEN mutex ELSE Nobody
  /\ pc' = [pc EXCEPT ![t] = IF call[t].op = "readName" THEN "idle" ELSE "return"]
  /\ UNCHANGED <<number, text, call, got, since, calls>>

Unlock(t) ==
  /\ pc[t] = "unlock"
  /\ mutex' = Nobody
  /\ pc' = [pc EXCEPT ![t] = IF call[t].op = "readName" THEN "idle" ELSE "return"]
  /\ UNCHANGED <<number, text, call, got, since, calls>>

\* The result of a setter or a getter: the member, read without the mutex.
ReturnNumber(t) ==
  /\ pc[t] = "return"
  /\ call[t].op \in {"setNumber", "getNumber"}
  /\ got' = [got EXCEPT ![t] = <<number[call[t].field]>>]
  /\ pc' = [pc EXCEPT ![t] = "idle"]
  /\ UNCHANGED <<number, text, mutex, call, since, calls>>

\* std::string(fileName) copies the first half of the text ...
ReturnText(t) ==
  /\ pc[t] = "return"
  /\ call[t].op \in {"setText", "getText"}
  /\ got' = [got EXCEPT ![t] = <<text[call[t].field][1]>>]
  /\ pc' = [pc EXCEPT ![t] = "returnRest"]
  /\ UNCHANGED <<number, text, mutex, call, since, calls>>

\* ... and the second.
ReturnRest(t) ==
  /\ pc[t] = "returnRest"
  /\ got' = [got EXCEPT ![t] = <<got[t][1], text[call[t].field][2]>>]
  /\ pc' = [pc EXCEPT ![t] = "idle"]
  /\ UNCHANGED <<number, text, mutex, call, since, calls>>

\* An increment reads the member ...
Load(t) ==
  /\ pc[t] = "load"
  /\ got' = [got EXCEPT ![t] = <<number[call[t].field]>>]
  /\ pc' = [pc EXCEPT ![t] = "add"]
  /\ UNCHANGED <<number, text, mutex, call, since, calls>>

\* ... and writes it.
Add(t) ==
  /\ pc[t] = "add"
  /\ LET v == got[t][1] + call[t].arg
     IN  /\ number' = [number EXCEPT ![call[t].field] = v]
         /\ since' = Stored(t, call[t].field, v)
  /\ pc' = [pc EXCEPT ![t] = "idle"]
  /\ UNCHANGED <<text, mutex, call, got, calls>>

Step(t) ==
  \/ Lock(t) \/ StoreNumber(t) \/ StoreText(t) \/ StoreRest(t) \/ Unlock(t)
  \/ ReturnNumber(t) \/ ReturnText(t) \/ ReturnRest(t) \/ Load(t) \/ Add(t)

Next ==
  \E t \in Threads :
    \/ SetText(t) \/ SetNumber(t) \/ ReadName(t)
    \/ GetText(t) \/ GetNumber(t) \/ Increment(t)
    \/ Step(t)

\* Every thread goes on with the call it is in.
Spec == Init /\ [][Next]_vars /\ \A t \in Threads : WF_vars(Step(t))

-----------------------------------------------------------------------------
(* Properties *)

\* When no setter of a text is copying, both halves of the text are of one
\* string: two setters never mix theirs (fileIO.h:94-112).
QuietTextsAreWhole ==
  \A x \in Texts :
    (\A t \in Threads : pc[t] = "storeRest" => call[t].field # x)
      => text[x][1] = text[x][2]

\* What a setter of a number returns is the value it left in the member or one
\* another thread stored after it, never an older one, although it reads the
\* member without the mutex; what it left is what it was given, but for frames
\* per file of less than one, which no thread ever finds.
SetterReturnsRecent ==
  /\ \A t \in Threads :
       /\ call[t].op = "setNumber" /\ pc[t] = "idle" => got[t][1] \in since[t]
       /\ call[t].op = "setNumber" /\ pc[t] = "unlock" =>
            since[t] \cap {call[t].arg} # {} \/ (call[t].field = "framesPerFile" /\ call[t].arg < 1)
  /\ "framesPerFile" \in Numbers => number["framesPerFile"] > 0

\* Every call returns: no function leaves the mutex locked.
CallsReturn == \A t \in Threads : pc[t] # "idle" ~> pc[t] = "idle"
=============================================================================
