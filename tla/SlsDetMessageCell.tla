---------------------------- MODULE SlsDetMessageCell ----------------------------
(***************************************************************************)
(* A message as the class SlsDetMessage keeps it: a union whose members    *)
(* share their storage, of which a string is only the pointer to a text    *)
(* that somebody else owns and may change.  Messages are handed on by      *)
(* value: a queue copies the storage.                                      *)
(***************************************************************************)
EXTENDS SlsDetMessage, FiniteSets

CONSTANTS
  Cells,     \* messages: the one built, its copies
  Buffers,   \* texts a string can point to
  Numbers    \* values of the numbers, and what the texts say

ASSUME CellConstants == Numbers \subseteq Int /\ 0 \notin Numbers

VARIABLES
  cell,   \* _dtype of each message, the member its storage was last written
          \* through ("zero" when built) and what was written
  text,   \* the texts
  got,    \* result and *value of the last get or as, and of what it was asked
  last    \* what each message was last set to: what it stands for

cellVars == <<cell, text, got, last>>

Storage(member, v) == [member |-> member, v |-> v]
Zeroed == Storage("zero", 0)

CellInit ==
  /\ cell = [c \in Cells |-> [dtype |-> "None", data |-> Zeroed]]
  /\ text \in [Buffers -> Numbers]
  /\ got = [ok |-> FALSE, v |-> 0, asked |-> "None", of |-> "None", want |-> 0]
  /\ last = [c \in Cells |-> 0]

\* The constructors zero the storage.
Construct(c, t) ==
  /\ cell' = [cell EXCEPT ![c] = [dtype |-> t, data |-> Zeroed]]
  /\ last' = [last EXCEPT ![c] = 0]
  /\ UNCHANGED <<text, got>>

\* Fault: a double is accepted by an Int64 message, which is as wide.
AcceptsWide(c, t) == cell[c].dtype = t \/ (cell[c].dtype = "Int64" /\ t = "Float64")

Accepts(c, t) == cell[c].dtype = t

\* setInteger, setInteger64, setDouble
SetNumber(c, t, v) ==
  /\ IF Accepts(c, t)
     THEN /\ cell' = [cell EXCEPT ![c].data = Storage(t, v)]
          /\ last' = [last EXCEPT ![c] = v]
     ELSE UNCHANGED <<cell, last>>
  /\ UNCHANGED <<text, got>>

\* setString keeps the pointer.
SetString(c, b) ==
  /\ IF Accepts(c, "String")
     THEN cell' = [cell EXCEPT ![c].data = Storage("String", b)]
     ELSE UNCHANGED cell
  /\ UNCHANGED <<text, got, last>>

\* The owner of a text writes another into it.
WriteText(b, v) ==
  /\ text' = [text EXCEPT ![b] = v]
  /\ UNCHANGED <<cell, got, last>>

\* A message goes through a queue.
Copy(c, d) ==
  /\ cell' = [cell EXCEPT ![d] = cell[c]]
  /\ last' = [last EXCEPT ![d] = last[c]]
  /\ UNCHANGED <<text, got>>

\* What a member of the union reads as: of another member's storage the program
\* does not say; 0 stands for it.
Member(c, t) ==
  CASE cell[c].data.member = "String" /\ t = "String" -> text[cell[c].data.v]
    [] cell[c].data.member = t /\ t # "String" -> cell[c].data.v
    [] OTHER -> 0

\* Nobody reads a string before it was set: asString and getString follow the
\* pointer.
Readable(c, t) == t = "String" /\ cell[c].dtype = "String" => cell[c].data.member = "String"

Want(c) == IF cell[c].dtype = "String" THEN Member(c, "String") ELSE last[c]

\* getInteger, getInteger64, getDouble, getString: *value is written on success.
Get(c, t) ==
  /\ Readable(c, t)
  /\ got' = [ok |-> cell[c].dtype = t,
             v |-> IF cell[c].dtype = t THEN Member(c, t) ELSE got.v,
             asked |-> t, of |-> cell[c].dtype, want |-> Want(c)]
  /\ UNCHANGED <<cell, text, last>>

\* asInteger, asInteger64, asDouble, asString: 0 or no text for another type.
As(c, t) ==
  /\ Readable(c, t)
  /\ got' = [ok |-> TRUE, v |-> IF cell[c].dtype = t THEN Member(c, t) ELSE 0,
             asked |-> t, of |-> cell[c].dtype, want |-> Want(c)]
  /\ UNCHANGED <<cell, text, last>>

NumberTypes == {"Int32", "Int64", "Float64"}

CellNext ==
  \/ \E c \in Cells, t \in DataType : Construct(c, t)
  \/ \E c \in Cells, t \in NumberTypes, v \in Numbers : SetNumber(c, t, v)
  \/ \E c \in Cells, b \in Buffers : SetString(c, b)
  \/ \E b \in Buffers, v \in Numbers : WriteText(b, v)
  \/ \E c, d \in Cells : Copy(c, d)
  \/ \E c \in Cells, t \in DataType \ {"None"} : Get(c, t) \/ As(c, t)

CellSpec == CellInit /\ [][CellNext]_cellVars

-----------------------------------------------------------------------------
(* Properties *)

\* A get or an as of the type of a message returns what the message was last
\* set to, through any number of copies; of a string what its text says now.
GotIsWhatWasSet == got.asked = got.of /\ got.ok => got.v = got.want
=============================================================================
