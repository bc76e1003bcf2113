----------------------------- MODULE SlsBadChannels -----------------------------
(***************************************************************************)
(* The list of bad channels of a module, read from a file with a channel   *)
(* or a range of channels in a line (class badChannelCorrections).         *)
(*                                                                         *)
(* A line is the sequence of its numbers: one, two with '-' between them,  *)
(* or none.  The last line of a file may lack its newline.                 *)
(***************************************************************************)
EXTENDS Integers, Sequences, SequencesExt

CONSTANTS
  Channels,   \* the numbers in a line
  Offsets,    \* what is added to the channels of a module
  Junk,       \* what the uninitialised ich may hold
  MaxLines    \* bound: lines of a file

ASSUME BadChannelsConstants ==
  Channels \subseteq Nat /\ Offsets \subseteq Nat /\ Junk \subseteq Int /\ MaxLines \in Nat

VARIABLES
  lines,   \* the lines of the file
  ended    \* the last of them ends in a newline

badVars == <<lines, ended>>

LineTexts == {<<>>} \cup {<<c>> : c \in Channels} \cup {<<c, d>> : c, d \in Channels}

\* Fault: the last channel of a range is left out.
SpanOpen(min, max) == [c \in 1..(max - min) |-> min + c - 1]

\* for (ich=chmin; ich<=chmax; ich++)
Span(min, max) == [c \in 1..(IF max < min THEN 0 ELSE max - min + 1) |-> min + c - 1]

\* One turn of the loop: st.ich is the local ich, which a range leaves one past
\* its last channel and a line without a number leaves as it is.
Line(st, line) ==
  CASE Len(line) = 2 ->
         [bad |-> st.bad \o Span(line[1], line[2]),
          ich |-> IF line[2] < line[1] THEN line[1] ELSE line[2] + 1]
    [] Len(line) = 1 -> [bad |-> Append(st.bad, line[1]), ich |-> line[1]]
    [] OTHER -> [bad |-> Append(st.bad, st.ich), ich |-> st.ich]

\* readBadChannelCorrectionFile: getline meets the end of the file in a line
\* without a newline, and the loop is left before that line is looked at.
BadChannels(junk) ==
  LET looked == IF ended THEN Len(lines) ELSE Len(lines) - 1
      st[n \in 0..looked] ==
        IF n = 0 THEN [bad |-> <<>>, ich |-> junk] ELSE Line(st[n - 1], lines[n])
  IN  st[looked].bad

\* setBadChannelCorrection, which shifts the channels to where the module's are.
ShiftedBadChannels(junk, off) ==
  [c \in DOMAIN BadChannels(junk) |-> BadChannels(junk)[c] + off]

BadInit == lines = <<>> /\ ended = TRUE

\* A file with one line more, written by its user.
AddLine ==
  /\ Len(lines) < MaxLines
  /\ ended
  /\ \E line \in LineTexts : lines' = Append(lines, line)
  /\ ended' \in BOOLEAN

BadNext == AddLine

BadSpec == BadInit /\ [][BadNext]_badVars

-----------------------------------------------------------------------------
(* Properties *)

\* What the file says, a line without a number saying nothing.
Said(all) ==
  FlattenSeq([j \in DOMAIN all |->
    CASE Len(all[j]) = 2 -> [c \in 1..(IF all[j][2] < all[j][1] THEN 0
                                       ELSE all[j][2] - all[j][1] + 1) |-> all[j][1] + c - 1]
      [] OTHER -> all[j]])

\* The channels of the list are those the file names, in its order and each
\* shifted by the offset, when every line has a number and a newline; a line
\* without a number adds an entry, but none is lost
\* (badChannelCorrections.h:15-55).
BadChannelsAreListed ==
  ended =>
    \A junk \in Junk, off \in Offsets :
      LET want == [c \in DOMAIN Said(lines) |-> Said(lines)[c] + off]
          got == ShiftedBadChannels(junk, off)
      IN  /\ ToSet(want) \subseteq ToSet(got)
          /\ (\A j \in DOMAIN lines : lines[j] # <<>>) => got = want
=============================================================================
