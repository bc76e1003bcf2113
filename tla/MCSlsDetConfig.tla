---------------------------- MODULE MCSlsDetConfig ----------------------------
(***************************************************************************)
(* Model checking of the configuration of an IOC with two ports.           *)
(***************************************************************************)
EXTENDS SlsDetConfig

\* Every line of up to five characters: empty tokens at both ends and in the
\* middle, names of one character and of several.
MCLines == UNION {[1..n -> {"a", "+"}] : n \in 0..5} \cup UNION {[1..n -> {"a", "b", "+"}] : n \in 0..3}

\* Two ports of up to two modules.
MCLinesShort == UNION {[1..n -> {"a", "b", "+"}] : n \in 1..3}
=============================================================================
