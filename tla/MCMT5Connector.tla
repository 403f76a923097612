---------------------------- MODULE MCMT5Connector ----------------------------
(***************************************************************************)
(* The values TLC checks MT5Connector with.                                *)
(***************************************************************************)
EXTENDS MT5Connector, TLC

\* A symbol as the code assumes it if it is not told, and one with a minimum and
\* a step that some of the volumes are no multiple of.
MCInfos == {[step |-> 1, min |-> 1], [step |-> 10, min |-> 30]}

MCDefaults == {[step |-> 1, min |-> 1]}

MCSymmetry == Permutations(Workers)
=============================================================================
