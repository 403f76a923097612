--------------------------- MODULE MCOrderExecutor ---------------------------
(***************************************************************************)
(* Two symbols, which are interchangeable.                                 *)
(***************************************************************************)
EXTENDS OrderExecutor, TLC

Swap == Permutations(Symbols)
=============================================================================
