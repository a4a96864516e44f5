----------------------------- MODULE MCParamWin -----------------------------
(* Small instances of ParamWin for TLC. *)
EXTENDS ParamWin, TLC

\* Ranks and entries of one kind differ by nothing but their names.
Symm == Permutations(Vals) \cup Permutations(Names)
=============================================================================
