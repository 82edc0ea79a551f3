----------------------------- MODULE MCTableRows -----------------------------
(* Instances of TableRows for TLC.                                          *)
EXTENDS TableRows, TLC

ValueSymmetry == Permutations(Values)
=============================================================================
