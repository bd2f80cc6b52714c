----------------------------- MODULE MCAppUpdate -----------------------------
(* Small instances of AppUpdate.                                           *)
EXTENDS AppUpdate, TLC

UpdateSymmetry == Permutations(Update)
=============================================================================
