------------------------- MODULE MCConnectionSync -------------------------
(* Small instances of ConnectionSync.                                      *)
EXTENDS ConnectionSync, TLC

ConnSymmetry == Permutations(Conn)
=============================================================================
