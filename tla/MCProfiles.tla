------------------------------ MODULE MCProfiles ------------------------------
(* The routing rules with two conditions of the owner's own, by themselves.  *)
EXTENDS Profiles
=============================================================================
