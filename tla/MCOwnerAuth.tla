---------------------------- MODULE MCOwnerAuth ----------------------------
(* Small instances of OwnerAuth.                                           *)
EXTENDS OwnerAuth, TLC

AuthSymmetry == Permutations(Challenge) \cup Permutations(Key)
                  \cup Permutations(Session) \cup Permutations(Invite)
=============================================================================
