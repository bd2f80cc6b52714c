-------------------------- MODULE ConnectionAccess --------------------------
(***************************************************************************)
(* What an owner is promised about one person's access, with no outbox, no *)
(* engines and no crashes: a connection is issued closed, admits its       *)
(* holder, is shut for a while, is reissued under a new edition of its     *)
(* link and credentials, and is retired for good.  At most one edition is  *)
(* ever accepted, and an edition once replaced never is again.             *)
(***************************************************************************)
EXTENDS Naturals

CONSTANTS Conn, MaxGen

VARIABLES door,     \* what the link and Hysteria auth answer
          edition   \* the generation they answer for

Issue(c) ==
    /\ door[c] = "none"
    /\ door' = [door EXCEPT ![c] = "closed"]
    /\ edition' = [edition EXCEPT ![c] = 1]

Admit(c) ==
    /\ door[c] = "closed"
    /\ door' = [door EXCEPT ![c] = "open"]
    /\ UNCHANGED edition

Shut(c) ==
    /\ door[c] = "open"
    /\ door' = [door EXCEPT ![c] = "closed"]
    /\ UNCHANGED edition

(* The old link stops working at once, the new one works after Admit.      *)
Reissue(c) ==
    /\ door[c] = "open"
    /\ edition[c] < MaxGen
    /\ door' = [door EXCEPT ![c] = "closed"]
    /\ edition' = [edition EXCEPT ![c] = edition[c] + 1]

Retire(c) ==
    /\ door[c] \in {"closed", "open"}
    /\ door' = [door EXCEPT ![c] = "gone"]
    /\ UNCHANGED edition

AccessInit == /\ door = [c \in Conn |-> "none"]
              /\ edition = [c \in Conn |-> 0]

AccessNext == \E c \in Conn :
    Issue(c) \/ Admit(c) \/ Shut(c) \/ Reissue(c) \/ Retire(c)

AccessSpec == AccessInit /\ [][AccessNext]_<<door, edition>>
=============================================================================
