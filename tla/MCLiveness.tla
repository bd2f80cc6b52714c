------------------------------ MODULE MCLiveness ------------------------------
(***************************************************************************)
(* Small instances of the two modules that promise an end, the outbox of a *)
(* connection and the installation of an engine, explored one beside the   *)
(* other: "part" is chosen at the start and never changes.  What is fair   *)
(* in one part is never enabled in the other.                              *)
(***************************************************************************)
EXTENDS ConnectionSync, EngineInstall

VARIABLE part

LivenessInit ==
    /\ part \in {"connection", "install"}
    /\ Init
    /\ EngineInstallInit /\ (part # "install" => dirs = {})

LivenessNext ==
    /\ UNCHANGED part
    /\ \/ part = "connection" /\ Next /\ UNCHANGED installVars
       \/ part = "install" /\ EngineInstallNext /\ UNCHANGED vars

LivenessSpec ==
    /\ LivenessInit /\ [][LivenessNext]_<<part, vars, installVars>>
    /\ Fairness /\ EngineInstallFairness
=============================================================================
