-------------------------------- MODULE MCConfig --------------------------------
(***************************************************************************)
(* Small instances of EngineConfig, RuleSets, Profiles, Setup, Operations  *)
(* and Admission, explored one beside the other: each is read by the       *)
(* others' services only as a whole, and their interleaving would only     *)
(* multiply states.  "part" is chosen at the start and never changes.      *)
(***************************************************************************)
EXTENDS EngineConfig, RuleSets, Profiles, Setup, Operations, Admission

MCTemplate == {"t1", "t2"}
MCMethods  == {"m1", "m2"}

VARIABLE part

serverVars  == <<configVars, ruleSetVars, profileVars>>
requestVars == <<setupVars, operationsVars, admissionVars>>

Init ==
    /\ part \in {"config", "routes", "profiles", "setup", "operations",
                 "admission"}
    /\ EngineConfigInit /\ (part # "config" => syncs)
    /\ RuleSetsInit /\ ProfilesInit /\ SetupInit /\ OperationsInit
    /\ AdmissionInit /\ (part # "admission" => field = "domain")

ServerNext ==
    \/ part = "config" /\ EngineConfigNext /\ UNCHANGED <<ruleSetVars, profileVars>>
    \/ part = "routes" /\ RuleSetsNext /\ UNCHANGED <<configVars, profileVars>>
    \/ part = "profiles" /\ ProfilesNext /\ UNCHANGED <<configVars, ruleSetVars>>

RequestNext ==
    \/ part = "setup" /\ SetupNext /\ UNCHANGED <<operationsVars, admissionVars>>
    \/ part = "operations" /\ OperationsNext /\ UNCHANGED <<setupVars, admissionVars>>
    \/ part = "admission" /\ AdmissionNext /\ UNCHANGED <<setupVars, operationsVars>>

Next ==
    /\ UNCHANGED part
    /\ \/ ServerNext /\ UNCHANGED requestVars
       \/ RequestNext /\ UNCHANGED serverVars

Spec == Init /\ [][Next]_<<part, serverVars, requestVars>>
=============================================================================
