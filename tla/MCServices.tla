------------------------------ MODULE MCServices ------------------------------
(***************************************************************************)
(* Small instances of nine modules, explored one beside the other: they    *)
(* share no state, so that their interleaving would only multiply states.  *)
(* "part" is chosen at the start and never changes.                        *)
(***************************************************************************)
EXTENDS Diagnostics, Releases, Restore, Templates,
        ConnectionOffers, Gateway, Journal

SomeVersions ==
    {Pre(1, <<Text(1)>>), Pre(1, <<Text(1), Number(2)>>), Final(1)}

SomeExtras == {{"mihomo"}, {"sing-box"}}

VARIABLE part

connectionVars == <<vars, deliveryVars>>

servicesVars == <<part, diagnosticVars, releasesVars,
                  restoreVars, mergeVars, templateVars, methodVars, gatewayVars,
                  journalVars, connectionVars>>

PresetMergeIdle ==
    /\ base = missing /\ user = missing /\ preset = missing
    /\ merge = Result(missing, FALSE) /\ document = missing
    /\ target = 1 /\ phase = "merge"

TemplatesIdle ==
    engine = "mihomo" /\ present = FALSE /\ revisions = <<>> /\ report = "none"

MethodsIdle == methodSetting = <<>> /\ enginesHere = {} /\ methodEdits = 0

ServicesInit ==
    /\ part \in {"diagnostics", "releases", "restore", "merge",
                "templates", "methods", "gateway", "journal", "delivery"}
    /\ DiagnosticsInit /\ ReleasesInit /\ RestoreInit
    /\ IF part = "merge" THEN PresetMergeInit ELSE PresetMergeIdle
    /\ IF part = "templates" THEN TemplatesInit ELSE TemplatesIdle
    /\ IF part = "methods" THEN MethodsInit ELSE MethodsIdle
    /\ GatewayInit /\ JournalInit
    /\ DeliveryInit

JobsNext ==
    \/ /\ part = "diagnostics" /\ DiagnosticsNext
       /\ UNCHANGED <<releasesVars, restoreVars>>
    \/ /\ part = "releases" /\ ReleasesNext
       /\ UNCHANGED <<diagnosticVars, restoreVars>>
    \/ /\ part = "restore" /\ RestoreNext
       /\ UNCHANGED <<diagnosticVars, releasesVars>>

RequestsNext ==
    \/ /\ part = "merge" /\ PresetMergeNext
       /\ UNCHANGED <<templateVars, methodVars, gatewayVars, journalVars>>
    \/ /\ part = "templates" /\ TemplatesNext
       /\ UNCHANGED <<mergeVars, methodVars, gatewayVars, journalVars>>
    \/ /\ part = "methods" /\ MethodsNext
       /\ UNCHANGED <<mergeVars, templateVars, gatewayVars, journalVars>>
    \/ /\ part = "gateway" /\ GatewayNext
       /\ UNCHANGED <<mergeVars, templateVars, methodVars, journalVars>>
    \/ /\ part = "journal" /\ JournalNext
       /\ UNCHANGED <<mergeVars, templateVars, methodVars, gatewayVars>>

ServicesNext ==
    /\ UNCHANGED part
    /\ \/ /\ JobsNext
          /\ UNCHANGED <<mergeVars, templateVars, methodVars, gatewayVars,
                         journalVars, connectionVars>>
       \/ /\ RequestsNext
          /\ UNCHANGED <<diagnosticVars, releasesVars, restoreVars,
                         connectionVars>>
       \/ /\ part = "delivery" /\ DeliveryNext
          /\ UNCHANGED <<diagnosticVars, releasesVars, restoreVars,
                         mergeVars, templateVars, methodVars, gatewayVars, journalVars>>

ServicesSpec == ServicesInit /\ [][ServicesNext]_servicesVars
=============================================================================
