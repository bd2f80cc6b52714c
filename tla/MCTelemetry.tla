------------------------------ MODULE MCTelemetry ------------------------------
(***************************************************************************)
(* Small instances of the modules of telemetry, of the panel that shows    *)
(* what they keep, of an engine's own journal, of the GeoSite database and *)
(* of the opening of the SQLite one, explored one beside the other: they   *)
(* share no state, so that their interleaving would only multiply states.  *)
(* "part" is chosen at the start and never changes.                        *)
(***************************************************************************)
EXTENDS Traffic, Presence, Monitoring, Panel, GeoSite,
        ConnectionEvents, Database

MCEntry ==
    {[type |-> "domain", value |-> "v", attributes |-> {}],
     [type |-> "full", value |-> "v", attributes |-> {"cn", "!cn"}]}

VARIABLE part

telemetryVars == <<trafficVars, presenceVars, monitoringVars, eventVars>>
readVars      == <<panelVars, geoSiteVars, databaseVars>>

Init ==
    /\ part \in {"traffic", "presence", "monitoring", "events",
                 "panel", "geosite", "database"}
    /\ TrafficInit /\ PresenceInit /\ MonitoringInit /\ ConnectionEventsInit
    /\ PanelInit
    /\ part # "presence" => installed = Engine
    /\ GeoSiteInit /\ (part # "geosite" => database = <<>>)
    /\ DatabaseInit /\ (part # "database" => db = Fresh)

TelemetryNext ==
    \/ /\ part = "traffic" /\ TrafficNext
       /\ UNCHANGED <<presenceVars, monitoringVars, eventVars>>
    \/ /\ part = "presence" /\ PresenceNext
       /\ UNCHANGED <<trafficVars, monitoringVars, eventVars>>
    \/ /\ part = "monitoring" /\ MonitoringNext
       /\ UNCHANGED <<trafficVars, presenceVars, eventVars>>
    \/ /\ part = "events" /\ ConnectionEventsNext
       /\ UNCHANGED <<trafficVars, presenceVars, monitoringVars>>

ReadNext ==
    \/ /\ part = "panel" /\ PanelNext
       /\ UNCHANGED <<geoSiteVars, databaseVars>>
    \/ /\ part = "geosite" /\ GeoSiteNext
       /\ UNCHANGED <<panelVars, databaseVars>>
    \/ /\ part = "database" /\ DatabaseNext
       /\ UNCHANGED <<panelVars, geoSiteVars>>

Next ==
    /\ UNCHANGED part
    /\ \/ TelemetryNext /\ UNCHANGED readVars
       \/ ReadNext /\ UNCHANGED telemetryVars

Spec == Init /\ [][Next]_<<part, telemetryVars, readVars>>
=============================================================================
