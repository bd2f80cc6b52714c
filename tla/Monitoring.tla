------------------------------ MODULE Monitoring ------------------------------
(***************************************************************************)
(* MonitoringService.  Two callers probe the services: collect() every     *)
(* minute and refreshServices() on request; both read the system, wait,    *)
(* and count what they read towards the same incidents.  collect() also    *)
(* watches gauges (disk, certificate) with two levels and hysteresis.      *)
(***************************************************************************)
EXTENDS Naturals

CONSTANTS Service, Probe,
          MaxDeaths    \* bound: crashes of the process

ASSUME MonitoringAssumption == MaxDeaths \in Nat

VARIABLES
    reading,   \* per probe: what it has read, or nothing
    state,     \* monitor_states of the services
    gauge,     \* monitor_states of the gauge
    events,    \* the last event about each service and about the gauge
    split,     \* history: a crash came between an event and its state
    deaths

monitoringVars == <<reading, state, gauge, events, split, deaths>>

Level == {"healthy", "hold", "warning", "critical"}
NoReading == [up |-> Service, level |-> "none"]

MonitoringTypeOK ==
    /\ reading \in [Probe -> [up : SUBSET Service,
                              level : Level \cup {"none", "unread"}]]
    /\ state \in [Service -> [status : {"none", "baseline", "available", "unavailable"},
                              failures : 0..2]]
    /\ gauge \in [status : {"none", "baseline", "healthy", "warning", "critical"},
                  failures : 0..2, target : {"none", "warning", "critical"}]
    /\ events \in [service : [Service -> {"none", "unavailable", "restored"}],
                   gauge : {"none", "warning", "critical", "restored"}]
    /\ split \in BOOLEAN /\ deaths \in 0..MaxDeaths

-----------------------------------------------------------------------------
(* Only "less than two" is told apart.                                     *)
Failed(n) == IF n = 0 THEN 1 ELSE 2

(* observeService(): two failures in a row make an incident, one success   *)
(* ends it.                                                                *)
Observe(old, healthy) ==
    IF healthy THEN [status |-> "available", failures |-> 0]
    ELSE LET failures == Failed(old.failures)
         IN [status |-> IF failures = 2 THEN "unavailable"
                        ELSE IF old.status = "none" THEN "baseline" ELSE old.status,
             failures |-> failures]

(* Mutation of ServiceEvent: the first failure is announced.               *)
ServiceEventEager(old, healthy, last) ==
    IF healthy THEN (IF old.status = "unavailable" THEN "restored" ELSE last)
    ELSE IF old.status # "unavailable" THEN "unavailable" ELSE last
ServiceEvent(old, healthy, last) ==
    IF healthy THEN (IF old.status = "unavailable" THEN "restored" ELSE last)
    ELSE IF Failed(old.failures) = 2 /\ old.status # "unavailable"
           THEN "unavailable" ELSE last

(* observeThreshold(): a level counts when it is seen twice running;       *)
(* holding keeps the state and forgets the target.                         *)
Confirmed(old, now) == old.target = now /\ old.failures >= 1

ObserveLevel(old, now) ==
    IF now = "hold"
      THEN [old EXCEPT !.target = "none",
                       !.status = IF @ = "none" THEN "healthy" ELSE @]
    ELSE IF now = "healthy"
      THEN [status |-> "healthy", failures |-> 0, target |-> "none"]
    ELSE [status |-> IF Confirmed(old, now) THEN now
                     ELSE IF old.status = "none" THEN "baseline" ELSE old.status,
          failures |-> IF Confirmed(old, now) THEN 2 ELSE 1, target |-> now]

LevelEvent(old, now, last) ==
    IF now = "healthy" /\ old.status \in {"warning", "critical"} THEN "restored"
    ELSE IF now \in {"warning", "critical"} /\ Confirmed(old, now) /\ old.status # now
      THEN now
    ELSE last

-----------------------------------------------------------------------------
(* A probe reads the system; refreshServices() reads no gauge, and a gauge *)
(* may be unreadable.                                                      *)
Read(p, up, level) ==
    /\ reading[p] = NoReading
    /\ reading' = [reading EXCEPT ![p] = [up |-> up, level |-> level]]
    /\ UNCHANGED <<state, gauge, events, split, deaths>>

ToldBy(r) == [s \in Service |-> ServiceEvent(state[s], s \in r.up, events.service[s])]

(* The awaits are over: services are observed one after another, then the  *)
(* gauge.                                                                  *)
Deliver(p) ==
    LET r == reading[p] IN
    /\ r # NoReading
    /\ reading' = [reading EXCEPT ![p] = NoReading]
    /\ state' = [s \in Service |-> Observe(state[s], s \in r.up)]
    /\ events' = [service |-> ToldBy(r),
                  gauge |-> IF r.level = "unread" THEN events.gauge
                            ELSE LevelEvent(gauge, r.level, events.gauge)]
    /\ gauge' = IF r.level = "unread" THEN gauge ELSE ObserveLevel(gauge, r.level)
    /\ UNCHANGED <<split, deaths>>

(* The process dies between an event and the state it announces.           *)
DeliverDies(p) ==
    /\ reading[p] # NoReading /\ deaths < MaxDeaths
    /\ \E s \in Service :
         /\ ToldBy(reading[p])[s] # events.service[s]
         /\ events' = [events EXCEPT !.service[s] = ToldBy(reading[p])[s]]
    /\ split' = TRUE /\ deaths' = deaths + 1
    /\ reading' = [q \in Probe |-> NoReading]
    /\ UNCHANGED <<state, gauge>>

MonitoringNext ==
    \E p \in Probe :
        \/ \E up \in SUBSET Service, level \in Level \cup {"unread"} : Read(p, up, level)
        \/ Deliver(p) \/ DeliverDies(p)

MonitoringInit ==
    /\ reading = [p \in Probe |-> NoReading]
    /\ state = [s \in Service |-> [status |-> "none", failures |-> 0]]
    /\ gauge = [status |-> "none", failures |-> 0, target |-> "none"]
    /\ events = [service |-> [s \in Service |-> "none"], gauge |-> "none"]
    /\ split = FALSE /\ deaths = 0

MonitoringSpec == MonitoringInit /\ [][MonitoringNext]_monitoringVars

-----------------------------------------------------------------------------
(* Properties.                                                             *)

(* Two callers that read before they wait count towards one incident: the  *)
(* journal ends with an incident exactly while the state says there is     *)
(* one, at the same level, unless a crash came between the two.            *)
IncidentsMatchState ==
    ~split =>
      /\ \A s \in Service :
           state[s].status = "unavailable" <=> events.service[s] = "unavailable"
      /\ \A l \in {"warning", "critical"} :
           gauge.status = l <=> events.gauge = l
=============================================================================
