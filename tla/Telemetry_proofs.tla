--------------------------- MODULE Telemetry_proofs ---------------------------
(***************************************************************************)
(* Theorems about Monitoring, Presence, Panel, GeoSite and Database, for   *)
(* any number of services, probes, users, engines, changes, categories,    *)
(* jobs and mishaps: the journal of events and the state that keeps them   *)
(* from being recorded twice never part, an absence is only concluded      *)
(* from answers, a panel that listens shows what was announced, a cached   *)
(* category holds what the database holds of it, and a database that was   *)
(* opened is complete.                                                     *)
(***************************************************************************)
EXTENDS Presence, Monitoring, Panel, GeoSite, Database, WellFoundedInduction,
        TLAPS

-----------------------------------------------------------------------------
(* Monitoring.                                                             *)

(* A probe waits with a reading, whose level is one that can be observed,  *)
(* or not at all.                                                          *)
Readings == {NoReading} \cup [up : SUBSET Service, level : Level \cup {"unread"}]

StateRow == [status : {"none", "baseline", "available", "unavailable"},
             failures : 0..2]
GaugeRow == [status : {"none", "baseline", "healthy", "warning", "critical"},
             failures : 0..2, target : {"none", "warning", "critical"}]
ServiceTold == {"none", "unavailable", "restored"}
GaugeTold   == {"none", "warning", "critical", "restored"}

MonitoringIInv ==
    /\ reading \in [Probe -> Readings]
    /\ state \in [Service -> StateRow] /\ gauge \in GaugeRow
    /\ events \in [service : [Service -> ServiceTold], gauge : GaugeTold]
    /\ split \in BOOLEAN /\ deaths \in 0..MaxDeaths
    /\ IncidentsMatchState

(* One service observed once: the row and the event stay typed and, when   *)
(* they agreed, agree.                                                     *)
LEMMA ObserveAgrees ==
    ASSUME NEW old \in StateRow, NEW healthy \in BOOLEAN, NEW last \in ServiceTold
    PROVE  /\ Observe(old, healthy) \in StateRow
           /\ ServiceEvent(old, healthy, last) \in ServiceTold
           /\ (old.status = "unavailable" <=> last = "unavailable")
                => (Observe(old, healthy).status = "unavailable"
                      <=> ServiceEvent(old, healthy, last) = "unavailable")
BY DEF Observe, ServiceEvent, Failed, StateRow, ServiceTold

(* The same of a level of the gauge.                                       *)
LEMMA LevelAgrees ==
    ASSUME NEW old \in GaugeRow, NEW now \in Level, NEW last \in GaugeTold
    PROVE  /\ ObserveLevel(old, now) \in GaugeRow
           /\ LevelEvent(old, now, last) \in GaugeTold
           /\ (\A l \in {"warning", "critical"} : old.status = l <=> last = l)
                => \A l \in {"warning", "critical"} :
                     ObserveLevel(old, now).status = l <=> LevelEvent(old, now, last) = l
<1>1. CASE now = "hold"
      BY <1>1 DEF ObserveLevel, LevelEvent, GaugeRow, GaugeTold
<1>2. CASE now = "healthy"
      BY <1>2 DEF ObserveLevel, LevelEvent, GaugeRow, GaugeTold
<1>3. CASE now \in {"warning", "critical"}
      BY <1>3 DEF ObserveLevel, LevelEvent, Confirmed, GaugeRow, GaugeTold
<1> QED BY <1>1, <1>2, <1>3 DEF Level

LEMMA DeliverStep ==
    ASSUME MonitoringIInv, NEW p \in Probe, Deliver(p)
    PROVE  MonitoringIInv'
<1> DEFINE r == reading[p]
<1> USE DEF MonitoringIInv
<1>1. r \in Readings /\ r # NoReading BY DEF Deliver
<1>2. r.level = "unread" \/ r.level \in Level BY <1>1 DEF Readings
<1>3. /\ reading' = [reading EXCEPT ![p] = NoReading]
      /\ state' = [s \in Service |-> Observe(state[s], s \in r.up)]
      /\ UNCHANGED <<split, deaths>>
      BY DEF Deliver
<1>4. /\ events'.service = [s \in Service |->
                              ServiceEvent(state[s], s \in r.up, events.service[s])]
      /\ events'.gauge = IF r.level = "unread" THEN events.gauge
                         ELSE LevelEvent(gauge, r.level, events.gauge)
      /\ events' = [service |-> events'.service, gauge |-> events'.gauge]
      BY DEF Deliver, ToldBy
<1>5. gauge' = IF r.level = "unread" THEN gauge ELSE ObserveLevel(gauge, r.level)
      BY DEF Deliver
<1>6. ASSUME NEW s \in Service
      PROVE  /\ state'[s] \in StateRow /\ events'.service[s] \in ServiceTold
             /\ ~split => (state'[s].status = "unavailable"
                             <=> events'.service[s] = "unavailable")
  <2>1. /\ state[s] \in StateRow /\ events.service[s] \in ServiceTold
        OBVIOUS
  <2>2. ~split => (state[s].status = "unavailable"
                     <=> events.service[s] = "unavailable")
        BY DEF IncidentsMatchState
  <2>3. /\ state'[s] = Observe(state[s], s \in r.up)
        /\ events'.service[s] = ServiceEvent(state[s], s \in r.up, events.service[s])
        BY <1>3, <1>4
  <2>4. /\ Observe(state[s], s \in r.up) \in StateRow
        /\ ServiceEvent(state[s], s \in r.up, events.service[s]) \in ServiceTold
        /\ (state[s].status = "unavailable" <=> events.service[s] = "unavailable")
             => (Observe(state[s], s \in r.up).status = "unavailable"
                   <=> ServiceEvent(state[s], s \in r.up, events.service[s])
                         = "unavailable")
    <3>1. CASE s \in r.up
      <4>1. /\ Observe(state[s], s \in r.up) = Observe(state[s], TRUE)
            /\ ServiceEvent(state[s], s \in r.up, events.service[s])
                 = ServiceEvent(state[s], TRUE, events.service[s])
            BY <3>1 DEF Observe, ServiceEvent
      <4>2. /\ Observe(state[s], TRUE) \in StateRow
            /\ ServiceEvent(state[s], TRUE, events.service[s]) \in ServiceTold
            /\ (state[s].status = "unavailable" <=> events.service[s] = "unavailable")
                 => (Observe(state[s], TRUE).status = "unavailable"
                       <=> ServiceEvent(state[s], TRUE, events.service[s])
                             = "unavailable")
            BY <2>1, ObserveAgrees
      <4> QED BY <4>1, <4>2
    <3>2. CASE s \notin r.up
      <4>1. /\ Observe(state[s], s \in r.up) = Observe(state[s], FALSE)
            /\ ServiceEvent(state[s], s \in r.up, events.service[s])
                 = ServiceEvent(state[s], FALSE, events.service[s])
            BY <3>2 DEF Observe, ServiceEvent
      <4>2. /\ Observe(state[s], FALSE) \in StateRow
            /\ ServiceEvent(state[s], FALSE, events.service[s]) \in ServiceTold
            /\ (state[s].status = "unavailable" <=> events.service[s] = "unavailable")
                 => (Observe(state[s], FALSE).status = "unavailable"
                       <=> ServiceEvent(state[s], FALSE, events.service[s])
                             = "unavailable")
            BY <2>1, ObserveAgrees
      <4> QED BY <4>1, <4>2
    <3> QED BY <3>1, <3>2
  <2> QED BY <2>2, <2>3, <2>4
<1>7. /\ gauge' \in GaugeRow /\ events'.gauge \in GaugeTold
      /\ ~split => \A l \in {"warning", "critical"} :
                      gauge'.status = l <=> events'.gauge = l
  <2>1. /\ gauge \in GaugeRow /\ events.gauge \in GaugeTold
        /\ ~split => \A l \in {"warning", "critical"} :
                        gauge.status = l <=> events.gauge = l
        BY DEF IncidentsMatchState
  <2>2. CASE r.level = "unread" BY <2>1, <2>2, <1>4, <1>5
  <2>3. CASE r.level # "unread"
    <3>1. r.level \in Level BY <2>3, <1>2
    <3> QED BY <3>1, <2>1, <2>3, <1>4, <1>5, LevelAgrees
  <2> QED BY <2>2, <2>3
<1>8. reading' \in [Probe -> Readings] BY <1>3 DEF Readings
<1>9. state' \in [Service -> StateRow] BY <1>3, <1>6
<1>10. events'.service \in [Service -> ServiceTold] BY <1>4, <1>6
<1>11. IncidentsMatchState' BY <1>3, <1>6, <1>7 DEF IncidentsMatchState
<1> QED BY <1>3, <1>4, <1>7, <1>8, <1>9, <1>10, <1>11

LEMMA MonitoringNextStep ==
    MonitoringIInv /\ [MonitoringNext]_monitoringVars => MonitoringIInv'
<1> SUFFICES ASSUME MonitoringIInv, [MonitoringNext]_monitoringVars
             PROVE  MonitoringIInv'
    OBVIOUS
<1> USE DEF MonitoringIInv
<1>1. ASSUME NEW p \in Probe, NEW up \in SUBSET Service,
             NEW level \in Level \cup {"unread"}, Read(p, up, level)
      PROVE  MonitoringIInv'
      BY <1>1 DEF Read, Readings, IncidentsMatchState
<1>2. ASSUME NEW p \in Probe, Deliver(p)
      PROVE  MonitoringIInv'
      BY <1>2, DeliverStep
<1>3. ASSUME NEW p \in Probe, DeliverDies(p)
      PROVE  MonitoringIInv'
  <2>1. PICK s \in Service :
           events' = [events EXCEPT !.service[s] = ToldBy(reading[p])[s]]
        BY <1>3 DEF DeliverDies
  <2>2. ToldBy(reading[p])[s] \in ServiceTold
    <3>1. (s \in reading[p].up) \in BOOLEAN OBVIOUS
    <3> QED BY <3>1, ObserveAgrees DEF ToldBy
  <2>3. events' \in [service : [Service -> ServiceTold], gauge : GaugeTold]
        BY <2>1, <2>2
  <2>4. /\ reading' = [q \in Probe |-> NoReading] /\ split' = TRUE
        /\ deaths' \in 0..MaxDeaths /\ UNCHANGED <<state, gauge>>
        BY <1>3, MonitoringAssumption DEF DeliverDies
  <2>5. IncidentsMatchState' BY <2>4 DEF IncidentsMatchState
  <2> QED BY <2>3, <2>4, <2>5 DEF Readings
<1>4. CASE UNCHANGED monitoringVars
      BY <1>4 DEF monitoringVars, IncidentsMatchState
<1> QED BY <1>1, <1>2, <1>3, <1>4 DEF MonitoringNext

LEMMA MonitoringInitStep == MonitoringInit => MonitoringIInv
<1> SUFFICES ASSUME MonitoringInit PROVE MonitoringIInv
    OBVIOUS
<1>1. reading \in [Probe -> Readings] BY DEF MonitoringInit, Readings
<1>2. state \in [Service -> StateRow] /\ gauge \in GaugeRow
      BY DEF MonitoringInit, StateRow, GaugeRow
<1>3. events \in [service : [Service -> ServiceTold], gauge : GaugeTold]
      BY DEF MonitoringInit, ServiceTold, GaugeTold
<1>4. split \in BOOLEAN BY DEF MonitoringInit
<1>6. deaths \in 0..MaxDeaths BY MonitoringAssumption DEF MonitoringInit
<1>5. IncidentsMatchState BY DEF MonitoringInit, IncidentsMatchState
<1> QED BY <1>1, <1>2, <1>3, <1>4, <1>5, <1>6 DEF MonitoringIInv

(* collect() and refreshServices() count towards one incident: whatever    *)
(* they read before they waited, in whatever order they deliver it, and    *)
(* whatever a gauge does between its levels, the journal ends with an      *)
(* incident exactly while monitor_states says there is one.                *)
THEOREM IncidentsAgree == MonitoringSpec => []IncidentsMatchState
<1>1. MonitoringIInv => IncidentsMatchState BY DEF MonitoringIInv
<1> QED BY <1>1, MonitoringInitStep, MonitoringNextStep, PTL DEF MonitoringSpec

-----------------------------------------------------------------------------
(* Presence.                                                               *)

ConnRow == [state : {"active", "suspended", "rotating"}, first : BOOLEAN,
            last : Moment \cup {Never}, absent : BOOLEAN]
SeenRow == [status : {"none", "unknown", "online", "offline"}, misses : 0..2,
            active : Moment \cup {Never}]
HealthRow  == [status : {"baseline", "available", "unavailable"}, failures : 0..2]
UserTold   == {"none", "first_seen", "offline_long", "returned"}
EngineTold == {"none", "unavailable", "restored"}

PresenceTyped ==
    /\ time \in Moment /\ installed \in SUBSET Engine
    /\ conn \in [User -> ConnRow] /\ seen \in [User -> [Engine -> SeenRow]]
    /\ health \in [Engine -> HealthRow]
    /\ cycle \in [busy : BOOLEAN, asked : SUBSET Engine]
    /\ journal \in [user : [User -> UserTold], engine : [Engine -> EngineTold]]
    /\ lost \in SUBSET (User \cup Engine) /\ rotated \in SUBSET User
    /\ restarts \in 0..MaxRestarts

(* A time of last activity is only kept with the first one.                *)
ActivityKept == \A u \in User : conn[u].last # Never => conn[u].first

(* A row says "online" or "offline" only while its engine's last answer    *)
(* was one.  A user whose credentials are being replaced is passed over by *)
(* a failure, and a crash may separate the rows from the engine's health.  *)
AnswersCounted ==
    \A u \in User \ rotated :
        /\ conn[u].state # "rotating"
        /\ \A e \in Engine \ lost :
              seen[u][e].status \in {"online", "offline"} => health[e].failures = 0

PresenceIInv == PresenceTyped /\ ActivityKept /\ AnswersCounted /\ EventsMatchState

(* The greatest of some moments is one of them.                            *)
LEMMA MaxOfMoments ==
    ASSUME NEW S \in SUBSET Moment, S # {}
    PROVE  Max(S) \in S
<1> DEFINE T == {LastTick - x : x \in S}
           R == OpToRel(<, Nat)
<1>1. LastTick \in Nat BY PresenceAssumption
<1>2. T \subseteq Nat BY <1>1 DEF Moment
<1>3. T # {}
  <2>1. PICK x \in S : TRUE OBVIOUS
  <2>2. LastTick - x \in T BY <2>1
  <2> QED BY <2>2
<1>4. PICK t \in T : \A y \in T : ~ (<<y, t>> \in R)
  <2> HIDE DEF T
  <2> QED BY <1>2, <1>3, NatLessThanWellFounded, WFMin
<1>7. \A y \in T : t <= y
  <2> SUFFICES ASSUME NEW y \in T PROVE t <= y
      OBVIOUS
  <2>1. t \in Nat /\ y \in Nat /\ <<y, t>> \notin R BY <1>2, <1>4
  <2>2. ~ (y < t) BY <2>1 DEF OpToRel
  <2> HIDE DEF T, R
  <2> QED BY <2>1, <2>2
<1>5. PICK x \in S : t = LastTick - x BY <1>4
<1>6. ASSUME NEW y \in S PROVE x >= y
  <2>1. LastTick - y \in T OBVIOUS
  <2> QED BY <2>1, <1>1, <1>7, <1>5 DEF Moment
<1> QED BY <1>5, <1>6 DEF Max

LEMMA NoRowTyped == NoRow \in SeenRow BY DEF NoRow, SeenRow

(* updatePresence() writes a row, and never leaves "none" behind a success *)
(* of the engine.                                                          *)
LEMMA ObservedTyped ==
    ASSUME PresenceTyped, NEW old \in SeenRow, NEW e, NEW active \in BOOLEAN
    PROVE  Observed(old, e, active) \in SeenRow
<1>1. time \in Moment BY DEF PresenceTyped
<1> QED BY <1>1 DEF Observed, SeenRow

(* What one user's facts do to the columns and to the last event.          *)
LEMMA FactsTyped ==
    ASSUME PresenceIInv, NEW u \in User
    PROVE  /\ FactsOf(u).columns \in ConnRow
           /\ FactsOf(u).event \in UserTold
           /\ FactsOf(u).columns.state = conn[u].state
           /\ FactsOf(u).columns.last # Never => FactsOf(u).columns.first
<1> DEFINE online == {e \in installed : seen[u][e].status = "online"}
           at == {seen[u][e].active : e \in online} \ {Never}
           moment == IF at = {} THEN time ELSE Max(at)
<1>1. conn[u] \in ConnRow /\ time \in Moment
      BY DEF PresenceIInv, PresenceTyped
<1>2. moment \in Moment
  <2>1. at \in SUBSET Moment BY DEF PresenceIInv, PresenceTyped, SeenRow
  <2> HIDE DEF at
  <2> QED BY <1>1, <2>1, MaxOfMoments
<1> HIDE DEF online, moment
<1>3. SeenAgain(conn[u], moment) \in ConnRow
      /\ SeenAgain(conn[u], moment).first
      /\ SeenAgain(conn[u], moment).state = conn[u].state
      BY <1>1, <1>2 DEF SeenAgain, ConnRow
<1>4. conn[u].last # Never => conn[u].first BY DEF PresenceIInv, ActivityKept
<1>5. CASE online # {}
  <2>1. FactsOf(u) = [columns |-> SeenAgain(conn[u], moment),
                      event |-> IF ~conn[u].first THEN "first_seen"
                                ELSE IF conn[u].absent THEN "returned" ELSE "none"]
        BY <1>5 DEF FactsOf, online, moment
  <2>2. /\ FactsOf(u).columns = SeenAgain(conn[u], moment)
        /\ FactsOf(u).event \in UserTold
        BY <2>1 DEF UserTold
  <2> QED BY <2>2, <1>3
<1>6. CASE online = {}
  <2> DEFINE gone == [conn[u] EXCEPT !.absent = TRUE]
  <2>1. \/ FactsOf(u) = [columns |-> gone, event |-> "offline_long"]
        \/ FactsOf(u) = [columns |-> conn[u], event |-> "none"]
        BY <1>6 DEF FactsOf, online
  <2>2. /\ gone \in ConnRow /\ gone.state = conn[u].state
        /\ gone.last = conn[u].last /\ gone.first = conn[u].first
        BY <1>1 DEF ConnRow
  <2>3. {"offline_long", "none"} \subseteq UserTold BY DEF UserTold
  <2> HIDE DEF gone
  <2> QED BY <2>1, <2>2, <2>3, <1>1, <1>4
<1> QED BY <1>5, <1>6

(* And what they leave of the agreement of columns and journal.            *)
LEMMA FactsAgree ==
    ASSUME PresenceIInv, NEW u \in User \ lost,
           NEW told, told = IF FactsOf(u).event # "none" THEN FactsOf(u).event
                            ELSE journal.user[u]
    PROVE  /\ FactsOf(u).columns.absent <=> told = "offline_long"
           /\ FactsOf(u).columns.first <=> told # "none"
<1> DEFINE online == {e \in installed : seen[u][e].status = "online"}
           at == {seen[u][e].active : e \in online} \ {Never}
           moment == IF at = {} THEN time ELSE Max(at)
           back == SeenAgain(conn[u], moment)
           gone == [conn[u] EXCEPT !.absent = TRUE]
<1>1. conn[u] \in ConnRow BY DEF PresenceIInv, PresenceTyped
<1>2. /\ conn[u].absent <=> journal.user[u] = "offline_long"
      /\ conn[u].first <=> journal.user[u] # "none"
      /\ conn[u].last # Never => conn[u].first
      BY DEF PresenceIInv, EventsMatchState, ActivityKept
<1>3. CASE online # {}
  <2>1. FactsOf(u) = [columns |-> back,
                      event |-> IF ~conn[u].first THEN "first_seen"
                                ELSE IF conn[u].absent THEN "returned" ELSE "none"]
        BY <1>3 DEF FactsOf
  <2>2. ~ back.absent /\ back.first BY <1>1 DEF SeenAgain, ConnRow
  <2> HIDE DEF back, online
  <2> QED BY <2>1, <2>2, <1>2
<1>4. CASE online = {}
  <2>1. \/ /\ FactsOf(u) = [columns |-> gone, event |-> "offline_long"]
           /\ conn[u].last # Never
        \/ FactsOf(u) = [columns |-> conn[u], event |-> "none"]
        BY <1>4 DEF FactsOf
  <2>2. gone.absent /\ gone.first = conn[u].first BY <1>1 DEF ConnRow
  <2> HIDE DEF gone, online
  <2> QED BY <2>1, <2>2, <1>2
<1> QED BY <1>3, <1>4

(* The engine's part of an answer or a failure: what Telemetry() does when *)
(* the next row and the event agree.                                       *)
LEMMA TelemetryStep ==
    ASSUME PresenceIInv, NEW e \in Engine, NEW next \in HealthRow,
           NEW event \in EngineTold, Telemetry(e, next, event),
           e \notin lost => (next.status = "unavailable" <=> event = "unavailable")
    PROVE  /\ health' \in [Engine -> HealthRow]
           /\ cycle' \in [busy : BOOLEAN, asked : SUBSET Engine]
           /\ journal' \in [user : [User -> UserTold], engine : [Engine -> EngineTold]]
           /\ journal'.user = journal.user
           /\ lost \subseteq lost' /\ lost' \in SUBSET (User \cup Engine)
           /\ restarts' \in 0..MaxRestarts
           /\ \A f \in Engine \ lost' :
                /\ health'[f].status = "unavailable" <=> journal'.engine[f] = "unavailable"
                /\ health'[f] = IF f = e THEN next ELSE health[f]
<1>1. PresenceTyped /\ \A f \in Engine \ lost :
        health[f].status = "unavailable" <=> journal.engine[f] = "unavailable"
      BY DEF PresenceIInv, EventsMatchState
<1>2. journal' = [journal EXCEPT !.engine[e] = event] BY DEF Telemetry
<1>3. /\ journal' \in [user : [User -> UserTold], engine : [Engine -> EngineTold]]
      /\ journal'.user = journal.user
      /\ \A f \in Engine : journal'.engine[f] = IF f = e THEN event
                                                ELSE journal.engine[f]
      BY <1>1, <1>2 DEF PresenceTyped
<1>4. CASE /\ Answered(e) /\ UNCHANGED lost
           /\ health' = [health EXCEPT ![e] = next]
      BY <1>1, <1>3, <1>4 DEF PresenceTyped, Answered
<1>5. CASE Dies /\ lost' = lost \cup {e} /\ UNCHANGED health
  <2>1. restarts' \in 0..MaxRestarts
        BY <1>1, <1>5, PresenceAssumption DEF PresenceTyped, Dies
  <2>2. cycle' \in [busy : BOOLEAN, asked : SUBSET Engine] BY <1>5 DEF Dies
  <2> QED BY <1>1, <1>3, <1>5, <2>1, <2>2 DEF PresenceTyped
<1> QED BY <1>4, <1>5 DEF Telemetry

-----------------------------------------------------------------------------
(* The steps.                                                              *)

LEMMA SucceedsStep ==
    ASSUME PresenceIInv, NEW e \in Engine, NEW active \in SUBSET User,
           Succeeds(e, active)
    PROVE  PresenceIInv'
<1> DEFINE next  == [status |-> "available", failures |-> 0]
           event == IF health[e].status = "unavailable" THEN "restored"
                    ELSE journal.engine[e]
           row   == [u \in User |-> Observed(seen[u][e], e, u \in active)]
<1>1. PresenceTyped /\ EventsMatchState /\ ActivityKept /\ AnswersCounted
      BY DEF PresenceIInv
<1>2. next \in HealthRow /\ event \in EngineTold /\ Telemetry(e, next, event)
      BY <1>1 DEF Succeeds, HealthRow, EngineTold, PresenceTyped
<1>3. e \notin lost => (next.status = "unavailable" <=> event = "unavailable")
      BY <1>1 DEF EventsMatchState
<1>4. next.failures = 0 OBVIOUS
<1>5. \A u \in User : row[u] \in SeenRow
  <2> SUFFICES ASSUME NEW u \in User PROVE row[u] \in SeenRow
      OBVIOUS
  <2>1. seen[u][e] \in SeenRow BY <1>1 DEF PresenceTyped
  <2>2. CASE u \in active
        BY <1>1, <2>1, <2>2, ObservedTyped DEF Observed
  <2>3. CASE u \notin active
        BY <1>1, <2>1, <2>3, ObservedTyped DEF Observed
  <2> QED BY <2>2, <2>3
<1>6. seen' = SeenBy(e, ActiveUsers, row) /\ UNCHANGED <<time, installed, conn, rotated>>
      BY DEF Succeeds
<1> HIDE DEF next, event, row
<1>7. /\ health' \in [Engine -> HealthRow]
      /\ cycle' \in [busy : BOOLEAN, asked : SUBSET Engine]
      /\ journal' \in [user : [User -> UserTold], engine : [Engine -> EngineTold]]
      /\ journal'.user = journal.user
      /\ lost \subseteq lost' /\ lost' \in SUBSET (User \cup Engine)
      /\ restarts' \in 0..MaxRestarts
      /\ \A f \in Engine \ lost' :
           /\ health'[f].status = "unavailable" <=> journal'.engine[f] = "unavailable"
           /\ health'[f] = IF f = e THEN next ELSE health[f]
      BY <1>2, <1>3, TelemetryStep
<1>8. /\ seen' \in [User -> [Engine -> SeenRow]]
      /\ \A u \in User, f \in Engine :
            f # e \/ u \notin ActiveUsers => seen'[u][f] = seen[u][f]
      BY <1>1, <1>5, <1>6 DEF SeenBy, PresenceTyped
<1>9. PresenceTyped' BY <1>1, <1>6, <1>7, <1>8 DEF PresenceTyped, Moment
<1>10. ActivityKept' BY <1>1, <1>6 DEF ActivityKept
<1>11. AnswersCounted'
  <2> SUFFICES ASSUME NEW u \in User \ rotated
               PROVE  /\ conn[u].state # "rotating"
                      /\ \A f \in Engine \ lost' :
                            seen'[u][f].status \in {"online", "offline"}
                               => health'[f].failures = 0
      BY <1>6 DEF AnswersCounted
  <2> QED BY <1>1, <1>4, <1>7, <1>8 DEF AnswersCounted
<1>12. EventsMatchState'
      BY <1>1, <1>6, <1>7, <1>8 DEF EventsMatchState, ActiveUsers
<1> QED BY <1>9, <1>10, <1>11, <1>12 DEF PresenceIInv

LEMMA FailsStep ==
    ASSUME PresenceIInv, NEW e \in Engine, Fails(e)
    PROVE  PresenceIInv'
<1> DEFINE failures == Failures(health[e].failures)
           down  == failures = 2
           next  == [status |-> IF down THEN "unavailable" ELSE health[e].status,
                     failures |-> failures]
           event == IF down /\ health[e].status # "unavailable"
                      THEN "unavailable" ELSE journal.engine[e]
           row   == [u \in User |-> [seen[u][e] EXCEPT !.status = "unknown"]]
<1>1. PresenceTyped /\ EventsMatchState /\ ActivityKept /\ AnswersCounted
      BY DEF PresenceIInv
<1>2. next \in HealthRow /\ event \in EngineTold /\ Telemetry(e, next, event)
      BY <1>1 DEF Fails, HealthRow, EngineTold, PresenceTyped, Failures
<1>3. e \notin lost => (next.status = "unavailable" <=> event = "unavailable")
      BY <1>1 DEF EventsMatchState
<1>4. \A u \in User : row[u] \in SeenRow /\ row[u].status = "unknown"
  <2> SUFFICES ASSUME NEW u \in User
               PROVE  row[u] \in SeenRow /\ row[u].status = "unknown"
      OBVIOUS
  <2>1. seen[u][e] \in SeenRow BY <1>1 DEF PresenceTyped
  <2>2. row[u] = [seen[u][e] EXCEPT !.status = "unknown"] OBVIOUS
  <2> HIDE DEF row
  <2> QED BY <2>1, <2>2 DEF SeenRow
<1>5. seen' = SeenBy(e, ActiveUsers, row) /\ UNCHANGED <<time, installed, conn, rotated>>
      BY DEF Fails
<1> HIDE DEF next, event, row
<1>6. /\ health' \in [Engine -> HealthRow]
      /\ cycle' \in [busy : BOOLEAN, asked : SUBSET Engine]
      /\ journal' \in [user : [User -> UserTold], engine : [Engine -> EngineTold]]
      /\ journal'.user = journal.user
      /\ lost \subseteq lost' /\ lost' \in SUBSET (User \cup Engine)
      /\ restarts' \in 0..MaxRestarts
      /\ \A f \in Engine \ lost' :
           /\ health'[f].status = "unavailable" <=> journal'.engine[f] = "unavailable"
           /\ health'[f] = IF f = e THEN next ELSE health[f]
      BY <1>2, <1>3, TelemetryStep
<1>7. /\ seen' \in [User -> [Engine -> SeenRow]]
      /\ \A u \in User, f \in Engine :
            f # e \/ u \notin ActiveUsers => seen'[u][f] = seen[u][f]
      /\ \A u \in ActiveUsers : seen'[u][e].status = "unknown"
      BY <1>1, <1>4, <1>5 DEF SeenBy, PresenceTyped, ActiveUsers
<1>8. PresenceTyped' BY <1>1, <1>5, <1>6, <1>7 DEF PresenceTyped, Moment
<1>9. ActivityKept' BY <1>1, <1>5 DEF ActivityKept
<1>10. AnswersCounted'
  <2> SUFFICES ASSUME NEW u \in User \ rotated
               PROVE  /\ conn[u].state # "rotating"
                      /\ \A f \in Engine \ lost' :
                            seen'[u][f].status \in {"online", "offline"}
                               => health'[f].failures = 0
      BY <1>5 DEF AnswersCounted
  <2>1. conn[u].state # "rotating" BY <1>1 DEF AnswersCounted
  <2>2. ASSUME NEW f \in Engine \ lost', seen'[u][f].status \in {"online", "offline"}
        PROVE  health'[f].failures = 0
    <3>1. CASE f # e BY <3>1, <2>2, <1>1, <1>6, <1>7 DEF AnswersCounted
    <3>2. CASE f = e
      <4>1. u \notin ActiveUsers BY <3>2, <2>2, <1>7
      <4>2. conn[u].state = "suspended"
            BY <4>1, <2>1, <1>1 DEF ActiveUsers, PresenceTyped, ConnRow
      <4>3. seen'[u][f] = NoRow
            BY <4>1, <4>2, <1>1, <1>7 DEF EventsMatchState
      <4> QED BY <4>3, <2>2 DEF NoRow
    <3> QED BY <3>1, <3>2
  <2> QED BY <2>1, <2>2
<1>11. EventsMatchState'
      BY <1>1, <1>5, <1>6, <1>7 DEF EventsMatchState, ActiveUsers
<1> QED BY <1>8, <1>9, <1>10, <1>11 DEF PresenceIInv

LEMMA FactsStep ==
    ASSUME PresenceIInv, UpdateActivityFacts
    PROVE  PresenceIInv'
<1>1. PresenceTyped /\ EventsMatchState /\ ActivityKept /\ AnswersCounted
      BY DEF PresenceIInv
<1>2. PICK done \in SUBSET ActiveUsers :
        \E silent \in {{}} \cup {{u} : u \in {v \in done : FactsOf(v).event # "none"}} :
           /\ conn' = [u \in User |-> IF u \in done THEN FactsOf(u).columns ELSE conn[u]]
           /\ journal' = [journal EXCEPT !.user =
                [u \in User |-> IF u \in done \ silent /\ FactsOf(u).event # "none"
                                  THEN FactsOf(u).event ELSE @[u]]]
           /\ lost' = lost \cup silent
           /\ IF done = ActiveUsers /\ silent = {}
                THEN cycle' = [busy |-> FALSE, asked |-> {}] /\ UNCHANGED restarts
                ELSE Dies
      BY DEF UpdateActivityFacts
<1>3. PICK silent \in {{}} \cup {{u} : u \in {v \in done : FactsOf(v).event # "none"}} :
           /\ conn' = [u \in User |-> IF u \in done THEN FactsOf(u).columns ELSE conn[u]]
           /\ journal' = [journal EXCEPT !.user =
                [u \in User |-> IF u \in done \ silent /\ FactsOf(u).event # "none"
                                  THEN FactsOf(u).event ELSE @[u]]]
           /\ lost' = lost \cup silent
           /\ IF done = ActiveUsers /\ silent = {}
                THEN cycle' = [busy |-> FALSE, asked |-> {}] /\ UNCHANGED restarts
                ELSE Dies
      BY <1>2
<1>4. UNCHANGED <<time, installed, seen, health, rotated>> BY DEF UpdateActivityFacts
<1>5. silent \subseteq User /\ done \subseteq User BY DEF ActiveUsers
<1>6. /\ cycle' \in [busy : BOOLEAN, asked : SUBSET Engine]
      /\ restarts' \in 0..MaxRestarts
  <2>1. CASE cycle' = [busy |-> FALSE, asked |-> {}] /\ UNCHANGED restarts
        BY <1>1, <2>1 DEF PresenceTyped
  <2>2. CASE Dies
        BY <1>1, <2>2, PresenceAssumption DEF Dies, PresenceTyped
  <2> QED BY <1>3, <2>1, <2>2
<1>7. /\ journal'.engine = journal.engine
      /\ journal'.user = [u \in User |->
            IF u \in done \ silent /\ FactsOf(u).event # "none"
              THEN FactsOf(u).event ELSE journal.user[u]]
      /\ journal' \in [user : [User -> UserTold], engine : [Engine -> EngineTold]]
      BY <1>1, <1>3, FactsTyped DEF PresenceTyped
<1>8. \A u \in User : /\ conn'[u] = IF u \in done THEN FactsOf(u).columns ELSE conn[u]
                      /\ conn'[u] \in ConnRow
                      /\ conn'[u].state = conn[u].state
                      /\ conn'[u].last # Never => conn'[u].first
      BY <1>1, <1>3, FactsTyped DEF PresenceTyped, ActivityKept
<1>9. conn' \in [User -> ConnRow] BY <1>3, <1>8
<1>10. PresenceTyped' BY <1>1, <1>3, <1>4, <1>5, <1>6, <1>7, <1>9 DEF PresenceTyped, Moment
<1>11. ActivityKept' BY <1>8 DEF ActivityKept, Never
<1>12. AnswersCounted' BY <1>1, <1>3, <1>4, <1>8 DEF AnswersCounted
<1>13. ASSUME NEW u \in User \ lost'
       PROVE  /\ conn'[u].absent <=> journal'.user[u] = "offline_long"
              /\ conn'[u].first <=> journal'.user[u] # "none"
  <2>1. u \notin lost /\ u \notin silent BY <1>3
  <2>2. CASE u \in done
    <3> DEFINE told == IF FactsOf(u).event # "none" THEN FactsOf(u).event
                       ELSE journal.user[u]
    <3>1. journal'.user[u] = told BY <1>7, <2>1, <2>2
    <3>2. conn'[u] = FactsOf(u).columns BY <1>8, <2>2
    <3>3. /\ FactsOf(u).columns.absent <=> told = "offline_long"
          /\ FactsOf(u).columns.first <=> told # "none"
          BY <2>1, FactsAgree
    <3> QED BY <3>1, <3>2, <3>3
  <2>3. CASE u \notin done
        BY <1>1, <1>7, <1>8, <2>1, <2>3 DEF EventsMatchState
  <2> QED BY <2>2, <2>3
<1>14. \A e \in Engine \ lost' :
          health'[e].status = "unavailable" <=> journal'.engine[e] = "unavailable"
       BY <1>1, <1>3, <1>4, <1>7 DEF EventsMatchState
<1>15. \A u \in User : conn'[u].state = "suspended" =>
          \A e \in Engine : seen'[u][e] = NoRow
       BY <1>1, <1>4, <1>8 DEF EventsMatchState
<1>16. EventsMatchState' BY <1>13, <1>14, <1>15 DEF EventsMatchState, NoRow, Never
<1> QED BY <1>10, <1>11, <1>12, <1>16 DEF PresenceIInv

(* Steps that leave what the journal and the engines' health are about.    *)
LEMMA BesideStep ==
    ASSUME PresenceIInv, UNCHANGED <<conn, seen, health, journal, lost, rotated>>,
           time' \in Moment, installed' \in SUBSET Engine,
           cycle' \in [busy : BOOLEAN, asked : SUBSET Engine],
           restarts' \in 0..MaxRestarts
    PROVE  PresenceIInv'
<1>1. PresenceTyped' BY DEF PresenceIInv, PresenceTyped
<1>2. ActivityKept' BY DEF PresenceIInv, ActivityKept
<1>3. AnswersCounted' BY DEF PresenceIInv, AnswersCounted
<1>4. EventsMatchState' BY DEF PresenceIInv, EventsMatchState
<1> QED BY <1>1, <1>2, <1>3, <1>4 DEF PresenceIInv

LEMMA SuspendUserStep ==
    ASSUME PresenceIInv, NEW u \in User, SuspendUser(u)
    PROVE  PresenceIInv'
<1>1. PresenceTyped /\ EventsMatchState /\ ActivityKept /\ AnswersCounted
      BY DEF PresenceIInv
<1>2. /\ conn' = [conn EXCEPT ![u].state = "suspended"]
      /\ seen' = [seen EXCEPT ![u] = [e \in Engine |-> NoRow]]
      /\ UNCHANGED <<time, installed, health, cycle, journal, lost, rotated, restarts>>
      BY DEF SuspendUser
<1>3. /\ conn' \in [User -> ConnRow]
      /\ \A v \in User : /\ conn'[v].first = conn[v].first
                         /\ conn'[v].last = conn[v].last
                         /\ conn'[v].absent = conn[v].absent
                         /\ v # u => conn'[v] = conn[v]
      /\ conn'[u].state = "suspended"
      BY <1>1, <1>2 DEF PresenceTyped, ConnRow
<1>4. /\ seen' \in [User -> [Engine -> SeenRow]]
      /\ \A v \in User, e \in Engine :
            seen'[v][e] = IF v = u THEN NoRow ELSE seen[v][e]
      BY <1>1, <1>2, NoRowTyped DEF PresenceTyped
<1>5. PresenceTyped' BY <1>1, <1>2, <1>3, <1>4 DEF PresenceTyped, Moment
<1>6. ActivityKept' BY <1>1, <1>3 DEF ActivityKept, Never
<1>7. AnswersCounted' BY <1>1, <1>2, <1>3, <1>4 DEF AnswersCounted, NoRow
<1>8. EventsMatchState' BY <1>1, <1>2, <1>3, <1>4 DEF EventsMatchState
<1> QED BY <1>5, <1>6, <1>7, <1>8 DEF PresenceIInv

LEMMA ChangeUserStep ==
    ASSUME PresenceIInv, NEW u \in User, ChangeUser(u)
    PROVE  PresenceIInv'
<1>1. PresenceTyped /\ EventsMatchState /\ ActivityKept /\ AnswersCounted
      BY DEF PresenceIInv
<1>2. PICK next \in {"active", "rotating"} :
        /\ conn[u].state # "suspended" \/ next = "active"
        /\ conn' = [conn EXCEPT ![u].state = next]
        /\ rotated' = rotated \cup {v \in {u} : next = "rotating"}
  <2>1. PICK step \in {<<"suspended", "active">>, <<"active", "rotating">>,
                       <<"rotating", "active">>} :
           /\ conn[u].state = step[1] /\ conn' = [conn EXCEPT ![u].state = step[2]]
           /\ rotated' = rotated \cup {v \in {u} : step[2] = "rotating"}
        BY DEF ChangeUser
  <2>2. step[2] \in {"active", "rotating"} /\ (step[1] = "suspended" => step[2] = "active")
        OBVIOUS
  <2> QED BY <2>1, <2>2
<1>3. UNCHANGED <<time, installed, seen, health, cycle, journal, lost, restarts>>
      BY DEF ChangeUser
<1>4. /\ conn' \in [User -> ConnRow]
      /\ \A v \in User : /\ conn'[v].first = conn[v].first
                         /\ conn'[v].last = conn[v].last
                         /\ conn'[v].absent = conn[v].absent
                         /\ v # u => conn'[v] = conn[v]
      /\ conn'[u].state = next
      BY <1>1, <1>2 DEF PresenceTyped, ConnRow
<1>5. rotated' \in SUBSET User /\ rotated \subseteq rotated'
      /\ (next = "rotating" => u \in rotated')
      BY <1>1, <1>2 DEF PresenceTyped
<1>6. PresenceTyped' BY <1>1, <1>3, <1>4, <1>5 DEF PresenceTyped, Moment
<1>7. ActivityKept' BY <1>1, <1>4 DEF ActivityKept, Never
<1>8. AnswersCounted' BY <1>1, <1>2, <1>3, <1>4, <1>5 DEF AnswersCounted
<1>9. EventsMatchState' BY <1>1, <1>2, <1>3, <1>4 DEF EventsMatchState, NoRow, Never
<1> QED BY <1>6, <1>7, <1>8, <1>9 DEF PresenceIInv

LEMMA PresenceNextStep ==
    PresenceIInv /\ [PresenceNext]_presenceVars => PresenceIInv'
<1> SUFFICES ASSUME PresenceIInv, [PresenceNext]_presenceVars
             PROVE  PresenceIInv'
    OBVIOUS
<1>1. PresenceTyped BY DEF PresenceIInv
<1>2. ASSUME NEW asked \in SUBSET installed, Ask(asked)
      PROVE  PresenceIInv'
      BY <1>1, <1>2, BesideStep DEF Ask, PresenceTyped
<1>3. ASSUME NEW e \in Engine, NEW active \in SUBSET User, Succeeds(e, active)
      PROVE  PresenceIInv'
      BY <1>3, SucceedsStep
<1>4. ASSUME NEW e \in Engine, Fails(e) PROVE PresenceIInv' BY <1>4, FailsStep
<1>5. ASSUME NEW e \in Engine, Install(e) PROVE PresenceIInv'
      BY <1>1, <1>5, BesideStep DEF Install, PresenceTyped
<1>6. ASSUME NEW u \in User, SuspendUser(u) PROVE PresenceIInv'
      BY <1>6, SuspendUserStep
<1>7. ASSUME NEW u \in User, ChangeUser(u) PROVE PresenceIInv'
      BY <1>7, ChangeUserStep
<1>8. CASE UpdateActivityFacts BY <1>8, FactsStep
<1>9. CASE PresenceTick
  <2>1. time' \in Moment
        BY <1>1, <1>9, PresenceAssumption DEF PresenceTick, PresenceTyped, Moment
  <2> QED BY <1>1, <1>9, <2>1, BesideStep DEF PresenceTick, PresenceTyped
<1>10. CASE PresenceRestart
  <2>1. restarts' \in 0..MaxRestarts
        BY <1>1, <1>10, PresenceAssumption DEF PresenceRestart, Dies, PresenceTyped
  <2>2. cycle' \in [busy : BOOLEAN, asked : SUBSET Engine]
        BY <1>10 DEF PresenceRestart, Dies
  <2> QED BY <1>1, <1>10, <2>1, <2>2, BesideStep
           DEF PresenceRestart, PresenceTyped
<1>11. CASE UNCHANGED presenceVars
      BY <1>1, <1>11, BesideStep DEF presenceVars, PresenceTyped
<1> QED BY <1>2, <1>3, <1>4, <1>5, <1>6, <1>7, <1>8, <1>9, <1>10, <1>11
        DEF PresenceNext

LEMMA PresenceInitStep == PresenceInit => PresenceIInv
<1> SUFFICES ASSUME PresenceInit PROVE PresenceIInv
    OBVIOUS
<1>1. 0 \in Moment /\ 0 \in 0..MaxRestarts BY PresenceAssumption DEF Moment
<1>2. /\ conn \in [User -> ConnRow] /\ health \in [Engine -> HealthRow]
      /\ cycle \in [busy : BOOLEAN, asked : SUBSET Engine]
      BY DEF PresenceInit, ConnRow, HealthRow
<1>3. seen \in [User -> [Engine -> SeenRow]] BY NoRowTyped DEF PresenceInit
<1>4. journal \in [user : [User -> UserTold], engine : [Engine -> EngineTold]]
      BY DEF PresenceInit, UserTold, EngineTold
<1>5. PresenceTyped BY <1>1, <1>2, <1>3, <1>4 DEF PresenceInit, PresenceTyped
<1>6. ActivityKept BY DEF PresenceInit, ActivityKept
<1>7. AnswersCounted BY DEF PresenceInit, AnswersCounted, NoRow
<1>8. EventsMatchState BY DEF PresenceInit, EventsMatchState
<1> QED BY <1>5, <1>6, <1>7, <1>8 DEF PresenceIInv

LEMMA PresenceInvariant == PresenceSpec => []PresenceIInv
BY PresenceInitStep, PresenceNextStep, PTL DEF PresenceSpec

(* Absences, returns and telemetry incidents are recorded once and         *)
(* alternate, whatever requests run while the collectors are awaited, and  *)
(* a collector asked before a suspension brings no row back; for any       *)
(* users, engines and clock.                                               *)
THEOREM EventsAgree == PresenceSpec => []EventsMatchState
BY PresenceInvariant, PTL DEF PresenceIInv

(* An absence is only recorded when every installed engine's last answer   *)
(* was that the user is offline: a failing API is none.                    *)
THEOREM AbsencesObserved == PresenceSpec => AbsenceIsObserved
<1>1. ASSUME PresenceIInv, [PresenceNext]_presenceVars,
             NEW u \in User \ rotated, conn'[u].absent, ~conn[u].absent,
             NEW e \in installed
      PROVE  /\ seen[u][e].status = "offline"
             /\ e \notin lost => health[e].failures = 0
  <2>1. PresenceTyped /\ AnswersCounted BY <1>1 DEF PresenceIInv
  <2>2. UpdateActivityFacts
    <3>1. ASSUME NEW v \in User, SuspendUser(v) \/ ChangeUser(v)
          PROVE  conn'[u].absent = conn[u].absent
      <4>1. PICK to : conn' = [conn EXCEPT ![v].state = to]
            BY <3>1 DEF SuspendUser, ChangeUser
      <4>2. conn[u] \in ConnRow /\ conn \in [User -> ConnRow]
            BY <2>1 DEF PresenceTyped
      <4> QED BY <4>1, <4>2 DEF ConnRow
    <3> QED BY <1>1, <3>1
          DEF PresenceNext, presenceVars, Ask, Succeeds, Fails, Install,
              PresenceTick, PresenceRestart
  <2>3. u \in ActiveUsers /\ conn'[u] = FactsOf(u).columns
        BY <1>1, <2>2 DEF UpdateActivityFacts, ActiveUsers
  <2>4. StatusOf(u) = "offline"
    <3> DEFINE online == {f \in installed : seen[u][f].status = "online"}
               at == {seen[u][f].active : f \in online} \ {Never}
               back == SeenAgain(conn[u], IF at = {} THEN time ELSE Max(at))
    <3>1. online # {} => FactsOf(u).columns = back BY DEF FactsOf
    <3>2. ~ back.absent BY <2>1 DEF SeenAgain, PresenceTyped, ConnRow
    <3>3. online = {} /\ StatusOf(u) # "offline" => FactsOf(u).columns = conn[u]
          BY DEF FactsOf
    <3> HIDE DEF back, online
    <3> QED BY <1>1, <2>3, <3>1, <3>2, <3>3
  <2>5. seen[u][e].status \notin {"online", "unknown", "none"}
        BY <1>1, <2>3, <2>4 DEF StatusOf, ActiveUsers
  <2>6. e \in Engine /\ seen[u][e] \in SeenRow BY <1>1, <2>1 DEF PresenceTyped
  <2>7. seen[u][e].status = "offline" BY <2>5, <2>6 DEF SeenRow
  <2> QED BY <1>1, <2>1, <2>6, <2>7 DEF AnswersCounted
<1>2. PresenceIInv /\ [PresenceNext]_presenceVars =>
        [\A u \in User \ rotated : conn'[u].absent /\ ~conn[u].absent =>
           \A e \in installed : /\ seen[u][e].status = "offline"
                                /\ e \notin lost => health[e].failures = 0]_presenceVars
      BY <1>1
<1> QED BY <1>2, PresenceInvariant, PTL DEF PresenceSpec, AbsenceIsObserved
-----------------------------------------------------------------------------
(* Panel.                                                                  *)

Snapshot == [boot : Nat, revision : Nat, early : Nat, late : Nat, lag : BOOLEAN]

ServerRow   == [boot : Nat, revision : Nat, early : Nat, late : Nat,
                due : BOOLEAN, unannounced : BOOLEAN]
FetchRow    == [at : {"none", "sent", "awaiting", "back"}, early : Nat,
                ok : BOOLEAN, got : Snapshot]
StreamRow   == [state : {"none", "connecting", "open", "broken", "refused"},
                messages : Seq(Nat)]
PanelRow    == [data : Snapshot, there : BOOLEAN, pending : BOOLEAN, stale : BOOLEAN,
                polling : BOOLEAN, misjudged : BOOLEAN]

PanelTyped ==
    /\ server \in ServerRow /\ fetching \in FetchRow
    /\ stream \in StreamRow /\ panel \in PanelRow

(* A snapshot of this process is not newer than the process, and of this   *)
(* revision only when it shows what was announced with it.                 *)
Fits(d) ==
    /\ d.boot <= server.boot
    /\ d.boot = server.boot => d.revision <= server.revision
    /\ d.boot = server.boot /\ d.revision = server.revision
         /\ ~server.due /\ ~server.unannounced =>
         d.late = server.late /\ (~d.lag => d.early = server.early)

(* The messages on their way end with the newest revision, without a gap,  *)
(* behind the "ready" of a stream that has just been opened.               *)
Consecutive ==
    \A i \in 1..Len(stream.messages) :
        \/ i = 1 /\ stream.messages[1] = Ready
        \/ stream.messages[i] + Len(stream.messages) = server.revision + i

ReadyComes == Len(stream.messages) > 0 /\ stream.messages[1] = Ready

Returned == fetching.at = "back" /\ fetching.ok

(* What a snapshot lacks is still announced by the messages on their way.  *)
Covers(d) ==
    d.boot = server.boot /\ server.revision <= d.revision + Len(stream.messages)

Caught ==
    /\ fetching.at = "none" => panel.stale \/ panel.misjudged \/ Covers(panel.data)
    /\ Returned => panel.pending \/ panel.misjudged \/ Covers(fetching.got)

AnswerFits ==
    Returned => /\ Fits(fetching.got)
                /\ panel.data.boot = server.boot /\ fetching.got.boot = server.boot
                     => panel.data.revision <= fetching.got.revision

StreamFits ==
    stream.state = "open" =>
        /\ Consecutive
        /\ ReadyComes => Len(stream.messages) <= server.revision + 1
        /\ ~ReadyComes => Len(stream.messages) <= server.revision /\ Caught

PanelInv ==
    /\ PanelTyped /\ server.boot > 0
    /\ Fits(panel.data) /\ AnswerFits /\ StreamFits

(* A change that is not announced yet, or not at all.                      *)
LEMMA ServerMoves ==
    ASSUME PanelInv, server' \in ServerRow, server'.boot = server.boot,
           server'.revision = server.revision,
           server'.due \/ server'.unannounced,
           UNCHANGED <<fetching, stream, panel>>
    PROVE  PanelInv'
<1>1. PanelTyped' BY DEF PanelInv, PanelTyped
<1>2. \A d : Fits(d) => Fits(d)' BY DEF Fits
<1>3. Fits(panel.data)' BY <1>2 DEF PanelInv, Fits
<1>4. AnswerFits' BY <1>2 DEF PanelInv, AnswerFits, Returned, Fits
<1>5. StreamFits'
      BY DEF PanelInv, StreamFits, Consecutive, ReadyComes, Caught, Covers, Returned
<1> QED BY <1>1, <1>3, <1>4, <1>5 DEF PanelInv

LEMMA OneMore ==
    ASSUME NEW m \in Nat, NEW l \in Nat, NEW r \in Nat, NEW i \in Nat, m + l = r + i
    PROVE  m + (l + 1) = (r + 1) + i
OBVIOUS

(* publish(): one more revision, and one more message for who listens.     *)
LEMMA AnnouncesStep ==
    ASSUME PanelInv, NEW changed \in ServerRow, Announces(changed),
           changed.boot = server.boot, changed.revision = server.revision,
           UNCHANGED <<fetching, panel>>
    PROVE  PanelInv'
<1>1. PanelTyped /\ server.boot > 0 BY DEF PanelInv
<1>2. /\ server' \in ServerRow /\ server'.boot = server.boot
      /\ server'.revision = server.revision + 1
  <2> DEFINE next == [changed EXCEPT !.revision = changed.revision + 1,
                                     !.unannounced = FALSE]
  <2>1. changed.revision + 1 \in Nat BY DEF ServerRow
  <2>2. /\ next \in ServerRow /\ next.boot = changed.boot
        /\ next.revision = changed.revision + 1
        BY <2>1 DEF ServerRow
  <2>3. server' = next BY DEF Announces
  <2> QED BY <2>2, <2>3
<1>3. server.boot \in Nat /\ server.revision \in Nat BY <1>1 DEF PanelTyped, ServerRow
<1>4. /\ stream'.state = stream.state /\ stream' \in StreamRow
      /\ stream.state = "open" =>
           stream'.messages = Append(stream.messages, server.revision + 1)
  <2> DEFINE next == [stream EXCEPT !.messages =
                                 Append(stream.messages, server.revision + 1)]
  <2>1. /\ stream \in StreamRow /\ stream.messages \in Seq(Nat)
        /\ Append(stream.messages, server.revision + 1) \in Seq(Nat)
        BY <1>1, <1>3 DEF PanelTyped, StreamRow
  <2>2. /\ next \in StreamRow /\ next.state = stream.state
        /\ next.messages = Append(stream.messages, server.revision + 1)
        BY <2>1 DEF StreamRow
  <2>3. stream' = IF stream.state = "open" THEN next ELSE stream
        BY DEF Announces, Sent
  <2> HIDE DEF next
  <2> QED BY <2>1, <2>2, <2>3
<1>5. \A d \in Snapshot : Fits(d) => Fits(d)'
      BY <1>2, <1>3 DEF Fits, Snapshot
<1>6. panel.data \in Snapshot /\ fetching.got \in Snapshot
      BY <1>1 DEF PanelTyped, PanelRow, FetchRow
<1>7. Fits(panel.data)' BY <1>2, <1>3, <1>6 DEF PanelInv, Fits, Snapshot
<1>8. AnswerFits' BY <1>2, <1>3, <1>6 DEF PanelInv, AnswerFits, Returned, Fits, Snapshot
<1>9. StreamFits'
  <2> SUFFICES ASSUME stream.state = "open" PROVE StreamFits'
      BY <1>4 DEF StreamFits
  <2>1. /\ stream.messages \in Seq(Nat) /\ Len(stream.messages) \in Nat
        /\ Len(stream'.messages) = Len(stream.messages) + 1
        /\ \A i \in 1..Len(stream.messages) : stream'.messages[i] = stream.messages[i]
        /\ stream'.messages[Len(stream.messages) + 1] = server.revision + 1
    <3>1. stream.messages \in Seq(Nat) BY <1>1 DEF PanelTyped, StreamRow
    <3> QED BY <1>3, <1>4, <3>1
  <2>2. Consecutive'
    <3> SUFFICES ASSUME NEW i \in 1..Len(stream'.messages)
                 PROVE  \/ i = 1 /\ stream'.messages[1] = Ready
                        \/ stream'.messages[i] + Len(stream'.messages)
                             = server'.revision + i
        BY DEF Consecutive
    <3>1. CASE i = Len(stream.messages) + 1
      <4>1. stream'.messages[i] = server.revision + 1 BY <2>1, <3>1
      <4> QED BY <1>2, <1>3, <2>1, <3>1, <4>1
    <3>2. CASE i \in 1..Len(stream.messages)
      <4>1. \/ i = 1 /\ stream.messages[1] = Ready
            \/ stream.messages[i] + Len(stream.messages) = server.revision + i
            BY <3>2 DEF PanelInv, StreamFits, Consecutive
      <4>2. stream'.messages[i] = stream.messages[i] BY <2>1, <3>2
      <4>5. stream.messages[i] \in Nat /\ i \in Nat BY <2>1, <3>2
      <4>3. CASE i = 1 /\ stream.messages[1] = Ready BY <4>2, <4>3
      <4>4. CASE stream.messages[i] + Len(stream.messages) = server.revision + i
        <5>1. stream.messages[i] + (Len(stream.messages) + 1)
                = (server.revision + 1) + i
          <6>1. server.revision \in Nat /\ Len(stream.messages) \in Nat BY <1>3, <2>1
          <6>2. /\ stream.messages[i] \in Nat /\ i \in Nat
                /\ stream.messages[i] + Len(stream.messages) = server.revision + i
                BY <4>4, <4>5
          <6> DEFINE m == stream.messages[i]
                     l == Len(stream.messages)
                     r == server.revision
          <6>3. m \in Nat /\ l \in Nat /\ r \in Nat /\ i \in Nat /\ m + l = r + i
                BY <6>1, <6>2
          <6> HIDE DEF m, l, r
          <6>4. m + (l + 1) = (r + 1) + i BY <6>3, OneMore
          <6> QED BY <6>4 DEF m, l, r
        <5> QED BY <1>2, <2>1, <4>2, <5>1
      <4> QED BY <4>1, <4>3, <4>4
    <3> QED BY <2>1, <3>1, <3>2
  <2>3. ReadyComes' <=> ReadyComes
    <3>1. Len(stream.messages) \in Nat /\ Len(stream'.messages) > 0 BY <2>1
    <3>2. CASE Len(stream.messages) > 0
      <4>1. 1 \in 1..Len(stream.messages) BY <3>1, <3>2
      <4>2. stream'.messages[1] = stream.messages[1] BY <2>1, <4>1
      <4> QED BY <3>1, <3>2, <4>2 DEF ReadyComes
    <3>3. CASE Len(stream.messages) = 0
      <4>1. stream'.messages[1] = server.revision + 1 BY <2>1, <3>3
      <4>2. server.revision + 1 # 0 BY <1>3
      <4> QED BY <3>3, <4>1, <4>2 DEF ReadyComes, Ready
    <3> QED BY <3>1, <3>2, <3>3
  <2>4. Covers(panel.data) => Covers(panel.data)'
        BY <1>2, <1>3, <1>6, <2>1, SMTT(60) DEF Covers, Snapshot
  <2>5. Covers(fetching.got) => Covers(fetching.got)'
        BY <1>2, <1>3, <1>6, <2>1, SMTT(60) DEF Covers, Snapshot
  <2>6. Caught => Caught' BY <2>4, <2>5 DEF Caught, Returned
  <2> QED BY <1>2, <1>3, <2>1, <2>2, <2>3, <2>6 DEF PanelInv, StreamFits
<1> QED BY <1>1, <1>2, <1>4, <1>7, <1>8, <1>9 DEF PanelInv, PanelTyped

LEMMA RestartStep == ASSUME PanelInv, ServerRestarts PROVE PanelInv'
<1>1. PanelTyped BY DEF PanelInv
<1>2. server' \in ServerRow /\ server'.boot = server.boot + 1
  <2> DEFINE next == [server EXCEPT
             !.boot = server.boot + 1, !.revision = 0, !.due = FALSE,
             !.unannounced = server.unannounced \/ server.due]
  <2>1. server \in ServerRow /\ server.boot + 1 \in Nat
        BY <1>1 DEF PanelTyped, ServerRow
  <2>2. (server.unannounced \/ server.due) \in BOOLEAN OBVIOUS
  <2>3. next \in ServerRow /\ next.boot = server.boot + 1
        BY <2>1, <2>2 DEF ServerRow
  <2>4. server' = next BY DEF ServerRestarts
  <2> QED BY <2>3, <2>4
<1>3. fetching' \in FetchRow /\ (Returned' => fetching' = fetching)
      BY <1>1 DEF ServerRestarts, PanelTyped, FetchRow, Returned
<1>4. stream' \in StreamRow /\ stream'.state # "open"
  <2> DEFINE broken == [NoStream EXCEPT !.state = "broken"]
  <2>1. broken = [state |-> "broken", messages |-> <<>>] BY DEF NoStream
  <2> HIDE DEF broken
  <2>2. broken \in StreamRow /\ broken.state = "broken" BY <2>1 DEF StreamRow
  <2>3. stream' = IF stream.state = "open" THEN broken ELSE stream
        BY DEF ServerRestarts, broken
  <2> QED BY <1>1, <2>2, <2>3 DEF PanelTyped
<1>5. panel' = panel /\ panel.data \in Snapshot /\ fetching.got \in Snapshot
      BY <1>1 DEF ServerRestarts, PanelTyped, PanelRow, FetchRow
<1>6. server.boot \in Nat BY <1>1 DEF PanelTyped, ServerRow
<1>7. Fits(panel.data)' BY <1>2, <1>5, <1>6 DEF PanelInv, Fits, Snapshot
<1>8. AnswerFits'
      BY <1>2, <1>3, <1>5, <1>6 DEF PanelInv, AnswerFits, Returned, Fits, Snapshot
<1> QED BY <1>1, <1>2, <1>3, <1>4, <1>5, <1>6, <1>7, <1>8
        DEF PanelInv, PanelTyped, StreamFits

(* The request moves on; an answer is of this moment.                      *)
LEMMA RequestStep ==
    ASSUME PanelInv, UNCHANGED <<server, stream, panel>>, fetching' \in FetchRow,
           fetching'.at # "none",
           Returned' => /\ fetching'.got.boot = server.boot
                        /\ fetching'.got.revision = server.revision
                        /\ fetching'.got.late = server.late
                        /\ ~fetching'.got.lag => fetching'.got.early = server.early
    PROVE  PanelInv'
<1>1. PanelTyped BY DEF PanelInv
<1>2. server \in ServerRow /\ Len(stream.messages) \in Nat
      BY <1>1 DEF PanelTyped, StreamRow
<1>3. AnswerFits'
      BY <1>2 DEF PanelInv, AnswerFits, Returned, Fits, ServerRow
<1>4. Caught' BY <1>2 DEF Caught, Covers, Returned, ServerRow
<1>5. StreamFits' BY <1>4 DEF PanelInv, StreamFits, Consecutive, ReadyComes
<1> QED BY <1>1, <1>3, <1>5 DEF PanelInv, PanelTyped, Fits

LEMMA EmptyStreams ==
    \A s \in {"none", "connecting", "open", "broken", "refused"} :
        /\ [NoStream EXCEPT !.state = s] \in StreamRow
        /\ [NoStream EXCEPT !.state = s].state = s
<1> SUFFICES ASSUME NEW s \in {"none", "connecting", "open", "broken", "refused"}
             PROVE  /\ [NoStream EXCEPT !.state = s] \in StreamRow
                    /\ [NoStream EXCEPT !.state = s].state = s
    OBVIOUS
<1>1. [NoStream EXCEPT !.state = s] = [state |-> s, messages |-> <<>>]
      BY DEF NoStream
<1>2. <<>> \in Seq(Nat) OBVIOUS
<1> QED BY <1>1, <1>2 DEF StreamRow

LEMMA NoStreamTyped == NoStream \in StreamRow /\ NoStream.state = "none"
<1>1. <<>> \in Seq(Nat) OBVIOUS
<1> QED BY <1>1 DEF NoStream, StreamRow

LEMMA FetchesTyped ==
    /\ NoFetch \in FetchRow /\ NoFetch.at = "none"
    /\ [NoFetch EXCEPT !.at = "sent"] \in FetchRow
    /\ [NoFetch EXCEPT !.at = "sent"].at = "sent"
    /\ Nothing \in Snapshot /\ Nothing.boot = 0
<1>1. Nothing \in Snapshot /\ Nothing.boot = 0 BY DEF Nothing, Snapshot
<1>2. NoFetch \in FetchRow /\ NoFetch.at = "none" BY <1>1 DEF NoFetch, FetchRow
<1>3. /\ [NoFetch EXCEPT !.at = "sent"] \in FetchRow
      /\ [NoFetch EXCEPT !.at = "sent"].at = "sent"
      BY <1>2 DEF FetchRow
<1> QED BY <1>1, <1>2, <1>3

(* A step that only touches the poll timer and may lose the stream.        *)
LEMMA BesideLoadStep ==
    ASSUME PanelInv, UNCHANGED <<server, fetching>>, panel' \in PanelRow,
           panel'.data = panel.data, panel'.pending = panel.pending,
           panel'.stale = panel.stale, panel'.misjudged = panel.misjudged,
           stream' \in StreamRow, stream' = stream \/ stream'.state # "open"
    PROVE  PanelInv'
<1>1. PanelTyped' BY DEF PanelInv, PanelTyped
<1>2. AnswerFits' BY DEF PanelInv, AnswerFits, Returned, Fits
<1>3. StreamFits'
      BY DEF PanelInv, StreamFits, Consecutive, ReadyComes, Caught, Covers, Returned
<1> QED BY <1>1, <1>2, <1>3 DEF PanelInv, Fits

LEMMA LoadFacts ==
    ASSUME PanelTyped, Load(panel)
    PROVE  /\ panel' \in PanelRow /\ fetching' \in FetchRow
           /\ panel'.data = panel.data /\ fetching'.at # "none"
           /\ Returned' => fetching' = fetching /\ panel'.pending
<1>1. panel \in PanelRow /\ fetching \in FetchRow BY DEF PanelTyped
<1>2. Loading \in BOOLEAN BY DEF Loading
<1> DEFINE next == [panel EXCEPT !.pending = Loading, !.misjudged = FALSE]
<1>3. next \in PanelRow /\ next.data = panel.data /\ next.pending = Loading
      BY <1>1, <1>2 DEF PanelRow
<1>4. panel' = next BY DEF Load
<1> HIDE DEF next
<1>5. fetching' = IF Loading THEN fetching ELSE [NoFetch EXCEPT !.at = "sent"]
      BY DEF Load
<1>6. CASE Loading
      BY <1>1, <1>3, <1>4, <1>5, <1>6 DEF Loading
<1>7. CASE ~Loading
      BY <1>3, <1>4, <1>5, <1>7, FetchesTyped DEF Returned
<1> QED BY <1>6, <1>7

(* load(), whatever else the step does to the stream.                      *)
LEMMA LoadStep ==
    ASSUME PanelInv, Load(panel), server' \in ServerRow, server'.boot = server.boot,
           server'.revision = server.revision,
           server' = server \/ server'.unannounced,
           stream' \in StreamRow,
           stream'.state = "open" =>
              /\ Consecutive'
              /\ ReadyComes' => Len(stream'.messages) <= server.revision + 1
              /\ ~ReadyComes' => Len(stream'.messages) <= server.revision
    PROVE  PanelInv'
<1>1. PanelTyped BY DEF PanelInv
<1>2. /\ panel' \in PanelRow /\ fetching' \in FetchRow
      /\ panel'.data = panel.data /\ fetching'.at # "none"
      /\ Returned' => fetching' = fetching /\ panel'.pending
      BY <1>1, LoadFacts
<1>3. PanelTyped' BY <1>2 DEF PanelTyped
<1>4. Fits(panel.data)'
      BY <1>2 DEF PanelInv, Fits
<1>5. AnswerFits' BY <1>2 DEF PanelInv, AnswerFits, Returned, Fits
<1>6. Caught' BY <1>2 DEF Caught
<1>7. StreamFits' BY <1>6 DEF StreamFits
<1> QED BY <1>2, <1>3, <1>4, <1>5, <1>7 DEF PanelInv, Fits

LEMMA PulledStep == ASSUME PanelInv, Pulled PROVE PanelInv'
<1>1. PanelTyped /\ Returned BY DEF PanelInv, Pulled, Returned
<1>2. panel \in PanelRow /\ fetching.got \in Snapshot BY <1>1 DEF PanelTyped, FetchRow
<1> DEFINE next == [panel EXCEPT !.data = fetching.got, !.there = TRUE, !.stale = FALSE]
           last == [next EXCEPT !.pending = FALSE]
<1>3. /\ last \in PanelRow /\ last.data = fetching.got /\ last.misjudged = panel.misjudged
      BY <1>2 DEF PanelRow
<1>4. panel' = last BY DEF Pulled, Drained
<1> HIDE DEF last
<1>5. fetching' = IF panel.pending THEN [NoFetch EXCEPT !.at = "sent"] ELSE NoFetch
      BY DEF Pulled, Drained
<1>6. /\ fetching' \in FetchRow /\ ~Returned'
      /\ fetching'.at = "none" => ~panel.pending
      BY <1>5, FetchesTyped DEF Returned
<1>7. server' = server BY DEF Pulled
<1>8. stream' \in StreamRow /\ (stream' = stream \/ stream'.state # "open")
      BY <1>1, EmptyStreams DEF Pulled, Connected, PanelTyped
<1>9. PanelTyped' BY <1>1, <1>3, <1>4, <1>6, <1>7, <1>8 DEF PanelTyped
<1>10. Fits(panel.data)' BY <1>1, <1>3, <1>4, <1>7 DEF PanelInv, AnswerFits, Fits
<1>11. AnswerFits' BY <1>6 DEF AnswerFits
<1>12. ASSUME stream' = stream, Caught PROVE Caught'
       BY <1>1, <1>3, <1>4, <1>6, <1>7, <1>12 DEF Caught, Covers
<1>13. StreamFits'
       BY <1>7, <1>8, <1>12 DEF PanelInv, StreamFits, Consecutive, ReadyComes
<1> QED BY <1>7, <1>9, <1>10, <1>11, <1>13 DEF PanelInv

LEMMA PullFailedStep == ASSUME PanelInv, PullFailed PROVE PanelInv'
<1>1. PanelTyped BY DEF PanelInv
<1>2. panel \in PanelRow BY <1>1 DEF PanelTyped
<1> DEFINE next == [panel EXCEPT !.stale = TRUE]
           last == [next EXCEPT !.pending = FALSE]
<1>3. last \in PanelRow /\ last.data = panel.data /\ last.stale
      BY <1>2 DEF PanelRow
<1>4. panel' = last BY DEF PullFailed, Drained
<1> HIDE DEF last
<1>5. fetching' = IF panel.pending THEN [NoFetch EXCEPT !.at = "sent"] ELSE NoFetch
      BY DEF PullFailed, Drained
<1>6. fetching' \in FetchRow /\ ~Returned'
      BY <1>5, FetchesTyped DEF Returned
<1>7. server' = server /\ stream' = stream BY DEF PullFailed
<1>8. PanelTyped' BY <1>1, <1>3, <1>4, <1>6, <1>7 DEF PanelTyped
<1>9. Fits(panel.data)' BY <1>3, <1>4, <1>7 DEF PanelInv, Fits
<1>10. AnswerFits' /\ Caught' BY <1>3, <1>4, <1>6 DEF AnswerFits, Caught
<1>11. StreamFits' BY <1>7, <1>10 DEF PanelInv, StreamFits, Consecutive, ReadyComes
<1> QED BY <1>7, <1>8, <1>9, <1>10, <1>11 DEF PanelInv

LEMMA ExpiredStep == ASSUME PanelInv, Expired PROVE PanelInv'
<1>1. PanelTyped BY DEF PanelInv
<1>2. panel \in PanelRow /\ server.boot \in Nat BY <1>1 DEF PanelTyped, ServerRow
<1> DEFINE next == [panel EXCEPT !.data = Nothing, !.there = FALSE, !.pending = FALSE,
                                 !.polling = FALSE]
<1>3. next \in PanelRow /\ next.data = Nothing
      BY <1>2, FetchesTyped DEF PanelRow
<1>4. panel' = next BY DEF Expired
<1> HIDE DEF next
<1>5. fetching' \in FetchRow /\ (Returned' => fetching' = fetching)
      BY <1>1, FetchesTyped DEF Expired, Returned, PanelTyped
<1>6. server' = server /\ stream' = NoStream BY DEF Expired
<1>7. PanelTyped' BY <1>1, <1>3, <1>4, <1>5, <1>6, NoStreamTyped DEF PanelTyped
<1>8. Nothing.boot < server.boot BY <1>2, FetchesTyped DEF PanelInv
<1>9. Fits(panel.data)'
      BY <1>2, <1>3, <1>4, <1>6, <1>8, FetchesTyped DEF Fits
<1>10. AnswerFits'
       BY <1>2, <1>3, <1>4, <1>5, <1>6, <1>8, FetchesTyped
       DEF PanelInv, AnswerFits, Returned, Fits
<1>11. StreamFits' BY <1>6, NoStreamTyped DEF StreamFits
<1> QED BY <1>6, <1>7, <1>9, <1>10, <1>11 DEF PanelInv

LEMMA StreamOpensStep == ASSUME PanelInv, StreamOpens PROVE PanelInv'
<1>1. PanelTyped BY DEF PanelInv
<1>2. panel \in PanelRow /\ server.revision \in Nat BY <1>1 DEF PanelTyped, ServerRow
<1>3. panel' = [panel EXCEPT !.polling = FALSE] BY DEF StreamOpens
<1>4. panel' \in PanelRow /\ panel'.data = panel.data BY <1>2, <1>3 DEF PanelRow
<1>5. /\ UNCHANGED <<server, fetching>>
      /\ stream' = [state |-> "open", messages |-> <<Ready>>]
      BY DEF StreamOpens
<1>6. <<Ready>> \in Seq(Nat) /\ Len(<<Ready>>) = 1 /\ <<Ready>>[1] = Ready BY DEF Ready
<1>7. /\ stream' \in StreamRow /\ stream'.messages = <<Ready>>
      BY <1>5, <1>6 DEF StreamRow
<1>8. PanelTyped' BY <1>1, <1>4, <1>5, <1>7 DEF PanelTyped
<1>9. Fits(panel.data)' /\ AnswerFits'
      BY <1>4, <1>5 DEF PanelInv, Fits, AnswerFits, Returned
<1>10. Consecutive' BY <1>6, <1>7 DEF Consecutive
<1>11. ReadyComes' BY <1>6, <1>7 DEF ReadyComes
<1>12. StreamFits' BY <1>2, <1>5, <1>6, <1>7, <1>10, <1>11 DEF StreamFits
<1> QED BY <1>5, <1>8, <1>9, <1>12 DEF PanelInv

LEMMA OneLess ==
    ASSUME NEW m \in Nat, NEW l \in Nat, NEW r \in Nat, NEW i \in Nat,
           m + (l + 1) = r + (i + 1)
    PROVE  m + l = r + i
OBVIOUS

LEMMA LastOne ==
    ASSUME NEW m \in Nat, NEW l \in Nat, NEW r \in Nat, m + (l + 1) = r + 1
    PROVE  m + l = r
OBVIOUS

(* What is left of the messages when one has been delivered.               *)
LEMMA TailFits ==
    ASSUME PanelTyped, stream.state = "open", Consecutive, stream.messages # <<>>,
           ReadyComes => Len(stream.messages) <= server.revision + 1,
           ~ReadyComes => Len(stream.messages) <= server.revision,
           server' = server, stream' = [stream EXCEPT !.messages = Tail(@)]
    PROVE  /\ stream' \in StreamRow /\ Consecutive' /\ ~ReadyComes'
           /\ Len(stream.messages) = Len(stream'.messages) + 1
           /\ Len(stream'.messages) <= server.revision
           /\ Head(stream.messages) \in Nat
           /\ Head(stream.messages) # Ready
                => Head(stream.messages) + Len(stream'.messages) = server.revision
<1>1. /\ stream \in StreamRow /\ stream.messages \in Seq(Nat)
      /\ server.revision \in Nat
      BY DEF PanelTyped, StreamRow, ServerRow
<1>2. PICK l \in Nat : Len(stream.messages) = l + 1
  <2>1. Len(stream.messages) \in Nat /\ Len(stream.messages) # 0 BY <1>1
  <2>2. Len(stream.messages) - 1 \in Nat
        /\ Len(stream.messages) = (Len(stream.messages) - 1) + 1 BY <2>1
  <2> QED BY <2>2
<1>3. /\ Tail(stream.messages) \in Seq(Nat) /\ Len(Tail(stream.messages)) = l
      /\ \A i \in 1..l : Tail(stream.messages)[i] = stream.messages[i + 1]
      /\ Head(stream.messages) = stream.messages[1] /\ stream.messages[1] \in Nat
      BY <1>1, <1>2
<1>4. stream' \in StreamRow /\ stream'.messages = Tail(stream.messages)
      BY <1>1, <1>3 DEF StreamRow
<1>5. ASSUME NEW i \in 1..l
      PROVE  Tail(stream.messages)[i] + l = server.revision + i
  <2>1. i \in Nat /\ i + 1 \in 1..(l + 1) /\ i + 1 # 1 BY <1>2
  <2>2. stream.messages[i + 1] + (l + 1) = server.revision + (i + 1)
        BY <1>2, <2>1 DEF Consecutive
  <2>3. stream.messages[i + 1] \in Nat BY <1>1, <1>2, <2>1, SMTT(60)
  <2>4. stream.messages[i + 1] + l = server.revision + i
    <3>1. server.revision \in Nat BY <1>1
    <3> QED BY <2>1, <2>2, <2>3, <3>1, OneLess, SMTT(60)
  <2> QED BY <1>3, <2>4
<1>6. Consecutive' BY <1>3, <1>4, <1>5 DEF Consecutive
<1>7. l <= server.revision
      BY <1>1, <1>2
<1>8. ~ReadyComes'
  <2> SUFFICES ASSUME ReadyComes' PROVE FALSE
      OBVIOUS
  <2>1. l > 0 /\ Tail(stream.messages)[1] = 0
        BY <1>3, <1>4 DEF ReadyComes, Ready
  <2>2. 1 \in 1..l BY <2>1
  <2>3. Tail(stream.messages)[1] + l = server.revision + 1 BY <1>5, <2>2
  <2>4. 0 + l = server.revision + 1 BY <2>1, <2>3
  <2>5. server.revision \in Nat BY <1>1
  <2> QED BY <1>7, <2>4, <2>5
<1>9. Head(stream.messages) # Ready => Head(stream.messages) + l = server.revision
  <2> SUFFICES ASSUME Head(stream.messages) # Ready
               PROVE  Head(stream.messages) + l = server.revision
      OBVIOUS
  <2>1. 1 \in 1..(l + 1) OBVIOUS
  <2>2. stream.messages[1] + (l + 1) = server.revision + 1
        BY <1>2, <1>3, <2>1 DEF Consecutive
  <2>3. Head(stream.messages) = stream.messages[1] /\ stream.messages[1] \in Nat
        BY <1>3
  <2>4. server.revision \in Nat BY <1>1
  <2> QED BY <2>2, <2>3, <2>4, LastOne
<1> QED BY <1>2, <1>3, <1>4, <1>6, <1>7, <1>8, <1>9

(* A message that asks for no load says nothing the data, or the answer    *)
(* that has come meanwhile, does not cover.                                *)
LEMMA SeenStep ==
    ASSUME PanelInv, StreamDelivers,
           Head(stream.messages) # Ready, ~Newer(Head(stream.messages))
    PROVE  PanelInv'
<1>1. PanelTyped BY DEF PanelInv
<1>2. /\ stream.state = "open" /\ stream.messages # <<>>
      /\ server' = server /\ stream' = [stream EXCEPT !.messages = Tail(@)]
      /\ panel' = [panel EXCEPT !.misjudged =
              panel.misjudged \/ (fetching.at = "back" /\ panel.data.boot # server.boot)]
      /\ fetching' = fetching
      BY DEF StreamDelivers
<1>3. /\ stream' \in StreamRow /\ Consecutive' /\ ~ReadyComes'
      /\ Len(stream.messages) = Len(stream'.messages) + 1
      /\ Len(stream'.messages) <= server.revision
      /\ Head(stream.messages) \in Nat
      /\ Head(stream.messages) + Len(stream'.messages) = server.revision
      BY <1>1, <1>2, TailFits DEF PanelInv, StreamFits
<1>4. /\ panel \in PanelRow /\ panel.data.revision \in Nat /\ server.revision \in Nat
      /\ fetching.got.revision \in Nat /\ Len(stream'.messages) \in Nat
  <2>1. panel \in PanelRow /\ server.revision \in Nat
        BY <1>1 DEF PanelTyped, ServerRow
  <2>2. panel.data \in Snapshot /\ fetching.got \in Snapshot
        BY <1>1 DEF PanelTyped, PanelRow, FetchRow
  <2>3. panel.data.revision \in Nat /\ fetching.got.revision \in Nat
        BY <2>2 DEF Snapshot
  <2>4. stream'.messages \in Seq(Nat) BY <1>3 DEF StreamRow
  <2> QED BY <2>1, <2>3, <2>4
<1>5. /\ panel' \in PanelRow /\ panel'.data = panel.data /\ panel'.stale = panel.stale
      /\ panel'.pending = panel.pending
      /\ panel'.misjudged <=>
           panel.misjudged \/ (fetching.at = "back" /\ panel.data.boot # server.boot)
  <2>1. (panel.misjudged \/ (fetching.at = "back" /\ panel.data.boot # server.boot))
            \in BOOLEAN
        OBVIOUS
  <2> QED BY <1>2, <1>4, <2>1 DEF PanelRow
<1>6. PanelTyped' BY <1>1, <1>2, <1>3, <1>5 DEF PanelTyped
<1>7. Fits(panel.data)' /\ AnswerFits'
      BY <1>2, <1>5 DEF PanelInv, Fits, AnswerFits, Returned
<1>8. ~ReadyComes
  <2>1. Head(stream.messages) = stream.messages[1]
        BY <1>1, <1>2 DEF PanelTyped, StreamRow
  <2> QED BY <2>1 DEF ReadyComes
<1>9. Caught BY <1>2, <1>8 DEF PanelInv, StreamFits
<1>10. server.revision <= panel.data.revision + Len(stream'.messages)
  <2>1. Head(stream.messages) <= panel.data.revision BY <1>3, <1>4 DEF Newer
  <2> QED BY <1>3, <1>4, <2>1
<1>11. ASSUME fetching.at = "none"
       PROVE  panel'.stale \/ panel'.misjudged \/ Covers(panel.data)'
       BY <1>2, <1>5, <1>9, <1>10, <1>11 DEF Caught, Covers
<1>12. ASSUME Returned
       PROVE  panel'.pending \/ panel'.misjudged \/ Covers(fetching.got)'
  <2>1. CASE panel.pending \/ panel.misjudged BY <1>5, <2>1
  <2>2. CASE panel.data.boot # server.boot BY <1>5, <1>12, <2>2 DEF Returned
  <2>3. CASE /\ ~panel.pending /\ ~panel.misjudged
             /\ panel.data.boot = server.boot
    <3>1. fetching.got.boot = server.boot BY <1>9, <1>12, <2>3 DEF Caught, Covers
    <3>2. panel.data.revision <= fetching.got.revision
          BY <1>12, <2>3, <3>1 DEF PanelInv, AnswerFits
    <3>3. server.revision <= fetching.got.revision + Len(stream'.messages)
          BY <1>4, <1>10, <3>2
    <3> QED BY <1>2, <3>1, <3>3 DEF Covers
  <2> QED BY <2>1, <2>2, <2>3
<1>13. Caught' BY <1>2, <1>11, <1>12 DEF Caught, Returned
<1>14. StreamFits' BY <1>2, <1>3, <1>13 DEF StreamFits
<1> QED BY <1>2, <1>6, <1>7, <1>14 DEF PanelInv

LEMMA StreamDeliversStep == ASSUME PanelInv, StreamDelivers PROVE PanelInv'
<1>1. CASE Head(stream.messages) = Ready \/ Newer(Head(stream.messages))
  <2>1. PanelTyped BY DEF PanelInv
  <2>2. /\ stream.state = "open" /\ stream.messages # <<>>
        /\ server' = server /\ stream' = [stream EXCEPT !.messages = Tail(@)]
        /\ Load(panel)
        BY <1>1 DEF StreamDelivers
  <2>3. /\ stream' \in StreamRow /\ Consecutive' /\ ~ReadyComes'
        /\ Len(stream'.messages) <= server.revision
        BY <2>1, <2>2, TailFits DEF PanelInv, StreamFits
  <2> QED BY <2>1, <2>2, <2>3, LoadStep DEF PanelTyped
<1>2. CASE Head(stream.messages) # Ready /\ ~Newer(Head(stream.messages))
      BY <1>2, SeenStep
<1> QED BY <1>1, <1>2

(* Shows and SignsIn and Reloads: a load, and a stream that is not open.   *)
LEMMA LoadsStep ==
    ASSUME PanelInv, SignsIn \/ Reloads PROVE PanelInv'
<1>1. PanelTyped BY DEF PanelInv
<1>2. Load(panel) /\ stream' = stream BY DEF SignsIn, Reloads
<1>3. /\ server' \in ServerRow /\ server'.boot = server.boot
      /\ server'.revision = server.revision /\ (server' = server \/ server'.unannounced)
  <2>1. CASE Reloads BY <1>1, <2>1 DEF Reloads, PanelTyped
  <2>2. CASE SignsIn
    <3>1. server \in ServerRow /\ server.late + 1 \in Nat
          BY <1>1 DEF PanelTyped, ServerRow
    <3>2. server' = [server EXCEPT !.late = server.late + 1, !.unannounced = TRUE]
          BY <2>2 DEF SignsIn
    <3> QED BY <3>1, <3>2 DEF ServerRow
  <2> QED BY <2>1, <2>2
<1>4. stream'.state = "open" =>
        /\ Consecutive'
        /\ ReadyComes' => Len(stream'.messages) <= server.revision + 1
        /\ ~ReadyComes' => Len(stream'.messages) <= server.revision
      BY <1>2, <1>3 DEF PanelInv, StreamFits, Consecutive, ReadyComes
<1> QED BY <1>1, <1>2, <1>3, <1>4, LoadStep DEF PanelTyped

LEMMA ShowsStep == ASSUME PanelInv, Shows PROVE PanelInv'
<1>1. PanelTyped BY DEF PanelInv
<1>2. CASE signedIn \/ panel.there
  <2>1. /\ server' = server /\ Load(panel)
        /\ stream' = IF panel.there THEN [NoStream EXCEPT !.state = "connecting"]
                     ELSE NoStream
        BY <1>2 DEF Shows
  <2>2. stream' \in StreamRow /\ stream'.state # "open"
        BY <2>1, EmptyStreams, NoStreamTyped
  <2> QED BY <1>1, <2>1, <2>2, LoadStep DEF PanelTyped
<1>3. CASE ~(signedIn \/ panel.there)
  <2>1. UNCHANGED <<server, panel, fetching, stream>> BY <1>3 DEF Shows
  <2> QED BY <1>1, <2>1, BesideLoadStep DEF PanelTyped
<1> QED BY <1>2, <1>3

LEMMA ServerStep ==
    ASSUME PanelInv, HandlerWrites \/ HandlerFails \/ PublicRequest
    PROVE  PanelInv'
<1>1. server \in ServerRow /\ server.early + 1 \in Nat /\ server.late + 1 \in Nat
      BY DEF PanelInv, PanelTyped, ServerRow
<1>2. UNCHANGED <<fetching, stream, panel>>
      BY DEF HandlerWrites, HandlerFails, PublicRequest
<1>3. /\ server' \in ServerRow /\ server'.boot = server.boot
      /\ server'.revision = server.revision
      /\ server'.due \/ server'.unannounced
  <2>1. CASE HandlerWrites
    <3>1. PICK part \in {"early", "late"} : Change(part) BY <2>1 DEF HandlerWrites
    <3>2. CASE part = "early"
      <4>1. server' = [server EXCEPT !.early = server.early + 1, !.due = TRUE]
            BY <1>1, <3>1, <3>2 DEF Change, ServerRow
      <4> QED BY <1>1, <4>1 DEF ServerRow
    <3>3. CASE part = "late"
      <4>1. server' = [server EXCEPT !.late = server.late + 1, !.due = TRUE]
            BY <1>1, <3>1, <3>3 DEF Change, ServerRow
      <4> QED BY <1>1, <4>1 DEF ServerRow
    <3> QED BY <3>1, <3>2, <3>3
  <2>2. CASE HandlerFails
    <3>1. server' = [server EXCEPT !.due = FALSE, !.unannounced = TRUE]
          BY <2>2 DEF HandlerFails
    <3> QED BY <1>1, <3>1 DEF ServerRow
  <2>3. CASE PublicRequest
    <3>1. server' = [server EXCEPT !.late = server.late + 1, !.unannounced = TRUE]
          BY <2>3 DEF PublicRequest
    <3> QED BY <1>1, <3>1 DEF ServerRow
  <2> QED BY <2>1, <2>2, <2>3
<1> QED BY <1>2, <1>3, ServerMoves

LEMMA PublishStep == ASSUME PanelInv, HandlerEnds \/ OperationMoves PROVE PanelInv'
<1>1. server \in ServerRow /\ server.early + 1 \in Nat
      BY DEF PanelInv, PanelTyped, ServerRow
<1>2. CASE HandlerEnds
  <2> DEFINE changed == [server EXCEPT !.due = FALSE]
  <2>1. /\ changed \in ServerRow /\ changed.boot = server.boot
        /\ changed.revision = server.revision
        BY <1>1 DEF ServerRow
  <2>2. Announces(changed) /\ UNCHANGED <<fetching, panel>> BY <1>2 DEF HandlerEnds
  <2> HIDE DEF changed
  <2> QED BY <2>1, <2>2, AnnouncesStep
<1>3. CASE OperationMoves
  <2> DEFINE changed == [server EXCEPT !.early = server.early + 1]
  <2>1. /\ changed \in ServerRow /\ changed.boot = server.boot
        /\ changed.revision = server.revision
        BY <1>1 DEF ServerRow
  <2>2. Announces(changed) /\ UNCHANGED <<fetching, panel>> BY <1>3 DEF OperationMoves
  <2> HIDE DEF changed
  <2> QED BY <2>1, <2>2, AnnouncesStep
<1> QED BY <1>2, <1>3

LEMMA DashboardStep ==
    ASSUME PanelInv, DashboardBegins \/ DashboardAnswers \/ DashboardFails
    PROVE  PanelInv'
<1>1. fetching \in FetchRow /\ server \in ServerRow BY DEF PanelInv, PanelTyped
<1>2. UNCHANGED <<server, stream, panel>>
      BY DEF DashboardBegins, DashboardAnswers, DashboardFails
<1>3. CASE DashboardBegins
  <2>1. fetching' = [fetching EXCEPT !.at = "awaiting", !.early = server.early]
        BY <1>3 DEF DashboardBegins
  <2>2. fetching' \in FetchRow /\ fetching'.at = "awaiting"
        BY <1>1, <2>1 DEF FetchRow, ServerRow
  <2> QED BY <1>2, <2>2, RequestStep DEF Returned
<1>4. CASE DashboardAnswers
  <2> DEFINE lagging == fetching.early # server.early
             got == [boot |-> server.boot, revision |-> server.revision,
                     early |-> fetching.early, late |-> server.late,
                     lag |-> lagging]
  <2>1. fetching' = [fetching EXCEPT !.at = "back", !.ok = TRUE, !.got = got]
        BY <1>4 DEF DashboardAnswers
  <2>2. lagging \in BOOLEAN OBVIOUS
  <2>3. fetching.early \in Nat BY <1>1 DEF FetchRow
  <2>4. /\ got \in Snapshot /\ got.boot = server.boot
        /\ got.revision = server.revision /\ got.late = server.late
        /\ ~got.lag => got.early = server.early
        BY <1>1, <2>2, <2>3 DEF Snapshot, ServerRow
  <2> HIDE DEF got
  <2>5. fetching' \in FetchRow /\ fetching'.at = "back" /\ fetching'.got = got
        BY <1>1, <2>1, <2>4 DEF FetchRow
  <2> QED BY <1>2, <2>4, <2>5, RequestStep
<1>5. CASE DashboardFails
  <2>1. fetching' = [fetching EXCEPT !.at = "back", !.ok = FALSE]
        BY <1>5 DEF DashboardFails
  <2>2. fetching' \in FetchRow /\ fetching'.at = "back" /\ ~fetching'.ok
        BY <1>1, <2>1 DEF FetchRow
  <2> QED BY <1>2, <2>2, RequestStep DEF Returned
<1> QED BY <1>3, <1>4, <1>5

LEMMA TimerStep ==
    ASSUME PanelInv, StreamBreaks \/ BreakNoticed \/ StreamRefused \/ Hides
    PROVE  PanelInv'
<1>1. panel \in PanelRow /\ stream \in StreamRow BY DEF PanelInv, PanelTyped
<1>2. UNCHANGED <<server, fetching>>
      BY DEF StreamBreaks, BreakNoticed, StreamRefused, Hides
<1>3. PICK polling \in BOOLEAN : panel' = [panel EXCEPT !.polling = polling]
      BY DEF StreamBreaks, BreakNoticed, StreamRefused, Hides
<1>4. /\ panel' \in PanelRow /\ panel'.data = panel.data
      /\ panel'.pending = panel.pending /\ panel'.stale = panel.stale
      /\ panel'.misjudged = panel.misjudged
      BY <1>1, <1>3 DEF PanelRow
<1>5. stream' \in StreamRow /\ (stream' = stream \/ stream'.state # "open")
      BY <1>1, EmptyStreams, NoStreamTyped
      DEF StreamBreaks, BreakNoticed, StreamRefused, Hides
<1> QED BY <1>2, <1>4, <1>5, BesideLoadStep

LEMMA PanelInvKept == PanelInv /\ [PanelNext]_panelVars => PanelInv'
<1> SUFFICES ASSUME PanelInv, [PanelNext]_panelVars PROVE PanelInv'
    OBVIOUS
<1>1. CASE HandlerWrites \/ HandlerFails \/ PublicRequest BY <1>1, ServerStep
<1>2. CASE HandlerEnds \/ OperationMoves BY <1>2, PublishStep
<1>3. CASE ServerRestarts BY <1>3, RestartStep
<1>4. CASE SessionEnds \/ UNCHANGED panelVars
  <2>1. UNCHANGED <<server, fetching, stream, panel>> BY <1>4 DEF SessionEnds, panelVars
  <2> QED BY <2>1, BesideLoadStep DEF PanelInv, PanelTyped
<1>5. CASE DashboardBegins \/ DashboardAnswers \/ DashboardFails BY <1>5, DashboardStep
<1>6. CASE Pulled BY <1>6, PulledStep
<1>7. CASE PullFailed BY <1>7, PullFailedStep
<1>8. CASE Expired BY <1>8, ExpiredStep
<1>9. CASE SignsIn \/ Reloads BY <1>9, LoadsStep
<1>10. CASE StreamOpens BY <1>10, StreamOpensStep
<1>11. CASE StreamBreaks \/ BreakNoticed \/ StreamRefused \/ Hides BY <1>11, TimerStep
<1>12. CASE StreamDelivers BY <1>12, StreamDeliversStep
<1>13. CASE Shows BY <1>13, ShowsStep
<1> QED BY <1>1, <1>2, <1>3, <1>4, <1>5, <1>6, <1>7, <1>8, <1>9, <1>10, <1>11, <1>12,
           <1>13 DEF PanelNext

LEMMA PanelStarts == PanelInit => PanelInv
<1> SUFFICES ASSUME PanelInit PROVE PanelInv
    OBVIOUS
<1>1. server \in ServerRow /\ server.boot = 1 BY DEF PanelInit, ServerRow
<1>2. fetching \in FetchRow /\ fetching.at = "sent" BY FetchesTyped DEF PanelInit
<1>3. stream \in StreamRow /\ stream.state = "none" BY NoStreamTyped DEF PanelInit
<1>4. panel \in PanelRow /\ panel.data = Nothing BY FetchesTyped DEF PanelInit, PanelRow
<1>5. Fits(panel.data) BY <1>1, <1>4, FetchesTyped DEF Fits
<1> QED BY <1>1, <1>2, <1>3, <1>4, <1>5
        DEF PanelInv, PanelTyped, AnswerFits, Returned, StreamFits

LEMMA PanelInvCurrent == PanelInv => PanelIsCurrent
<1> SUFFICES ASSUME PanelInv, Quiet, ~panel.stale, ~panel.misjudged,
                    ~server.unannounced
             PROVE  /\ panel.data.late = server.late
                    /\ ~panel.data.lag => panel.data.early = server.early
    BY DEF PanelIsCurrent
<1>1. /\ fetching.at = "none" /\ stream.state = "open" /\ stream.messages = <<>>
      /\ ~server.due
      BY DEF Quiet, Loading
<1>2. Len(stream.messages) = 0 BY <1>1
<1>3. Caught BY <1>1, <1>2 DEF PanelInv, StreamFits, ReadyComes
<1>4. Covers(panel.data) BY <1>1, <1>3 DEF Caught
<1>5. panel.data.revision \in Nat /\ server.revision \in Nat
      BY DEF PanelInv, PanelTyped, PanelRow, Snapshot, ServerRow
<1>6. panel.data.boot = server.boot /\ panel.data.revision = server.revision
      BY <1>2, <1>4, <1>5 DEF Covers, PanelInv, Fits
<1> QED BY <1>1, <1>6 DEF PanelInv, Fits

(* A panel that listens, has nothing to load and does not say that it is   *)
(* stale shows what the server has announced, whatever broke, restarted,   *)
(* expired or overlapped before; for any number of changes and mishaps.    *)
THEOREM PanelCurrent == PanelSpec => []PanelIsCurrent
<1>1. PanelSpec => []PanelInv BY PanelStarts, PanelInvKept, PTL DEF PanelSpec
<1> QED BY <1>1, PanelInvCurrent, PTL
-----------------------------------------------------------------------------
(* GeoSite.                                                                *)

(* What is said of one base, tags filtered, does not depend on the others. *)
Filtered(bases) == filterTags(Raw(bases))

LEMMA CodesAre ==
    ASSUME NEW bases, NEW code
    PROVE  /\ code \in DOMAIN Filtered(bases) =>
                 /\ code.base \in bases /\ code \in CodesOf(bases)
                 /\ ~Repeats(code) /\ ~Excludes(code)
           /\ code \in CodesOf(bases) /\ ~Repeats(code) /\ ~Excludes(code)
                 => code \in DOMAIN Filtered(bases)
           /\ code \in CodesOf(bases) => code.base \in bases
           /\ DOMAIN Raw(bases) = CodesOf(bases)
<1>1. DOMAIN Raw(bases) = CodesOf(bases) BY DEF Raw
<1>2. DOMAIN Filtered(bases) = filterCodeTags(CodesOf(bases))
      BY <1>1 DEF Filtered, filterTags
<1>3. code \in CodesOf(bases) => code.base \in bases
      BY DEF CodesOf, Whole, Tagged
<1> QED BY <1>1, <1>2, <1>3 DEF filterCodeTags

(* The codes of one base are its own.                                      *)
LEMMA CodesLocal ==
    ASSUME NEW some, NEW all, some \subseteq all, NEW code, code.base \in some
    PROVE  code \in CodesOf(some) <=> code \in CodesOf(all)
<1>1. code \in CodesOf(some) => code \in CodesOf(all) BY DEF CodesOf
<1>2. ASSUME code \in CodesOf(all) PROVE code \in CodesOf(some)
  <2>1. CASE \E base \in all : code = Whole(base)
    <3>1. PICK base \in all : code = Whole(base) BY <2>1
    <3>2. code.base = base BY <3>1 DEF Whole
    <3> QED BY <3>1, <3>2 DEF CodesOf
  <2>2. CASE \E base \in all : \E a \in AttributesOf(base) : code = Tagged(base, a)
    <3>1. PICK base \in all : \E a \in AttributesOf(base) : code = Tagged(base, a)
          BY <2>2
    <3>2. code.base = base BY <3>1 DEF Tagged
    <3> QED BY <3>1, <3>2 DEF CodesOf
  <2> QED BY <1>2, <2>1, <2>2 DEF CodesOf
<1> QED BY <1>1, <1>2

LEMMA FilteredLocal ==
    ASSUME NEW some, NEW all, some \subseteq all, NEW code, code.base \in some
    PROVE  /\ code \in DOMAIN Filtered(some) <=> code \in DOMAIN Filtered(all)
           /\ code \in DOMAIN Filtered(some) => Filtered(some)[code] = Filtered(all)[code]
<1>1. code \in CodesOf(some) <=> code \in CodesOf(all) BY CodesLocal
<1>2. code \in DOMAIN Filtered(some) <=> code \in DOMAIN Filtered(all)
      BY <1>1, CodesAre
<1>3. ASSUME code \in DOMAIN Filtered(some)
      PROVE  Filtered(some)[code] = Filtered(all)[code]
  <2> DEFINE aside(bases) ==
                 {Raw(bases)[c] : c \in {c \in CodesOf(bases) :
                                            c.base = code.base /\ Excludes(c)}}
  <2>1. \A c : c.base = code.base /\ c \in CodesOf(some) =>
                  c \in CodesOf(all) /\ Raw(some)[c] = Raw(all)[c]
    <3> SUFFICES ASSUME NEW c, c.base = code.base, c \in CodesOf(some)
                 PROVE  c \in CodesOf(all) /\ Raw(some)[c] = Raw(all)[c]
        OBVIOUS
    <3>1. c \in CodesOf(all) BY CodesLocal
    <3> QED BY <3>1 DEF Raw
  <2>2. \A c : c.base = code.base /\ c \in CodesOf(all) => c \in CodesOf(some)
        BY CodesLocal
  <2>3. aside(some) = aside(all) BY <2>1, <2>2
  <2>4. code \in CodesOf(some) /\ Raw(some)[code] = Raw(all)[code]
        BY <1>3, <2>1, CodesAre
  <2>5. ASSUME NEW bases, code \in DOMAIN Filtered(bases)
        PROVE  Filtered(bases)[code] =
                 IF code.attribute # "none" THEN Raw(bases)[code]
                 ELSE Raw(bases)[code] \ UNION aside(bases)
    <3>1. DOMAIN Raw(bases) = CodesOf(bases) BY CodesAre
    <3> QED BY <2>5, <3>1 DEF Filtered, filterTags
  <2> HIDE DEF aside
  <2> QED BY <1>2, <1>3, <2>3, <2>4, <2>5
<1> QED BY <1>2, <1>3

Chinas(bases) == {c \in DOMAIN Filtered(bases) : c = China \/ Chinese(c)}

(* All that is merged into "cn".                                           *)
MergedInto(bases) == UNION {Filtered(bases)[c] : c \in Chinas(bases)}

LEMMA ParsedIs ==
    ASSUME NEW bases
    PROVE  /\ DOMAIN Parsed(bases) = DOMAIN Filtered(bases)
                 \cup (IF MergedInto(bases) = {} THEN {} ELSE {China, Nation})
           /\ \A code \in DOMAIN Parsed(bases) :
                 Parsed(bases)[code] = compile(
                     IF MergedInto(bases) # {} /\ code = China THEN MergedInto(bases)
                     ELSE IF MergedInto(bases) # {} /\ code = Nation
                     THEN MergedInto(bases) \cup {Pattern("SUFFIX", "cn")}
                     ELSE Filtered(bases)[code])
<1> DEFINE list == mergeChineseCategories(Filtered(bases))
<1>1. China # Nation
  <2>1. China.base = "geolocation-cn" /\ Nation.base = "cn" BY DEF China, Nation, Whole
  <2> QED BY <2>1
<1>2. list = IF MergedInto(bases) = {} THEN Filtered(bases)
             ELSE [code \in DOMAIN Filtered(bases) \cup {China, Nation} |->
                     CASE code = China  -> MergedInto(bases)
                       [] code = Nation -> MergedInto(bases) \cup {Pattern("SUFFIX", "cn")}
                       [] OTHER         -> Filtered(bases)[code]]
      BY DEF mergeChineseCategories, MergedInto, Chinas
<1>3. Parsed(bases) = [code \in DOMAIN list |-> compile(list[code])]
      BY DEF Parsed, Filtered
<1> HIDE DEF list
<1>4. CASE MergedInto(bases) = {}
      BY <1>2, <1>3, <1>4
<1>5. CASE MergedInto(bases) # {}
  <2>1. DOMAIN list = DOMAIN Filtered(bases) \cup {China, Nation} BY <1>2, <1>5
  <2>2. /\ list[China] = MergedInto(bases)
        /\ list[Nation] = MergedInto(bases) \cup {Pattern("SUFFIX", "cn")}
        /\ \A code \in DOMAIN list :
              code \notin {China, Nation} => list[code] = Filtered(bases)[code]
        BY <1>1, <1>2, <1>5, <2>1
  <2> QED BY <1>1, <1>3, <1>5, <2>1, <2>2
<1> QED BY <1>4, <1>5

(* The bases that are read for a code hold all that is merged into it.     *)
LEMMA MergedLocal ==
    ASSUME NEW some, NEW all, some \subseteq all,
           all \cap (category \cup {China.base}) \subseteq some
    PROVE  MergedInto(some) = MergedInto(all)
<1>1. ASSUME NEW c, c = China \/ Chinese(c)
      PROVE  /\ c \in DOMAIN Filtered(some) <=> c \in DOMAIN Filtered(all)
             /\ c \in DOMAIN Filtered(some) => Filtered(some)[c] = Filtered(all)[c]
  <2>1. c.base \in category \cup {China.base} BY <1>1 DEF Chinese
  <2>2. CASE c.base \in some BY <2>2, FilteredLocal
  <2>3. CASE c.base \notin some BY <2>1, <2>3, CodesAre
  <2> QED BY <2>2, <2>3
<1>2. Chinas(some) = Chinas(all) BY <1>1 DEF Chinas
<1>3. \A c \in Chinas(some) : Filtered(some)[c] = Filtered(all)[c]
      BY <1>1 DEF Chinas
<1> QED BY <1>2, <1>3 DEF MergedInto

(* What is read for the categories asked for is what the whole database    *)
(* holds of them.                                                          *)
LEMMA SelectedIsExact ==
    ASSUME NEW requested, NEW code \in requested, code \in DOMAIN Selected(requested)
    PROVE  /\ code \in DOMAIN WholeDatabase
           /\ Selected(requested)[code] = WholeDatabase[code]
<1> DEFINE some == {base \in DOMAIN database : relevant(base, requested)}
           all  == DOMAIN database
<1>1. /\ code \in DOMAIN Parsed(some)
      /\ Selected(requested)[code] = Parsed(some)[code]
      BY DEF Selected, Restrict
<1>2. some \subseteq all OBVIOUS
<1>3. WholeDatabase = Parsed(all) BY DEF WholeDatabase
<1>4. code.base \in all => code.base \in some BY DEF relevant
<1>5. code \in DOMAIN Filtered(some) =>
        code \in DOMAIN Filtered(all) /\ Filtered(some)[code] = Filtered(all)[code]
      BY <1>2, <1>4, CodesAre, FilteredLocal
<1>6. CASE code \in {China, Nation}
  <2>1. requested \cap {China, Nation} # {} BY <1>6
  <2>2. all \cap (category \cup {China.base}) \subseteq some BY <2>1 DEF relevant
  <2>3. MergedInto(some) = MergedInto(all) BY <1>2, <2>2, MergedLocal
  <2> HIDE DEF some, all
  <2> QED BY <1>1, <1>3, <1>5, <2>3, ParsedIs
<1>7. CASE code \notin {China, Nation}
  <2> HIDE DEF some, all
  <2>1. code \in DOMAIN Filtered(some) BY <1>1, <1>7, ParsedIs
  <2>2. code \in DOMAIN Parsed(all) BY <1>5, <2>1, ParsedIs
  <2> QED BY <1>1, <1>3, <1>5, <1>7, <2>1, <2>2, ParsedIs
<1> QED BY <1>6, <1>7

CachedIsExact ==
    \A code \in DOMAIN sites :
        code \in DOMAIN WholeDatabase /\ sites[code] = WholeDatabase[code]

LEMMA CacheKept == CachedIsExact /\ [GeoSiteNext]_geoSiteVars => CachedIsExact'
<1> SUFFICES ASSUME CachedIsExact, [GeoSiteNext]_geoSiteVars
             PROVE  CachedIsExact'
    OBVIOUS
<1>1. database' = database
      BY DEF GeoSiteNext, PrepareGeoSites, geoSiteVars
<1>2. WholeDatabase' = WholeDatabase
      BY <1>1 DEF WholeDatabase, Parsed, mergeChineseCategories, filterTags, Raw, CodesOf,
                  AttributesOf, With
<1>3. CASE UNCHANGED geoSiteVars BY <1>2, <1>3 DEF CachedIsExact, geoSiteVars
<1>4. ASSUME NEW requested \in SUBSET geoSiteCodes, PrepareGeoSites(requested)
      PROVE  CachedIsExact'
  <2> DEFINE missing == requested \ DOMAIN sites
  <2>1. /\ \A code \in missing : code \in DOMAIN Selected(missing)
        /\ sites' = [code \in requested |->
                        IF code \in missing THEN Selected(missing)[code] ELSE sites[code]]
        BY <1>4 DEF PrepareGeoSites
  <2> SUFFICES ASSUME NEW code \in requested
               PROVE  /\ code \in DOMAIN WholeDatabase
                      /\ sites'[code] = WholeDatabase[code]
      BY <1>2, <2>1 DEF CachedIsExact
  <2>2. CASE code \in missing BY <2>1, <2>2, SelectedIsExact
  <2>3. CASE code \notin missing BY <2>1, <2>3 DEF CachedIsExact
  <2> QED BY <2>2, <2>3
<1> QED BY <1>3, <1>4 DEF GeoSiteNext

(* Every category offered can be read.                                     *)
LEMMA OfferedIsRead ==
    ASSUME NEW code \in geoSiteCodes
    PROVE  \/ code \in DOMAIN WholeDatabase
           \/ code = Nation /\ WholeDatabase[China] = {}
<1> DEFINE all == DOMAIN database
<1>1. filterCodeTags(CodesOf(all)) = DOMAIN Filtered(all)
  <2>1. DOMAIN Raw(all) = CodesOf(all) BY DEF Raw
  <2> QED BY <2>1 DEF Filtered, filterTags
<1>2. WholeDatabase = Parsed(all) BY DEF WholeDatabase
<1> HIDE DEF all
<1>3. CASE code \in DOMAIN Filtered(all) BY <1>2, <1>3, ParsedIs
<1>4. CASE code = Nation /\ China \in DOMAIN Filtered(all) /\ MergedInto(all) # {}
      BY <1>2, <1>4, ParsedIs
<1>5. CASE code = Nation /\ China \in DOMAIN Filtered(all) /\ MergedInto(all) = {}
  <2>1. China \in Chinas(all) BY <1>5 DEF Chinas
  <2>2. Filtered(all)[China] = {} BY <1>5, <2>1 DEF MergedInto
  <2>3. WholeDatabase[China] = compile({}) BY <1>2, <1>5, <2>2, ParsedIs
  <2> QED BY <1>5, <2>3 DEF compile
<1> QED BY <1>1, <1>3, <1>4, <1>5 DEF geoSiteCodes, all

(* However the rules that name them came and went, a category that is      *)
(* cached holds what the whole database holds of it, and every category on *)
(* offer can be read, save "cn" when nothing is left of it; for any        *)
(* database, sizes and rules.                                              *)
THEOREM CategoriesExact == GeoSiteSpec => []CategoriesAreExact
<1>1. GeoSiteInit => CachedIsExact
  <2>1. DOMAIN <<>> = {} OBVIOUS
  <2> QED BY <2>1 DEF GeoSiteInit, CachedIsExact
<1>2. GeoSiteSpec => []CachedIsExact BY <1>1, CacheKept, PTL DEF GeoSiteSpec
<1>3. CachedIsExact => CategoriesAreExact
      BY OfferedIsRead DEF CachedIsExact, CategoriesAreExact
<1> QED BY <1>2, <1>3, PTL
-----------------------------------------------------------------------------
(* Database.                                                               *)

FirstKinds == {"activate", "rotate", "revoke"}
AllKinds   == FirstKinds \cup {"suspend", "resume"}
Language   == {Unset, "ru", "zh-CN"}
Settings   == {Unset, "compact", "zh-CN", "other"}

DbRow == [applied : SUBSET Nat, owner : BOOLEAN, language : Language, jobs : SUBSET Job,
          kinds : {{}, FirstKinds, AllKinds}, network : {Unset, "default", "edited"},
          cursors : SUBSET {"xray"}, interface : Settings \cup {"wide"},
          drafts : {Unset, "defaults", "edited"}, revisions : Nat, active : Int,
          methods : {Unset, "defaults", "edited"}]

(* How far a process has come; what each statement found or left.          *)
Behind(at) ==
    CASE at = "insert"   -> 1
      [] at = "default"  -> 2
      [] at \in {"publish", "revision"} -> 3
      [] at = "settings" -> 4
      [] at \in {"methods", "first"} -> 5
      [] at = "open"     -> 6
      [] OTHER           -> 0

OpeningSteps == {"closed", "migrate", "insert", "default", "publish", "revision",
                 "settings", "methods", "first", "open"}
OpeningRow   == [at : OpeningSteps, seen : SUBSET Nat, late : BOOLEAN]

(* The migrations that have been applied are the first ones.               *)
Prefix == {1..n : n \in 0..6}

DatabaseTyped ==
    /\ db \in DbRow /\ opening \in [Process -> OpeningRow]
    /\ before \in DbRow /\ before.interface \in Settings

(* What the database holds, whoever has it open.                           *)
MigrationsFit ==
    /\ db.applied \in Prefix
    /\ 2 \notin db.applied => /\ db.interface = before.interface
                              /\ db.language = Unset /\ before.language = Unset
    /\ before.owner /\ 2 \in db.applied =>
          db.language = (IF "zh-CN" \in {before.language, before.interface}
                         THEN "zh-CN" ELSE "ru")
    /\ 1 \in db.applied => FirstKinds \subseteq db.kinds
    /\ 3 \in db.applied => db.kinds = AllKinds
    /\ 4 \in db.applied => db.network # Unset

KeptAsWas ==
    db.jobs = before.jobs /\ db.cursors = before.cursors /\ db.owner = before.owner

RoutesFit ==
    /\ db.revisions = 0 => db.active \in {-1, 0}
    /\ db.revisions > 0 => db.active \in 1..db.revisions
    /\ db.drafts = "edited" /\ db.active <= 0 => before.drafts = "edited"

(* What a process relies on at its statement.                              *)
Reads(p) ==
    /\ opening[p].seen \in Prefix /\ opening[p].seen \subseteq db.applied
    /\ Behind(opening[p].at) >= 1 => opening[p].seen = Migrations
    /\ Behind(opening[p].at) >= 2 => db.drafts # Unset
    /\ Behind(opening[p].at) >= 3 => db.active >= 0
    /\ Behind(opening[p].at) >= 4 => (db.active = 0 => before.drafts = "edited")
    /\ Behind(opening[p].at) >= 5 => db.interface # Unset
    /\ Behind(opening[p].at) >= 6 => db.methods # Unset
    /\ opening[p].late => db.methods # Unset
    /\ opening[p].at = "first" => ~opening[p].late

DatabaseInv ==
    /\ DatabaseTyped /\ MigrationsFit /\ KeptAsWas /\ RoutesFit
    /\ \A p \in Process : Reads(p)

(* What no step takes away.                                                *)
Grows ==
    /\ db.applied \subseteq db'.applied
    /\ db.drafts # Unset => db'.drafts # Unset
    /\ db.drafts = "edited" => db'.drafts = "edited"
    /\ db.network = "edited" => db'.network = "edited"
    /\ db.interface # Unset => db'.interface # Unset
    /\ db.interface = "wide" => db'.interface = "wide"
    /\ db.methods # Unset => db'.methods # Unset
    /\ db'.revisions >= db.revisions /\ db'.active >= db.active

LEMMA ReadsKept ==
    ASSUME DatabaseInv, NEW p \in Process, opening'[p] = opening[p], before' = before,
           db' \in DbRow, Grows
    PROVE  Reads(p)'
<1>1. db.active \in Int /\ db'.active \in Int BY DEF DatabaseInv, DatabaseTyped, DbRow
<1>2. db'.active >= db.active BY DEF Grows
<1>3. db.active >= 0 => db'.active >= 0 /\ (db'.active = 0 => db.active = 0)
      BY <1>1, <1>2
<1>4. /\ db.applied \subseteq db'.applied
      /\ db.drafts # Unset => db'.drafts # Unset
      /\ db.interface # Unset => db'.interface # Unset
      /\ db.methods # Unset => db'.methods # Unset
      BY DEF Grows
<1>5. Behind(opening[p].at) >= 4 => Behind(opening[p].at) >= 3
  <2>1. Behind(opening[p].at) \in Int BY DEF Behind
  <2> QED BY <2>1
<1>6. Reads(p) BY DEF DatabaseInv
<1> QED BY <1>3, <1>4, <1>5, <1>6 DEF Reads

(* One process moves, and the database only grows.                         *)
LEMMA MovesStep ==
    ASSUME DatabaseInv, NEW p \in Process, NEW row \in OpeningRow,
           opening' = [opening EXCEPT ![p] = row], before' = before,
           db' \in DbRow, Grows, Reads(p)', MigrationsFit', KeptAsWas', RoutesFit'
    PROVE  DatabaseInv'
<1>1. DatabaseTyped' BY DEF DatabaseInv, DatabaseTyped
<1>2. \A q \in Process : q # p => opening'[q] = opening[q]
      BY DEF DatabaseInv, DatabaseTyped
<1>3. \A q \in Process : Reads(q)' BY <1>2, ReadsKept
<1> QED BY <1>1, <1>3 DEF DatabaseInv

(* A process that only reads: the database stays.                          *)
LEMMA ReadingStep ==
    ASSUME DatabaseInv, NEW p \in Process, NEW row \in OpeningRow,
           opening' = [opening EXCEPT ![p] = row], UNCHANGED <<db, before>>, Reads(p)'
    PROVE  DatabaseInv' /\ Grows
<1>1. db' \in DbRow /\ db.revisions \in Nat /\ db.active \in Int
      BY DEF DatabaseInv, DatabaseTyped, DbRow
<1>2. Grows BY <1>1 DEF Grows
<1>3. MigrationsFit' /\ KeptAsWas' /\ RoutesFit'
      BY DEF DatabaseInv, MigrationsFit, KeptAsWas, RoutesFit
<1> QED BY <1>1, <1>2, <1>3, MovesStep

LEMMA AtStep ==
    ASSUME DatabaseInv, NEW p \in Process, NEW at \in OpeningSteps, At(p, at)
    PROVE  \E row \in OpeningRow :
              /\ row.at = at /\ row.seen = opening[p].seen /\ row.late = opening[p].late
              /\ opening' = [opening EXCEPT ![p] = row] /\ opening'[p] = row
<1> DEFINE row == [opening[p] EXCEPT !.at = at]
<1>1. opening \in [Process -> OpeningRow] /\ opening[p] \in OpeningRow
      BY DEF DatabaseInv, DatabaseTyped
<1>2. /\ row \in OpeningRow /\ row.at = at
      /\ row.seen = opening[p].seen /\ row.late = opening[p].late
      BY <1>1 DEF OpeningRow
<1>3. opening' = [opening EXCEPT ![p] = row] BY DEF At
<1> HIDE DEF row
<1>4. opening'[p] = row BY <1>1, <1>3
<1> QED BY <1>2, <1>3, <1>4

LEMMA OpensStep == ASSUME DatabaseInv, NEW p \in Process, Opens(p) PROVE DatabaseInv' /\ Grows
<1> DEFINE row == [at |-> "migrate", seen |-> db.applied, late |-> db.methods # Unset]
<1>1. opening' = [opening EXCEPT ![p] = row] /\ UNCHANGED <<db, before>> BY DEF Opens
<1>2. (db.methods # Unset) \in BOOLEAN /\ db.applied \in SUBSET Nat
      BY DEF DatabaseInv, DatabaseTyped, DbRow
<1>3. row \in OpeningRow BY <1>2 DEF OpeningRow, OpeningSteps
<1>4. /\ row.at = "migrate" /\ row.seen = db.applied
      /\ row.late <=> db.methods # Unset
      OBVIOUS
<1> HIDE DEF row
<1>5. opening'[p] = row BY <1>1 DEF DatabaseInv, DatabaseTyped
<1>6. Behind("migrate") = 0 BY DEF Behind
<1>7. Reads(p)' BY <1>1, <1>4, <1>5, <1>6 DEF Reads, DatabaseInv, MigrationsFit
<1> QED BY <1>1, <1>3, <1>7, ReadingStep

(* What is read between the statements: the tables, the drafts, the routes,*)
(* the methods; and the end of a process.                                  *)
LEMMA ReadStep ==
    ASSUME DatabaseInv, NEW p \in Process, NEW at \in OpeningSteps, At(p, at),
           UNCHANGED <<db, before>>,
           Behind(at) >= 1 => opening[p].seen = Migrations,
           Behind(at) >= 2 => db.drafts # Unset,
           Behind(at) >= 3 => db.active >= 0,
           Behind(at) >= 4 => (db.active = 0 => before.drafts = "edited"),
           Behind(at) >= 5 => db.interface # Unset,
           Behind(at) >= 6 => db.methods # Unset,
           at = "first" => ~opening[p].late
    PROVE  DatabaseInv' /\ Grows
<1>1. PICK row \in OpeningRow :
        /\ row.at = at /\ row.seen = opening[p].seen /\ row.late = opening[p].late
        /\ opening' = [opening EXCEPT ![p] = row] /\ opening'[p] = row
      BY AtStep
<1>2. Reads(p)' BY <1>1 DEF DatabaseInv, Reads
<1> QED BY <1>1, <1>2, ReadingStep

LEMMA NextIs ==
    ASSUME DatabaseInv, NEW p \in Process, Migrations # opening[p].seen
    PROVE  \E m \in 1..6 :
              /\ NextMigration(p) = m /\ opening[p].seen = 1..(m - 1)
              /\ opening[p].seen \cup {m} = 1..m
              /\ m \notin db.applied =>
                    db.applied = opening[p].seen /\ db.applied \cup {m} = 1..m
<1>1. /\ opening[p].seen \in Prefix /\ opening[p].seen \subseteq db.applied
      /\ db.applied \in Prefix
      BY DEF DatabaseInv, Reads, MigrationsFit
<1>2. PICK k \in 0..6 : opening[p].seen = 1..k BY <1>1 DEF Prefix
<1>3. PICK n \in 0..6 : db.applied = 1..n BY <1>1 DEF Prefix
<1>4. k \in 0..5 BY <1>2 DEF Migrations
<1>5. /\ k + 1 \in 1..6 /\ (k + 1) - 1 = k /\ 1..k \cup {k + 1} = 1..(k + 1)
      /\ k + 1 \in Migrations \ (1..k)
      /\ \A i \in Migrations \ (1..k) : k + 1 <= i
      BY <1>4 DEF Migrations
<1>6. NextMigration(p) = k + 1
  <2> DEFINE left == Migrations \ opening[p].seen
             least(i) == i \in left /\ \A j \in left : i <= j
  <2>1. least(k + 1) BY <1>2, <1>5
  <2>2. \A i : least(i) => i = k + 1
    <3> SUFFICES ASSUME NEW i, least(i) PROVE i = k + 1
        OBVIOUS
    <3>1. i \in left /\ i <= k + 1 BY <2>1
    <3>2. k + 1 <= i BY <1>2, <1>5, <3>1
    <3>3. i \in Int BY <3>1 DEF Migrations
    <3> QED BY <1>4, <3>1, <3>2, <3>3
  <2>3. NextMigration(p) = CHOOSE i \in left : \A j \in left : i <= j
        BY DEF NextMigration
  <2>4. NextMigration(p) = CHOOSE i : least(i) BY <2>3
  <2> QED BY <2>1, <2>2, <2>4
<1>7. ASSUME k + 1 \notin db.applied PROVE n = k
  <2>1. n <= k BY <1>3, <1>4, <1>7
  <2>2. \A i \in 1..k : i \in 1..n BY <1>1, <1>2, <1>3
  <2>3. k <= n
    <3>1. CASE k = 0 BY <3>1
    <3>2. CASE k # 0
      <4>1. k \in 1..k BY <1>4, <3>2
      <4> QED BY <2>2, <4>1
    <3> QED BY <3>1, <3>2
  <2> QED BY <2>1, <2>3
<1>8. k + 1 \notin db.applied =>
         db.applied = opening[p].seen /\ db.applied \cup {k + 1} = 1..(k + 1)
      BY <1>2, <1>3, <1>5, <1>7
<1> QED BY <1>2, <1>5, <1>6, <1>8

(* What a migration changes of a row of the database, and what it leaves.  *)
LEMMA AppliedFacts ==
    ASSUME NEW d \in DbRow, NEW m \in 1..6, m = 3 => FirstKinds \subseteq d.kinds
    PROVE  /\ Applied(d, m) \in DbRow
           /\ Applied(d, m).applied = d.applied \cup {m}
           /\ Applied(d, m).jobs = d.jobs /\ Applied(d, m).cursors = d.cursors
           /\ Applied(d, m).owner = d.owner /\ Applied(d, m).drafts = d.drafts
           /\ Applied(d, m).revisions = d.revisions /\ Applied(d, m).active = d.active
           /\ Applied(d, m).methods = d.methods
           /\ Applied(d, m).language =
                 IF m # 2 THEN d.language ELSE IF ~d.owner THEN Unset
                 ELSE IF d.interface = "zh-CN" THEN "zh-CN" ELSE "ru"
           /\ Applied(d, m).interface =
                 IF m # 2 \/ d.interface = Unset THEN d.interface ELSE "compact"
           /\ Applied(d, m).kinds =
                 IF m = 1 THEN FirstKinds ELSE IF m = 3 THEN AllKinds ELSE d.kinds
           /\ Applied(d, m).network =
                 IF m = 4 /\ d.network = Unset THEN "default" ELSE d.network
<1> DEFINE changed ==
              CASE m = 1 -> FirstTables(d)
                [] m = 2 -> OwnerLanguage(d)
                [] m = 3 -> Suspension(d)
                [] m = 4 -> NetworkSettings(d)
                [] OTHER -> d
<1>1. /\ changed \in DbRow /\ changed.applied = d.applied
      /\ changed.jobs = d.jobs /\ changed.cursors = d.cursors
      /\ changed.owner = d.owner /\ changed.drafts = d.drafts
      /\ changed.revisions = d.revisions /\ changed.active = d.active
      /\ changed.methods = d.methods
      /\ changed.language =
            IF m # 2 THEN d.language ELSE IF ~d.owner THEN Unset
            ELSE IF d.interface = "zh-CN" THEN "zh-CN" ELSE "ru"
      /\ changed.interface =
            IF m # 2 \/ d.interface = Unset THEN d.interface ELSE "compact"
      /\ changed.kinds =
            IF m = 1 THEN FirstKinds ELSE IF m = 3 THEN AllKinds ELSE d.kinds
      /\ changed.network =
            IF m = 4 /\ d.network = Unset THEN "default" ELSE d.network
  <2>1. CASE m = 1 BY <2>1 DEF FirstTables, DbRow, FirstKinds
  <2>2. CASE m = 2
    <3> DEFINE language == IF ~d.owner THEN Unset
                           ELSE IF d.interface = "zh-CN" THEN "zh-CN" ELSE "ru"
               interface == IF d.interface = Unset THEN Unset ELSE "compact"
    <3>1. language \in Language /\ interface \in Settings BY DEF Language, Settings
    <3>2. changed = [d EXCEPT !.language = language, !.interface = interface]
          BY <2>2 DEF OwnerLanguage, DbRow
    <3> HIDE DEF language, interface, changed
    <3>3. /\ changed \in DbRow /\ changed.applied = d.applied
          /\ changed.jobs = d.jobs /\ changed.cursors = d.cursors
          /\ changed.owner = d.owner /\ changed.drafts = d.drafts
          /\ changed.revisions = d.revisions /\ changed.active = d.active
          /\ changed.methods = d.methods /\ changed.kinds = d.kinds
          /\ changed.network = d.network
          /\ changed.language = language /\ changed.interface = interface
          BY <3>1, <3>2 DEF DbRow
    <3> QED BY <2>2, <3>3 DEF language, interface
  <2>3. CASE m = 3
    <3>1. d.kinds \cup {"suspend", "resume"} = AllKinds
          BY <2>3 DEF DbRow, FirstKinds, AllKinds
    <3>2. changed = [d EXCEPT !.kinds = AllKinds] BY <2>3, <3>1 DEF Suspension
    <3> HIDE DEF changed
    <3> QED BY <2>3, <3>2 DEF DbRow
  <2>4. CASE m = 4
    <3> DEFINE network == IF d.network = Unset THEN "default" ELSE d.network
    <3>1. network \in {Unset, "default", "edited"} BY DEF DbRow
    <3>2. changed = [d EXCEPT !.network = network] BY <2>4 DEF NetworkSettings
    <3> HIDE DEF changed, network
    <3>3. /\ changed \in DbRow /\ changed.network = network
          /\ changed = [d EXCEPT !.network = network]
          BY <3>1, <3>2 DEF DbRow
    <3> QED BY <2>4, <3>3 DEF DbRow, network
  <2>5. CASE m \in {5, 6} BY <2>5
  <2> QED BY <2>1, <2>2, <2>3, <2>4, <2>5
<1>2. Applied(d, m) = [changed EXCEPT !.applied = changed.applied \cup {m}]
      BY DEF Applied
<1> HIDE DEF changed
<1>3. changed.applied \cup {m} \in SUBSET Nat BY <1>1 DEF DbRow
<1>4. /\ Applied(d, m) \in DbRow
      /\ Applied(d, m).applied = changed.applied \cup {m}
      /\ Applied(d, m).jobs = changed.jobs /\ Applied(d, m).cursors = changed.cursors
      /\ Applied(d, m).owner = changed.owner /\ Applied(d, m).drafts = changed.drafts
      /\ Applied(d, m).revisions = changed.revisions
      /\ Applied(d, m).active = changed.active
      /\ Applied(d, m).methods = changed.methods
      /\ Applied(d, m).language = changed.language
      /\ Applied(d, m).interface = changed.interface
      /\ Applied(d, m).kinds = changed.kinds
      /\ Applied(d, m).network = changed.network
      BY <1>1, <1>2, <1>3 DEF DbRow
<1> QED BY <1>1, <1>4

LEMMA InPrefix == \A m \in 1..6 : 1..m \in Prefix
BY DEF Prefix

LEMMA MigratesStep ==
    ASSUME DatabaseInv, NEW p \in Process, Migrates(p) PROVE DatabaseInv' /\ Grows
<1>1. PICK m \in 1..6 :
        /\ NextMigration(p) = m /\ opening[p].seen = 1..(m - 1)
        /\ opening[p].seen \cup {m} = 1..m
        /\ m \notin db.applied =>
              db.applied = opening[p].seen /\ db.applied \cup {m} = 1..m
      BY NextIs DEF Migrates
<1>2. opening[p].at = "migrate" BY DEF Migrates
<1>3. CASE m \in db.applied
  <2>1. At(p, "closed") /\ UNCHANGED <<db, before>> BY <1>1, <1>3 DEF Migrates
  <2>2. Behind("closed") = 0 /\ "closed" \in OpeningSteps BY DEF Behind, OpeningSteps
  <2> QED BY <2>1, <2>2, ReadStep
<1>4. CASE m \notin db.applied
  <2> DEFINE row == [opening[p] EXCEPT !.seen = opening[p].seen \cup {m}]
             d == Applied(db, m)
  <2>1. db' = d /\ before' = before /\ opening' = [opening EXCEPT ![p] = row]
        BY <1>1, <1>4 DEF Migrates, Writes
  <2>2. opening[p] \in OpeningRow /\ opening \in [Process -> OpeningRow] /\ db \in DbRow
        BY DEF DatabaseInv, DatabaseTyped
  <2>3. /\ row \in OpeningRow /\ row.at = "migrate" /\ row.seen = 1..m
        /\ row.late = opening[p].late
        BY <1>1, <1>2, <2>2 DEF OpeningRow
  <2> HIDE DEF row
  <2>4. opening'[p] = row BY <2>1, <2>2
  <2>5. db.applied = 1..(m - 1) /\ db.applied \cup {m} = 1..m BY <1>1, <1>4
  <2>6. m = 3 => FirstKinds \subseteq db.kinds
        BY <2>5 DEF DatabaseInv, MigrationsFit
  <2>7. d \in DbRow /\ d.applied = 1..m BY <2>2, <2>5, <2>6, AppliedFacts
  <2>8. /\ d.jobs = db.jobs /\ d.cursors = db.cursors /\ d.owner = db.owner
        /\ d.drafts = db.drafts /\ d.revisions = db.revisions
        /\ d.active = db.active /\ d.methods = db.methods
        BY <2>2, <2>6, AppliedFacts
  <2>9. /\ d.language = IF m # 2 THEN db.language ELSE IF ~db.owner THEN Unset
                        ELSE IF db.interface = "zh-CN" THEN "zh-CN" ELSE "ru"
        /\ d.interface = IF m # 2 \/ db.interface = Unset THEN db.interface
                         ELSE "compact"
        BY <2>2, <2>6, AppliedFacts
  <2>10. /\ d.kinds = IF m = 1 THEN FirstKinds ELSE IF m = 3 THEN AllKinds ELSE db.kinds
         /\ d.network = IF m = 4 /\ db.network = Unset THEN "default" ELSE db.network
         BY <2>2, <2>6, AppliedFacts
  <2> HIDE DEF d
  <2>11. m = 2 => db.interface = before.interface /\ before.language = Unset
         BY <2>5 DEF DatabaseInv, MigrationsFit
  <2>12. Grows
    <3>1. db.interface = "wide" => m # 2
          BY <2>11 DEF DatabaseInv, DatabaseTyped, Settings, Unset
    <3>2. db.revisions \in Nat /\ db.active \in Int BY <2>2 DEF DbRow
    <3>3. db.applied \subseteq d.applied BY <2>5, <2>7
    <3>4. /\ db.network = "edited" => d.network = "edited"
          /\ db.interface # Unset => d.interface # Unset
          /\ db.interface = "wide" => d.interface = "wide"
          BY <2>9, <2>10, <3>1 DEF Unset
    <3>5. d.revisions >= db.revisions /\ d.active >= db.active BY <2>8, <3>2
    <3> QED BY <2>1, <2>8, <3>3, <3>4, <3>5 DEF Grows
  <2>13. MigrationsFit'
    <3>1. db'.applied \in Prefix BY <2>1, <2>7, InPrefix
    <3>2. 2 \notin db'.applied => /\ db'.interface = before.interface
                                  /\ db'.language = Unset /\ before.language = Unset
          BY <2>1, <2>5, <2>7, <2>9 DEF DatabaseInv, MigrationsFit
    <3>3. before.owner /\ 2 \in db'.applied =>
            db'.language = (IF "zh-CN" \in {before.language, before.interface}
                            THEN "zh-CN" ELSE "ru")
      <4>1. CASE m = 2
        <5>1. db.owner = before.owner BY DEF DatabaseInv, KeptAsWas
        <5>2. before.owner => db'.language =
                 IF before.interface = "zh-CN" THEN "zh-CN" ELSE "ru"
              BY <2>1, <2>9, <2>11, <4>1, <5>1
        <5>3. before.language # "zh-CN" BY <2>11, <4>1 DEF Unset
        <5> QED BY <5>2, <5>3
      <4>2. CASE m # 2
        <5>1. 2 \in db'.applied => 2 \in db.applied BY <2>1, <2>5, <2>7, <4>2
        <5> QED BY <2>1, <2>9, <4>2, <5>1 DEF DatabaseInv, MigrationsFit
      <4> QED BY <4>1, <4>2
    <3>4. /\ 1 \in db'.applied => FirstKinds \subseteq db'.kinds
          /\ 3 \in db'.applied => db'.kinds = AllKinds
          /\ 4 \in db'.applied => db'.network # Unset
      <4>1. FirstKinds \subseteq AllKinds BY DEF AllKinds
      <4>2. /\ m # 1 /\ 1 \in db'.applied => 1 \in db.applied
            /\ m # 3 /\ 3 \in db'.applied => 3 \in db.applied
            /\ m # 4 /\ 4 \in db'.applied => 4 \in db.applied
            /\ m = 1 => 3 \notin db'.applied
            BY <2>1, <2>5, <2>7
      <4>3. /\ 1 \in db.applied => FirstKinds \subseteq db.kinds
            /\ 3 \in db.applied => db.kinds = AllKinds
            /\ 4 \in db.applied => db.network # Unset
            BY DEF DatabaseInv, MigrationsFit
      <4>4. 1 \in db'.applied => FirstKinds \subseteq db'.kinds
            BY <2>1, <2>10, <4>1, <4>2, <4>3
      <4>5. 3 \in db'.applied => db'.kinds = AllKinds
            BY <2>1, <2>10, <4>2, <4>3
      <4>6. 4 \in db'.applied => db'.network # Unset
            BY <2>1, <2>10, <4>2, <4>3 DEF Unset
      <4> QED BY <4>4, <4>5, <4>6
    <3> QED BY <2>1, <3>1, <3>2, <3>3, <3>4 DEF MigrationsFit
  <2>14. KeptAsWas' BY <2>1, <2>8 DEF DatabaseInv, KeptAsWas
  <2>15. RoutesFit' BY <2>1, <2>8 DEF DatabaseInv, RoutesFit
  <2>16. Reads(p)'
    <3>1. Behind("migrate") = 0 BY DEF Behind
    <3>2. 1..m \in Prefix BY InPrefix
    <3> QED BY <2>1, <2>3, <2>4, <2>7, <2>8, <3>1, <3>2 DEF DatabaseInv, Reads
  <2> QED BY <2>1, <2>3, <2>7, <2>12, <2>13, <2>14, <2>15, <2>16, MovesStep
<1> QED BY <1>3, <1>4

(* Statements other than migrations leave what migrations are about.       *)
LEMMA WritesFit ==
    ASSUME DatabaseInv, before' = before, db'.applied = db.applied,
           db'.jobs = db.jobs, db'.kinds = db.kinds, db'.cursors = db.cursors,
           db'.owner = db.owner, db'.language = db.language,
           db'.network = db.network \/ db'.network = "edited",
           db'.interface = db.interface \/ 2 \in db.applied
    PROVE  MigrationsFit' /\ KeptAsWas'
BY DEF DatabaseInv, MigrationsFit, KeptAsWas, Unset

(* A statement of seed(), of publishInitialRoutes() or of the first list   *)
(* of methods, and the process that goes on to the next one.               *)
LEMMA StatementStep ==
    ASSUME DatabaseInv, NEW p \in Process, NEW at \in OpeningSteps, At(p, at),
           before' = before, db' \in DbRow, Grows, MigrationsFit', KeptAsWas', RoutesFit',
           opening[p].seen = Migrations,
           Behind(at) >= 2 => db'.drafts # Unset,
           Behind(at) >= 3 => db'.active >= 0,
           Behind(at) >= 4 => (db'.active = 0 => before.drafts = "edited"),
           Behind(at) >= 5 => db'.interface # Unset,
           Behind(at) >= 6 => db'.methods # Unset,
           at # "first"
    PROVE  DatabaseInv'
<1>1. PICK row \in OpeningRow :
        /\ row.at = at /\ row.seen = opening[p].seen /\ row.late = opening[p].late
        /\ opening' = [opening EXCEPT ![p] = row] /\ opening'[p] = row
      BY AtStep
<1>2. /\ opening[p].seen \subseteq db'.applied /\ opening[p].seen \in Prefix
      /\ opening[p].late => db'.methods # Unset
      BY DEF DatabaseInv, Reads, Grows
<1>3. Reads(p)' BY <1>1, <1>2 DEF Reads
<1> QED BY <1>1, <1>3, MovesStep

LEMMA BehindAre ==
    /\ Behind("closed") = 0 /\ Behind("migrate") = 0 /\ Behind("insert") = 1
    /\ Behind("default") = 2 /\ Behind("publish") = 3 /\ Behind("revision") = 3
    /\ Behind("settings") = 4 /\ Behind("methods") = 5 /\ Behind("first") = 5
    /\ Behind("open") = 6
BY DEF Behind

LEMMA StepsAre ==
    {"closed", "migrate", "insert", "default", "publish", "revision", "settings",
     "methods", "first", "open"} \subseteq OpeningSteps
BY DEF OpeningSteps

LEMMA CountsStep ==
    ASSUME DatabaseInv, NEW p \in Process, Counts(p) PROVE DatabaseInv' /\ Grows
<1>1. opening[p].seen = Migrations /\ UNCHANGED <<db, before>> BY DEF Counts
<1>2. CASE db.drafts = Unset
      BY <1>1, <1>2, ReadStep, BehindAre, StepsAre DEF Counts, Steps
<1>3. CASE db.drafts # Unset
      BY <1>1, <1>3, ReadStep, BehindAre, StepsAre DEF Counts, Steps
<1> QED BY <1>2, <1>3

LEMMA InsertsStep ==
    ASSUME DatabaseInv, NEW p \in Process, Inserts(p) PROVE DatabaseInv' /\ Grows
<1>1. opening[p].at = "insert" BY DEF Inserts, Steps
<1>2. opening[p].seen = Migrations BY <1>1, BehindAre DEF DatabaseInv, Reads
<1>3. CASE db.drafts # Unset
  <2>1. At(p, "closed") /\ UNCHANGED <<db, before>> BY <1>3 DEF Inserts, Steps
  <2> QED BY <2>1, ReadStep, BehindAre, StepsAre
<1>4. CASE db.drafts = Unset
  <2>1. /\ At(p, "default") /\ before' = before
        /\ db' = [db EXCEPT !.drafts = "defaults"]
        BY <1>4 DEF Inserts, Steps, Writes
  <2>2. db \in DbRow BY DEF DatabaseInv, DatabaseTyped
  <2>3. /\ db' \in DbRow /\ db'.drafts = "defaults" /\ db'.applied = db.applied
        /\ db'.jobs = db.jobs /\ db'.kinds = db.kinds /\ db'.cursors = db.cursors
        /\ db'.owner = db.owner /\ db'.language = db.language
        /\ db'.network = db.network /\ db'.interface = db.interface
        /\ db'.revisions = db.revisions /\ db'.active = db.active
        /\ db'.methods = db.methods
        BY <2>1, <2>2 DEF DbRow
  <2>4. MigrationsFit' /\ KeptAsWas' BY <2>1, <2>3, WritesFit
  <2>5. RoutesFit' BY <2>1, <2>3 DEF DatabaseInv, RoutesFit
  <2>6. db.revisions \in Nat /\ db.active \in Int BY <2>2 DEF DbRow
  <2>7. Grows BY <1>4, <2>3, <2>6 DEF Grows, Unset
  <2>8. db'.drafts # Unset BY <2>3 DEF Unset
  <2>9. DatabaseInv'
        BY <1>2, <2>1, <2>3, <2>4, <2>5, <2>7, <2>8, StatementStep, BehindAre, StepsAre
  <2> QED BY <2>7, <2>9
<1> QED BY <1>3, <1>4

LEMMA DefaultVersionStep ==
    ASSUME DatabaseInv, NEW p \in Process, DefaultVersion(p) PROVE DatabaseInv' /\ Grows
<1>1. opening[p].at = "default" /\ At(p, "publish") /\ before' = before
      BY DEF DefaultVersion, Steps, Writes
<1>2. opening[p].seen = Migrations /\ db.drafts # Unset
      BY <1>1, BehindAre DEF DatabaseInv, Reads
<1>3. db \in DbRow /\ db.active \in Int /\ db.revisions \in Nat
      BY DEF DatabaseInv, DatabaseTyped, DbRow
<1> DEFINE version == IF db.active = -1 THEN 0 ELSE db.active
<1>4. db' = [db EXCEPT !.active = version] BY DEF DefaultVersion, Writes
<1>5. version \in Int /\ version >= db.active BY <1>3
<1>6. /\ db.revisions = 0 => version = 0
      /\ db.revisions > 0 => version \in 1..db.revisions /\ version = db.active
      /\ version <= 0 => db.active <= 0
      /\ version >= 0
      BY <1>3 DEF DatabaseInv, RoutesFit
<1> HIDE DEF version
<1>7. /\ db' \in DbRow /\ db'.drafts = db.drafts /\ db'.applied = db.applied
      /\ db'.jobs = db.jobs /\ db'.kinds = db.kinds /\ db'.cursors = db.cursors
      /\ db'.owner = db.owner /\ db'.language = db.language
      /\ db'.network = db.network /\ db'.interface = db.interface
      /\ db'.revisions = db.revisions /\ db'.active = version
      /\ db'.methods = db.methods
      BY <1>3, <1>4, <1>5 DEF DbRow
<1>8. MigrationsFit' /\ KeptAsWas' BY <1>1, <1>7, WritesFit
<1>9. RoutesFit' BY <1>1, <1>6, <1>7 DEF DatabaseInv, RoutesFit
<1>10. Grows BY <1>3, <1>5, <1>7 DEF Grows
<1>11. DatabaseInv'
       BY <1>1, <1>2, <1>6, <1>7, <1>8, <1>9, <1>10, StatementStep, BehindAre, StepsAre
<1> QED BY <1>10, <1>11

LEMMA FindsUnpublishedStep ==
    ASSUME DatabaseInv, NEW p \in Process, FindsUnpublished(p)
    PROVE  DatabaseInv' /\ Grows
<1>1. opening[p].at = "publish" /\ UNCHANGED <<db, before>>
      BY DEF FindsUnpublished, Steps
<1>2. opening[p].seen = Migrations /\ db.drafts # Unset /\ db.active >= 0
      BY <1>1, BehindAre DEF DatabaseInv, Reads
<1>3. CASE db.active = 0 /\ db.revisions = 0 /\ db.drafts = "defaults"
      BY <1>1, <1>2, <1>3, ReadStep, BehindAre, StepsAre DEF FindsUnpublished, Steps
<1>4. CASE ~ (db.active = 0 /\ db.revisions = 0 /\ db.drafts = "defaults")
  <2>1. At(p, "settings") BY <1>4 DEF FindsUnpublished, Steps
  <2>2. db \in DbRow /\ db.revisions \in Nat BY DEF DatabaseInv, DatabaseTyped, DbRow
  <2>3. db.active = 0 => db.revisions = 0
        BY <2>2 DEF DatabaseInv, RoutesFit
  <2>4. db.drafts \in {Unset, "defaults", "edited"} BY <2>2 DEF DbRow
  <2>5. db.active = 0 => db.drafts = "edited" BY <1>2, <1>4, <2>3, <2>4
  <2>6. db.active = 0 => before.drafts = "edited"
        BY <2>5 DEF DatabaseInv, RoutesFit
  <2> QED BY <1>1, <1>2, <2>1, <2>6, ReadStep, BehindAre, StepsAre
<1> QED BY <1>3, <1>4

LEMMA PublishesDefaultsStep ==
    ASSUME DatabaseInv, NEW p \in Process, PublishesDefaults(p)
    PROVE  DatabaseInv' /\ Grows
<1>1. opening[p].at = "revision" BY DEF PublishesDefaults, Steps
<1>2. opening[p].seen = Migrations /\ db.drafts # Unset
      BY <1>1, BehindAre DEF DatabaseInv, Reads
<1>3. CASE db.revisions # 0
  <2>1. At(p, "closed") /\ UNCHANGED <<db, before>>
        BY <1>3 DEF PublishesDefaults, Steps
  <2> QED BY <2>1, ReadStep, BehindAre, StepsAre
<1>4. CASE db.revisions = 0
  <2>1. /\ At(p, "settings") /\ before' = before
        /\ db' = [db EXCEPT !.revisions = 1, !.active = 1]
        BY <1>4 DEF PublishesDefaults, Steps, Writes
  <2>2. db \in DbRow /\ 1 \in Nat /\ 1 \in Int BY DEF DatabaseInv, DatabaseTyped
  <2> DEFINE step == [db EXCEPT !.revisions = 1]
  <2>10. /\ step \in DbRow /\ step.drafts = db.drafts /\ step.applied = db.applied
         /\ step.jobs = db.jobs /\ step.kinds = db.kinds /\ step.cursors = db.cursors
         /\ step.owner = db.owner /\ step.language = db.language
         /\ step.network = db.network /\ step.interface = db.interface
         /\ step.revisions = 1 /\ step.methods = db.methods
         BY <2>2 DEF DbRow
  <2>11. db' = [step EXCEPT !.active = 1] BY <2>1
  <2> HIDE DEF step
  <2>3. /\ db' \in DbRow /\ db'.drafts = db.drafts /\ db'.applied = db.applied
        /\ db'.jobs = db.jobs /\ db'.kinds = db.kinds /\ db'.cursors = db.cursors
        /\ db'.owner = db.owner /\ db'.language = db.language
        /\ db'.network = db.network /\ db'.interface = db.interface
        /\ db'.revisions = 1 /\ db'.active = 1 /\ db'.methods = db.methods
        BY <2>2, <2>10, <2>11 DEF DbRow
  <2>4. MigrationsFit' /\ KeptAsWas' BY <2>1, <2>3, WritesFit
  <2>5. RoutesFit'
    <3>1. db'.revisions = 1 /\ db'.active = 1 BY <2>3
    <3>2. 1 # 0 /\ 1 \in 1..1 /\ ~ (1 <= 0) OBVIOUS
    <3>3. /\ db'.revisions # 0 /\ db'.active \in 1..db'.revisions
          /\ ~ (db'.active <= 0)
          BY <3>1, <3>2
    <3> QED BY <3>3 DEF RoutesFit
  <2>6. db.active \in {-1, 0} BY <1>4 DEF DatabaseInv, RoutesFit
  <2>7. Grows BY <1>4, <2>3, <2>6 DEF Grows
  <2>8. db'.active >= 0 /\ db'.active # 0 BY <2>3
  <2>9. DatabaseInv'
        BY <1>2, <2>1, <2>3, <2>4, <2>5, <2>7, <2>8, StatementStep, BehindAre, StepsAre
  <2> QED BY <2>7, <2>9
<1> QED BY <1>3, <1>4

LEMMA DefaultSettingsStep ==
    ASSUME DatabaseInv, NEW p \in Process, DefaultSettings(p)
    PROVE  DatabaseInv' /\ Grows
<1>1. opening[p].at = "settings" /\ At(p, "methods") /\ before' = before
      BY DEF DefaultSettings, Steps, Writes
<1>2. /\ opening[p].seen = Migrations /\ db.drafts # Unset /\ db.active >= 0
      /\ db.active = 0 => before.drafts = "edited"
      BY <1>1, BehindAre DEF DatabaseInv, Reads
<1>3. db \in DbRow /\ db.active \in Int /\ db.revisions \in Nat
      BY DEF DatabaseInv, DatabaseTyped, DbRow
<1> DEFINE setting == IF db.interface = Unset THEN "compact" ELSE db.interface
<1>4. db' = [db EXCEPT !.interface = setting] BY DEF DefaultSettings, Writes
<1>5. setting \in Settings \cup {"wide"} BY <1>3 DEF DbRow, Settings
<1>6. /\ setting # Unset /\ (db.interface = "wide" => setting = "wide")
      BY DEF Unset
<1> HIDE DEF setting
<1>7. /\ db' \in DbRow /\ db'.drafts = db.drafts /\ db'.applied = db.applied
      /\ db'.jobs = db.jobs /\ db'.kinds = db.kinds /\ db'.cursors = db.cursors
      /\ db'.owner = db.owner /\ db'.language = db.language
      /\ db'.network = db.network /\ db'.interface = setting
      /\ db'.revisions = db.revisions /\ db'.active = db.active
      /\ db'.methods = db.methods
      BY <1>3, <1>4, <1>5 DEF DbRow
<1>8. 2 \in db.applied BY <1>2 DEF DatabaseInv, Reads, Migrations
<1>9. MigrationsFit' /\ KeptAsWas' BY <1>1, <1>7, <1>8, WritesFit
<1>10. RoutesFit' BY <1>1, <1>7 DEF DatabaseInv, RoutesFit
<1>11. Grows BY <1>3, <1>6, <1>7 DEF Grows
<1>12. DatabaseInv'
       BY <1>1, <1>2, <1>6, <1>7, <1>9, <1>10, <1>11, StatementStep, BehindAre, StepsAre
<1> QED BY <1>11, <1>12

LEMMA FindsMethodsStep ==
    ASSUME DatabaseInv, NEW p \in Process, FindsMethods(p) PROVE DatabaseInv' /\ Grows
<1>1. opening[p].at = "methods" /\ UNCHANGED <<db, before>> BY DEF FindsMethods, Steps
<1>2. /\ opening[p].seen = Migrations /\ db.drafts # Unset /\ db.active >= 0
      /\ db.active = 0 => before.drafts = "edited"
      /\ db.interface # Unset
      /\ opening[p].late => db.methods # Unset
      BY <1>1, BehindAre DEF DatabaseInv, Reads
<1>3. CASE db.methods = Unset
      BY <1>1, <1>2, <1>3, ReadStep, BehindAre, StepsAre DEF FindsMethods, Steps
<1>4. CASE db.methods # Unset
      BY <1>1, <1>2, <1>4, ReadStep, BehindAre, StepsAre DEF FindsMethods, Steps
<1> QED BY <1>3, <1>4

LEMMA FirstMethodsStep ==
    ASSUME DatabaseInv, NEW p \in Process, FirstMethods(p)
    PROVE  DatabaseInv' /\ Grows /\ opening[p].at = "first" /\ ~opening[p].late
<1>1. opening[p].at = "first" /\ At(p, "open") /\ before' = before
      BY DEF FirstMethods, Steps, Writes
<1>2. /\ opening[p].seen = Migrations /\ db.drafts # Unset /\ db.active >= 0
      /\ db.active = 0 => before.drafts = "edited"
      /\ db.interface # Unset /\ ~opening[p].late
      BY <1>1, BehindAre DEF DatabaseInv, Reads
<1>3. db \in DbRow /\ db.active \in Int /\ db.revisions \in Nat
      BY DEF DatabaseInv, DatabaseTyped, DbRow
<1>4. db' = [db EXCEPT !.methods = "defaults"] BY DEF FirstMethods, Writes
<1>5. /\ db' \in DbRow /\ db'.drafts = db.drafts /\ db'.applied = db.applied
      /\ db'.jobs = db.jobs /\ db'.kinds = db.kinds /\ db'.cursors = db.cursors
      /\ db'.owner = db.owner /\ db'.language = db.language
      /\ db'.network = db.network /\ db'.interface = db.interface
      /\ db'.revisions = db.revisions /\ db'.active = db.active
      /\ db'.methods = "defaults"
      BY <1>3, <1>4 DEF DbRow
<1>6. db'.methods # Unset BY <1>5 DEF Unset
<1>7. MigrationsFit' /\ KeptAsWas' BY <1>1, <1>5, WritesFit
<1>8. RoutesFit' BY <1>1, <1>5 DEF DatabaseInv, RoutesFit
<1>9. Grows BY <1>3, <1>5, <1>6 DEF Grows
<1>10. DatabaseInv'
       BY <1>1, <1>2, <1>5, <1>6, <1>7, <1>8, <1>9, StatementStep, BehindAre, StepsAre
<1> QED BY <1>1, <1>2, <1>9, <1>10

LEMMA EndingStep ==
    ASSUME DatabaseInv, NEW p \in Process, Ending(p) PROVE DatabaseInv' /\ Grows
<1>1. At(p, "closed") /\ UNCHANGED <<db, before>> BY DEF Ending
<1> QED BY <1>1, ReadStep, BehindAre, StepsAre

(* The owner's requests while the control plane serves.                    *)
LEMMA OwnerStep == ASSUME DatabaseInv, Owner PROVE DatabaseInv' /\ Grows
<1>1. /\ opening["panel"].at = "open" /\ UNCHANGED <<opening, before>>
      /\ "panel" \in Process
      BY DEF Owner, Process
<1>2. /\ opening["panel"].seen = Migrations /\ db.drafts # Unset /\ db.active >= 0
      /\ db.active = 0 => before.drafts = "edited"
      /\ db.interface # Unset /\ db.methods # Unset
      /\ Migrations \subseteq db.applied
      BY <1>1, BehindAre DEF DatabaseInv, Reads
<1>3. db \in DbRow /\ db.active \in Int /\ db.revisions \in Nat
      BY DEF DatabaseInv, DatabaseTyped, DbRow
<1>4. PICK drafts \in {"defaults", "edited"}, network \in {Unset, "default", "edited"},
           interface \in Settings \cup {"wide"}, methods \in {"defaults", "edited"},
           revisions \in Nat, active \in Int :
        /\ db' = [db EXCEPT !.drafts = drafts, !.network = network,
                            !.interface = interface, !.methods = methods,
                            !.revisions = revisions, !.active = active]
        /\ drafts = db.drafts \/ drafts = "edited"
        /\ network = db.network \/ network = "edited"
        /\ interface = db.interface \/ interface = "wide"
        /\ methods = db.methods \/ methods = "edited"
        /\ \/ revisions = db.revisions /\ active = db.active
           \/ revisions = db.revisions + 1 /\ active = db.revisions + 1
  <2>1. /\ db.drafts \in {"defaults", "edited"}
        /\ db.network \in {Unset, "default", "edited"}
        /\ db.interface \in Settings \cup {"wide"} /\ db.methods \in {"defaults", "edited"}
        BY <1>2, <1>3 DEF DbRow
  <2> DEFINE to(drafts, network, interface, methods, revisions, active) ==
                 [db EXCEPT !.drafts = drafts, !.network = network,
                            !.interface = interface, !.methods = methods,
                            !.revisions = revisions, !.active = active]
  <2>2. CASE db' = [db EXCEPT !.drafts = "edited"]
    <3>1. db' = to("edited", db.network, db.interface, db.methods, db.revisions, db.active)
          BY <1>3, <2>2 DEF DbRow
    <3> QED BY <1>3, <2>1, <3>1
  <2>3. CASE db' = [db EXCEPT !.network = "edited"]
    <3>1. db' = to(db.drafts, "edited", db.interface, db.methods, db.revisions, db.active)
          BY <1>3, <2>3 DEF DbRow
    <3> QED BY <1>3, <2>1, <3>1
  <2>4. CASE db' = [db EXCEPT !.methods = "edited"]
    <3>1. db' = to(db.drafts, db.network, db.interface, "edited", db.revisions, db.active)
          BY <1>3, <2>4 DEF DbRow
    <3> QED BY <1>3, <2>1, <3>1
  <2>5. CASE db' = [db EXCEPT !.interface = "wide"]
    <3>1. db' = to(db.drafts, db.network, "wide", db.methods, db.revisions, db.active)
          BY <1>3, <2>5 DEF DbRow
    <3> QED BY <1>3, <2>1, <3>1
  <2>6. CASE db' = [db EXCEPT !.revisions = db.revisions + 1, !.active = db.revisions + 1]
    <3>1. db' = to(db.drafts, db.network, db.interface, db.methods,
                   db.revisions + 1, db.revisions + 1)
          BY <1>3, <2>6 DEF DbRow
    <3>2. db.revisions + 1 \in Nat /\ db.revisions + 1 \in Int BY <1>3
    <3> QED BY <2>1, <3>1, <3>2
  <2> QED BY <2>2, <2>3, <2>4, <2>5, <2>6 DEF Owner
<1>5. /\ db' \in DbRow /\ db'.drafts = drafts /\ db'.applied = db.applied
      /\ db'.jobs = db.jobs /\ db'.kinds = db.kinds /\ db'.cursors = db.cursors
      /\ db'.owner = db.owner /\ db'.language = db.language
      /\ db'.network = network /\ db'.interface = interface
      /\ db'.revisions = revisions /\ db'.active = active /\ db'.methods = methods
      BY <1>3, <1>4 DEF DbRow
<1>6. 2 \in db.applied BY <1>2 DEF Migrations
<1>7. MigrationsFit' /\ KeptAsWas' BY <1>1, <1>4, <1>5, <1>6, WritesFit
<1>8. /\ revisions >= db.revisions /\ active >= db.active
      /\ active >= 0 /\ (active = 0 => db.active = 0)
      /\ revisions = 0 => active = 0
      /\ revisions > 0 => active \in 1..revisions
  <2>1. CASE revisions = db.revisions /\ active = db.active
        BY <1>2, <1>3, <2>1 DEF DatabaseInv, RoutesFit
  <2>2. CASE revisions = db.revisions + 1 /\ active = db.revisions + 1
    <3>1. db.active <= db.revisions
          BY <1>2, <1>3 DEF DatabaseInv, RoutesFit
    <3> QED BY <1>2, <1>3, <2>2, <3>1
  <2> QED BY <1>4, <2>1, <2>2
<1>9. RoutesFit'
  <2>1. active <= 0 => active = 0 BY <1>4, <1>8
  <2> QED BY <1>1, <1>2, <1>5, <1>8, <2>1 DEF RoutesFit
<1>10. Grows BY <1>2, <1>4, <1>5, <1>8 DEF Grows, Unset
<1>11. \A p \in Process : Reads(p)' BY <1>1, <1>5, <1>10, ReadsKept
<1>12. DatabaseTyped' BY <1>1, <1>5 DEF DatabaseInv, DatabaseTyped
<1> QED BY <1>7, <1>9, <1>10, <1>11, <1>12 DEF DatabaseInv

(* One step: the invariant, what grows, and who may write the first list   *)
(* of methods.                                                             *)
LEMMA DatabaseStep ==
    ASSUME DatabaseInv, DatabaseNext
    PROVE  /\ DatabaseInv' /\ Grows
           /\ db.methods = "edited" /\ db'.methods # "edited" =>
                 \E p \in Process : opening[p].at = "first" /\ ~opening[p].late
<1>1. CASE Owner
  <2>1. db'.methods = db.methods \/ db'.methods = "edited"
        BY <1>1 DEF Owner, DatabaseInv, DatabaseTyped, DbRow
  <2> QED BY <1>1, <2>1, OwnerStep
<1>2. ASSUME NEW p \in Process, FirstMethods(p)
      PROVE  /\ DatabaseInv' /\ Grows
             /\ \E q \in Process : opening[q].at = "first" /\ ~opening[q].late
      BY <1>2, FirstMethodsStep
<1>3. ASSUME NEW p \in Process,
             \/ Opens(p) \/ Migrates(p) \/ Counts(p) \/ Inserts(p) \/ DefaultVersion(p)
             \/ FindsUnpublished(p) \/ PublishesDefaults(p) \/ DefaultSettings(p)
             \/ FindsMethods(p) \/ Ending(p)
      PROVE  DatabaseInv' /\ Grows /\ db'.methods = db.methods
  <2>1. db \in DbRow BY DEF DatabaseInv, DatabaseTyped
  <2>2. CASE Opens(p) BY <2>2, OpensStep DEF Opens
  <2>3. CASE Migrates(p)
    <3>1. db' = db \/ \E m \in 1..6 : m \notin db.applied /\ db' = Applied(db, m)
                         /\ (m = 3 => FirstKinds \subseteq db.kinds)
      <4>1. PICK m \in 1..6 :
              /\ NextMigration(p) = m /\ opening[p].seen = 1..(m - 1)
              /\ m \notin db.applied => db.applied = opening[p].seen
            BY <2>3, NextIs DEF Migrates
      <4>2. CASE m \in db.applied BY <2>3, <4>1, <4>2 DEF Migrates
      <4>3. CASE m \notin db.applied
        <5>1. m = 3 => FirstKinds \subseteq db.kinds
              BY <4>1, <4>3 DEF DatabaseInv, MigrationsFit
        <5>2. db' = Applied(db, m) BY <2>3, <4>1, <4>3 DEF Migrates, Writes
        <5> QED BY <4>3, <5>1, <5>2
      <4> QED BY <4>2, <4>3
    <3>2. db'.methods = db.methods BY <2>1, <3>1, AppliedFacts
    <3> QED BY <2>3, <3>2, MigratesStep
  <2>4. CASE Counts(p) BY <2>4, CountsStep DEF Counts
  <2>5. CASE Inserts(p)
    <3>1. db'.methods = db.methods BY <2>1, <2>5 DEF Inserts, Writes, DbRow
    <3> QED BY <2>5, <3>1, InsertsStep
  <2>6. CASE DefaultVersion(p)
    <3>1. db'.methods = db.methods BY <2>1, <2>6 DEF DefaultVersion, Writes, DbRow
    <3> QED BY <2>6, <3>1, DefaultVersionStep
  <2>7. CASE FindsUnpublished(p) BY <2>7, FindsUnpublishedStep DEF FindsUnpublished
  <2>8. CASE PublishesDefaults(p)
    <3>1. db'.methods = db.methods BY <2>1, <2>8 DEF PublishesDefaults, Writes, DbRow
    <3> QED BY <2>8, <3>1, PublishesDefaultsStep
  <2>9. CASE DefaultSettings(p)
    <3>1. db'.methods = db.methods BY <2>1, <2>9 DEF DefaultSettings, Writes, DbRow
    <3> QED BY <2>9, <3>1, DefaultSettingsStep
  <2>10. CASE FindsMethods(p) BY <2>10, FindsMethodsStep DEF FindsMethods
  <2>11. CASE Ending(p) BY <2>11, EndingStep DEF Ending
  <2> QED BY <1>3, <2>2, <2>3, <2>4, <2>5, <2>6, <2>7, <2>8, <2>9, <2>10, <2>11
<1> QED BY <1>1, <1>2, <1>3 DEF DatabaseNext

LEMMA DatabaseInvKept ==
    DatabaseInv /\ [DatabaseNext]_databaseVars => DatabaseInv'
<1>1. ASSUME DatabaseInv, UNCHANGED databaseVars PROVE DatabaseInv'
      BY <1>1 DEF databaseVars, DatabaseInv, DatabaseTyped, MigrationsFit, KeptAsWas,
                  RoutesFit, Reads
<1> QED BY <1>1, DatabaseStep

LEMMA InvComplete == DatabaseInv => Complete
<1> SUFFICES ASSUME DatabaseInv PROVE Complete
    OBVIOUS
<1>1. \E last \in 0..6 : db.applied = 1..last
      BY DEF DatabaseInv, MigrationsFit, Prefix
<1>2. ASSUME NEW p \in Process, opening[p].at = "open"
      PROVE  /\ db.applied = Migrations
             /\ Unset \notin {db.network, db.interface, db.drafts, db.methods}
             /\ db.kinds = {"activate", "rotate", "revoke", "suspend", "resume"}
             /\ db.active >= 0 /\ (db.active = 0 => before.drafts = "edited")
  <2>1. /\ opening[p].seen = Migrations /\ db.drafts # Unset /\ db.active >= 0
        /\ db.active = 0 => before.drafts = "edited"
        /\ db.interface # Unset /\ db.methods # Unset
        /\ Migrations \subseteq db.applied
        BY <1>2, BehindAre DEF DatabaseInv, Reads
  <2>2. db.applied = Migrations BY <1>1, <2>1 DEF Migrations
  <2>3. db.network # Unset /\ db.kinds = AllKinds
        BY <2>2 DEF Migrations, DatabaseInv, MigrationsFit
  <2>4. AllKinds = {"activate", "rotate", "revoke", "suspend", "resume"}
        BY DEF AllKinds, FirstKinds
  <2> QED BY <2>1, <2>2, <2>3, <2>4
<1>3. /\ db.jobs = before.jobs /\ db.cursors = before.cursors
      /\ before.owner /\ 2 \in db.applied =>
            db.language = (IF "zh-CN" \in {before.language, before.interface}
                           THEN "zh-CN" ELSE "ru")
      /\ db.revisions = 0 => db.active \in {-1, 0}
      /\ db.revisions > 0 => db.active \in 1..db.revisions
      BY DEF DatabaseInv, KeptAsWas, MigrationsFit, RoutesFit
<1> QED BY <1>1, <1>2, <1>3 DEF Complete

LEMMA DatabaseStarts == DatabaseInit => DatabaseInv
<1> SUFFICES ASSUME DatabaseInit PROVE DatabaseInv
    OBVIOUS
<1>1. before = db /\ opening = [p \in Process |-> [at |-> "closed", seen |-> {}, late |-> FALSE]]
      BY DEF DatabaseInit
<1>2. /\ db \in DbRow /\ db.interface \in Settings /\ MigrationsFit /\ RoutesFit
  <2>1. CASE db = Fresh
    <3>1. Fresh \in DbRow
          BY DEF Fresh, DbRow, Unset, Language, Settings, FirstKinds, AllKinds
    <3>2. {} = 1..0 /\ 0 \in 0..6 OBVIOUS
    <3>3. {} \in Prefix BY <3>2 DEF Prefix
    <3> QED BY <1>1, <2>1, <3>1, <3>3 DEF Fresh, MigrationsFit, RoutesFit, Settings, Unset
  <2>2. CASE db \in Older
    <3>1. PICK last \in 1..5, interface \in {"compact", "zh-CN", "other"},
               drafts \in {"defaults", "edited"}, published \in 0..1 :
            db = [Fresh EXCEPT !.applied = 1..last, !.owner = TRUE, !.jobs = Job,
                   !.kinds = {"activate", "rotate", "revoke"}
                       \cup (IF last < 3 THEN {} ELSE {"suspend", "resume"}),
                   !.language = IF last = 1 THEN Unset ELSE "zh-CN",
                   !.interface = IF last = 1 THEN interface ELSE "compact",
                   !.network = IF last < 4 THEN Unset ELSE "edited",
                   !.cursors = {"xray"}, !.drafts = drafts,
                   !.revisions = published, !.active = published]
          BY <2>2 DEF Older
    <3> DEFINE kinds == IF last < 3 THEN FirstKinds ELSE AllKinds
               language == IF last = 1 THEN Unset ELSE "zh-CN"
               spoken == IF last = 1 THEN interface ELSE "compact"
               network == IF last < 4 THEN Unset ELSE "edited"
    <3>2. {"activate", "rotate", "revoke"}
             \cup (IF last < 3 THEN {} ELSE {"suspend", "resume"}) = kinds
          BY DEF FirstKinds, AllKinds
    <3>3. db = [applied |-> 1..last, owner |-> TRUE, language |-> language, jobs |-> Job,
                kinds |-> kinds, network |-> network, cursors |-> {"xray"},
                interface |-> spoken, drafts |-> drafts, revisions |-> published,
                active |-> published, methods |-> Unset]
          BY <3>1, <3>2 DEF Fresh
    <3>4. /\ 1..last \in SUBSET Nat /\ language \in Language
          /\ kinds \in {{}, FirstKinds, AllKinds} /\ spoken \in Settings
          /\ network \in {Unset, "default", "edited"}
          /\ published \in Nat /\ published \in Int /\ Job \in SUBSET Job
          BY DEF Language, Settings
    <3>5. /\ 2 \notin 1..last => language = Unset
          /\ 2 \in 1..last => language = "zh-CN"
          /\ 1 \in 1..last => FirstKinds \subseteq kinds
          /\ 3 \in 1..last => kinds = AllKinds
          /\ 4 \in 1..last => network = "edited"
          BY DEF AllKinds
    <3> HIDE DEF kinds, language, spoken, network
    <3>6. db \in DbRow BY <3>3, <3>4 DEF DbRow
    <3>7. 1..last \in Prefix BY DEF Prefix
    <3>8. MigrationsFit BY <1>1, <3>3, <3>5, <3>7 DEF MigrationsFit, Unset
    <3>9. RoutesFit BY <1>1, <3>3 DEF RoutesFit
    <3> QED BY <3>3, <3>4, <3>6, <3>8, <3>9
  <2> QED BY <2>1, <2>2 DEF DatabaseInit
<1>3. opening \in [Process -> OpeningRow]
      BY <1>1 DEF OpeningRow, OpeningSteps
<1>4. ASSUME NEW p \in Process PROVE Reads(p)
  <2>1. opening[p] = [at |-> "closed", seen |-> {}, late |-> FALSE] BY <1>1
  <2>2. {} = 1..0 /\ 0 \in 0..6 OBVIOUS
  <2>3. {} \in Prefix BY <2>2 DEF Prefix
  <2> QED BY <2>1, <2>3, BehindAre DEF Reads
<1> QED BY <1>1, <1>2, <1>3, <1>4 DEF DatabaseInv, DatabaseTyped, KeptAsWas

(* Two processes may open the database beside each other and be killed     *)
(* between any two statements: the database stays complete for whoever     *)
(* has opened it, and nothing the owner has edited is undone, but for the  *)
(* very first list of methods; for any jobs, revisions and kills.          *)
THEOREM OpenedComplete ==
    DatabaseInit /\ [][DatabaseNext]_databaseVars => OpenedIsComplete
<1>1. DatabaseInit /\ [][DatabaseNext]_databaseVars => []DatabaseInv
      BY DatabaseStarts, DatabaseInvKept, PTL
<1>2. DatabaseInv /\ [DatabaseNext]_databaseVars =>
        [/\ Complete'
         /\ db.drafts = "edited"  => db'.drafts = "edited"
         /\ db.network = "edited" => db'.network = "edited"
         /\ db.interface = "wide" => db'.interface = "wide"
         /\ db'.revisions >= db.revisions /\ db'.active >= db.active
         /\ db.methods = "edited" /\ db'.methods # "edited" =>
              \E p \in Process : opening[p].at = "first" /\ ~ opening[p].late]_databaseVars
  <2> SUFFICES ASSUME DatabaseInv, DatabaseNext
               PROVE  /\ Complete' /\ Grows
                      /\ db.methods = "edited" /\ db'.methods # "edited" =>
                            \E p \in Process : opening[p].at = "first" /\ ~ opening[p].late
      BY DEF Grows
  <2>1. DatabaseInv' => Complete' BY InvComplete, PTL
  <2> QED BY <2>1, DatabaseStep
<1> QED BY <1>1, <1>2, PTL DEF OpenedIsComplete
=============================================================================
