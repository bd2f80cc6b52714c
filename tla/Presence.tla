------------------------------- MODULE Presence -------------------------------
(***************************************************************************)
(* What TrafficService concludes from the same cycles of collect(): the    *)
(* presence of every user on every engine, which ConnectionService         *)
(* combines, the facts of a user's activity and the health of an engine's  *)
(* telemetry, both with their events in the journal.                       *)
(*                                                                         *)
(* Requests run while the collectors are awaited.  What follows an await   *)
(* is one step, with a crash where two statements of it belong together.   *)
(***************************************************************************)
EXTENDS Naturals, FiniteSetsExt

CONSTANTS User, Engine,
          SessionEngine,  \* engines whose collector reports who is connected
          Window,         \* two minutes
          Absence,        \* 24 hours
          LastTick,       \* bound
          MaxRestarts     \* bound: crashes of the process

ASSUME PresenceAssumption ==
    /\ SessionEngine \subseteq Engine
    /\ {Window, Absence, LastTick, MaxRestarts} \subseteq Nat

VARIABLES
    time,
    installed,  \* engine_versions with an installed version
    conn,       \* connections: state and the columns of activity
    seen,       \* connection_presence
    health,     \* monitor_states of telemetry:<engine>
    cycle,      \* collect(): the collectors awaited
    journal,    \* the last event about each user and each engine's telemetry
    lost,       \* history: users and engines whose event a crash separated
    rotated,    \* history: users whose credentials were replaced
    restarts

presenceVars == <<time, installed, conn, seen, health, cycle, journal, lost,
                  rotated, restarts>>

Moment == 0..LastTick
Never  == LastTick + 1
NoRow  == [status |-> "none", misses |-> 0, active |-> Never]

PresenceTypeOK ==
    /\ time \in Moment /\ installed \in SUBSET Engine
    /\ conn \in [User -> [state : {"active", "suspended", "rotating"},
                          first : BOOLEAN, last : Moment \cup {Never},
                          absent : BOOLEAN]]
    /\ seen \in [User -> [Engine -> [status : {"none", "unknown", "online", "offline"},
                                     misses : 0..2, active : Moment \cup {Never}]]]
    /\ health \in [Engine -> [status : {"baseline", "available", "unavailable"},
                              failures : 0..2]]
    /\ cycle.busy \in BOOLEAN /\ cycle.asked \in SUBSET Engine
    /\ journal.user \in [User -> {"none", "first_seen", "offline_long", "returned"}]
    /\ journal.engine \in [Engine -> {"none", "unavailable", "restored"}]
    /\ lost \in SUBSET (User \cup Engine) /\ rotated \in SUBSET User
    /\ restarts \in 0..MaxRestarts

-----------------------------------------------------------------------------
ActiveUsers == {u \in User : conn[u].state = "active"}

(* Mutation of StatusOf: an engine that did not answer does not count.     *)
StatusOfKnown(u) ==
    IF \E e \in installed : seen[u][e].status = "online" THEN "online" ELSE "offline"
(* withPresence(): engines that are not installed do not count.            *)
StatusOf(u) ==
    LET status == {seen[u][e].status : e \in installed}
    IN IF conn[u].state = "suspended" THEN "offline"
       ELSE IF "online" \in status THEN "online"
       ELSE IF status \cap {"unknown", "none"} # {} \/ status = {} THEN "unknown"
       ELSE "offline"

(* updatePresence() of one row: a collector that reports connections needs *)
(* two empty answers, one that counts bytes looks for recent ones.         *)
Observed(old, e, active) ==
    IF e \in SessionEngine
      THEN IF active THEN [status |-> "online", misses |-> 0, active |-> time]
           ELSE LET misses == IF old.misses = 0 THEN 1 ELSE 2
                IN [status |-> IF misses = 2 THEN "offline"
                               ELSE IF old.status = "none" THEN "unknown"
                               ELSE old.status,
                    misses |-> misses, active |-> old.active]
      ELSE LET last == IF active THEN time ELSE old.active
           IN [status |-> IF last # Never /\ time - last <= Window
                            THEN "online" ELSE "offline",
               misses |-> 0, active |-> last]

SeenBy(e, users, row) ==
    [u \in User |-> IF u \in users THEN [seen[u] EXCEPT ![e] = row[u]] ELSE seen[u]]

-----------------------------------------------------------------------------
(* collect()                                                               *)

Ask(asked) ==
    /\ ~cycle.busy
    /\ cycle' = [busy |-> TRUE, asked |-> asked]
    /\ UNCHANGED <<time, installed, conn, seen, health, journal, lost,
                   rotated, restarts>>

Dies == /\ restarts < MaxRestarts /\ restarts' = restarts + 1
        /\ cycle' = [busy |-> FALSE, asked |-> {}]

Answered(e) == cycle' = [cycle EXCEPT !.asked = @ \ {e}] /\ UNCHANGED restarts

(* telemetrySuccess(), telemetryFailure(): the event is recorded before the *)
(* state that keeps it from being recorded again.                          *)
Telemetry(e, next, event) ==
    \/ /\ Answered(e)
       /\ health' = [health EXCEPT ![e] = next]
       /\ journal' = [journal EXCEPT !.engine[e] = event]
       /\ UNCHANGED lost
    \/ /\ event # journal.engine[e] /\ Dies
       /\ journal' = [journal EXCEPT !.engine[e] = event]
       /\ lost' = lost \cup {e}
       /\ UNCHANGED health

(* The collector answers: active are the users with connections, or with   *)
(* an increase since a reading that was not a reset.                       *)
Succeeds(e, active) ==
    /\ e \in cycle.asked
    /\ seen' = SeenBy(e, ActiveUsers,
                      [u \in User |-> Observed(seen[u][e], e, u \in active)])
    /\ Telemetry(e, [status |-> "available", failures |-> 0],
                 IF health[e].status = "unavailable" THEN "restored"
                                                     ELSE journal.engine[e])
    /\ UNCHANGED <<time, installed, conn, rotated>>

(* Only "less than two" is told apart.                                     *)
Failures(n) == IF n = 0 THEN 1 ELSE 2

(* markUnknown().                                                          *)
Fails(e) ==
    /\ e \in cycle.asked
    /\ seen' = SeenBy(e, ActiveUsers,
                      [u \in User |-> [seen[u][e] EXCEPT !.status = "unknown"]])
    /\ LET failures == Failures(health[e].failures)
           down     == failures = 2
       IN Telemetry(e, [status |-> IF down THEN "unavailable" ELSE health[e].status,
                        failures |-> failures],
                    IF down /\ health[e].status # "unavailable"
                      THEN "unavailable" ELSE journal.engine[e])
    /\ UNCHANGED <<time, installed, conn, rotated>>

(* Mutation of SeenAgain: the absence stays on record.                     *)
SeenAgainStill(columns, at) == [columns EXCEPT !.first = TRUE, !.last = at]
SeenAgain(columns, at) ==
    [columns EXCEPT !.first = TRUE, !.last = at, !.absent = FALSE]

(* updateActivityFacts() for one user: the columns, then the event.        *)
FactsOf(u) ==
    LET online == {e \in installed : seen[u][e].status = "online"}
        at     == {seen[u][e].active : e \in online} \ {Never}
        gone   == /\ StatusOf(u) = "offline"
                  /\ conn[u].last # Never /\ ~conn[u].absent
                  /\ time - conn[u].last >= Absence
    IN IF online # {}
         THEN [columns |-> SeenAgain(conn[u], IF at = {} THEN time ELSE Max(at)),
               event |-> IF ~conn[u].first THEN "first_seen"
                         ELSE IF conn[u].absent THEN "returned" ELSE "none"]
       ELSE IF gone
         THEN [columns |-> [conn[u] EXCEPT !.absent = TRUE], event |-> "offline_long"]
       ELSE [columns |-> conn[u], event |-> "none"]

(* The end of the cycle.  If the process dies in it, the facts of some     *)
(* users are not looked at and one event may be missing.                   *)
UpdateActivityFacts ==
    /\ cycle.busy /\ cycle.asked = {}
    /\ \E done \in SUBSET ActiveUsers :
         \E silent \in {{}} \cup {{u} : u \in {v \in done : FactsOf(v).event # "none"}} :
           /\ conn' = [u \in User |-> IF u \in done THEN FactsOf(u).columns ELSE conn[u]]
           /\ journal' = [journal EXCEPT !.user =
                [u \in User |-> IF u \in done \ silent /\ FactsOf(u).event # "none"
                                  THEN FactsOf(u).event ELSE @[u]]]
           /\ lost' = lost \cup silent
           /\ IF done = ActiveUsers /\ silent = {}
                THEN cycle' = [busy |-> FALSE, asked |-> {}] /\ UNCHANGED restarts
                ELSE Dies
    /\ UNCHANGED <<time, installed, seen, health, rotated>>

-----------------------------------------------------------------------------
(* What happens beside it.                                                 *)

(* prepareSuspend() deletes the presence of the connection.                *)
SuspendUser(u) ==
    /\ conn[u].state = "active"
    /\ conn' = [conn EXCEPT ![u].state = "suspended"]
    /\ seen' = [seen EXCEPT ![u] = [e \in Engine |-> NoRow]]
    /\ UNCHANGED <<time, installed, health, cycle, journal, lost,
                   rotated, restarts>>

(* completeResume(), prepareRotation() and completeActivation().           *)
ChangeUser(u) ==
    /\ \E step \in {<<"suspended", "active">>, <<"active", "rotating">>,
                    <<"rotating", "active">>} :
         /\ conn[u].state = step[1] /\ conn' = [conn EXCEPT ![u].state = step[2]]
         /\ rotated' = rotated \cup {v \in {u} : step[2] = "rotating"}
    /\ UNCHANGED <<time, installed, seen, health, cycle, journal, lost, restarts>>

Install(e) ==
    /\ e \notin installed /\ installed' = installed \cup {e}
    /\ UNCHANGED <<time, conn, seen, health, cycle, journal, lost,
                   rotated, restarts>>

PresenceTick ==
    /\ time < LastTick /\ time' = time + 1
    /\ UNCHANGED <<installed, conn, seen, health, cycle, journal, lost,
                   rotated, restarts>>

(* A restart; reconcilePins() drops the engines a restored host has not.   *)
PresenceRestart ==
    /\ Dies
    /\ installed' \in SUBSET installed
    /\ UNCHANGED <<time, conn, seen, health, journal, lost, rotated>>

PresenceNext ==
    \/ \E asked \in SUBSET installed : Ask(asked)
    \/ \E e \in Engine : \/ \E active \in SUBSET User : Succeeds(e, active)
                         \/ Fails(e) \/ Install(e)
    \/ \E u \in User : SuspendUser(u) \/ ChangeUser(u)
    \/ UpdateActivityFacts \/ PresenceTick \/ PresenceRestart

PresenceInit ==
    /\ time = 0 /\ installed \in SUBSET Engine
    /\ conn = [u \in User |-> [state |-> "active", first |-> FALSE, last |-> Never,
                               absent |-> FALSE]]
    /\ seen = [u \in User |-> [e \in Engine |-> NoRow]]
    /\ health = [e \in Engine |-> [status |-> "baseline", failures |-> 0]]
    /\ cycle = [busy |-> FALSE, asked |-> {}]
    /\ journal = [user |-> [u \in User |-> "none"],
                  engine |-> [e \in Engine |-> "none"]]
    /\ lost = {} /\ rotated = {} /\ restarts = 0

PresenceSpec == PresenceInit /\ [][PresenceNext]_presenceVars

-----------------------------------------------------------------------------
(* Properties.                                                             *)

(* The columns and rows that deduplicate events agree with the journal:    *)
(* absences, returns and telemetry incidents alternate and are recorded    *)
(* once, whatever overlaps, unless a crash came between event and column.  *)
(* A collector that was asked before a suspension brings no row back.      *)
EventsMatchState ==
    /\ \A u \in User \ lost :
         /\ conn[u].absent <=> journal.user[u] = "offline_long"
         /\ conn[u].first <=> journal.user[u] # "none"
    /\ \A e \in Engine \ lost :
         health[e].status = "unavailable" <=> journal.engine[e] = "unavailable"
    /\ \A u \in User : conn[u].state = "suspended" =>
         \A e \in Engine : seen[u][e] = NoRow

(* A failing API is no absence: an absence is only recorded when the last  *)
(* answer of every installed engine was that the user is offline.  (A user  *)
(* whose credentials are being replaced is passed over by a failure.)      *)
AbsenceIsObserved ==
    [][\A u \in User \ rotated : conn'[u].absent /\ ~conn[u].absent =>
         \A e \in installed : /\ seen[u][e].status = "offline"
                              /\ e \notin lost => health[e].failures = 0]_presenceVars
=============================================================================
