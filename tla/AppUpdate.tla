------------------------------- MODULE AppUpdate -------------------------------
(***************************************************************************)
(* Updating the control plane itself.  OperationService records the        *)
(* operation and asks the root agent; the agent starts apply-update as a   *)
(* transient unit and waits for it; apply-update stops the control plane   *)
(* that is waiting, installs, migrates, starts the new release, waits for  *)
(* readiness, and rolls back on an error.  What became of the operation is *)
(* found in SQLite by the control plane that starts afterwards.            *)
(*                                                                         *)
(* A step of a script is one command or a group of commands whose failures *)
(* leave the same state.  A command that fails does so before its effect,  *)
(* unless the action says otherwise.  A release is its version, the        *)
(* database is what an update can change in it: the migrations applied and *)
(* the rows of the updates with their journal events.  Units and the       *)
(* environment file are installed together and are one variable.           *)
(***************************************************************************)
EXTENDS Naturals

CONSTANTS Update,      \* operations of kind update.apply
          NoUpdate,
          MaxVersion,  \* bound: releases after the installed one
          MaxFaults    \* bound: failed commands, crashes and reboots together

ASSUME UpdateAssumption ==
    /\ NoUpdate \notin Update
    /\ MaxVersion \in Nat
    /\ MaxFaults \in Nat

VARIABLES
    dirs,       \* /opt/outpost/releases
    link,       \* /opt/outpost/current
    env,        \* OUTPOST_VERSION in outpost.env, and the units of that release
    db,         \* outpost.sqlite as a client that opens it reads it
    wal,        \* a write-ahead log with commits lies beside the file
    plane,      \* outpost.service
    run,        \* apply-update, per operation
    latest,     \* history: the update asked for last
    disturbed,  \* history: updates that overlapped another or met a reboot
    faults

vars == <<dirs, link, env, db, wal, plane, run, latest, disturbed, faults>>

Version == 0..MaxVersion
Final   == {"completed", "failed"}
Status  == {"none", "queued", "running"} \cup Final
Event   == {"updated", "update_failed"}

Database == [schema : Version, op : [Update -> Status],
             log : [Update -> SUBSET Event]]

(* The commands of apply-update in their order, and those of rollback().   *)
Script ==
    [verify |-> "stage", stage |-> "stop", stop |-> "snapshot",
     snapshot |-> "migrate", migrate |-> "link", link |-> "units",
     units |-> "mark75", mark75 |-> "agent", agent |-> "start",
     start |-> "mark90", mark90 |-> "ready", ready |-> "complete",
     complete |-> "done",
     rb_link |-> "rb_db", rb_db |-> "rb_units", rb_units |-> "rb_mark",
     rb_mark |-> "rb_start", rb_start |-> "rolledback"]

(* Mutations of Then: the snapshot is taken before the control plane is    *)
(* stopped; the operation is completed before the release is ready.        *)
ThenSnapshotFirst == [Script EXCEPT !.stage = "snapshot", !.snapshot = "stop",
                                    !.stop = "migrate"]
ThenCompleteFirst == [Script EXCEPT !.mark90 = "complete", !.complete = "ready",
                                    !.ready = "done"]
Then == Script

Ended  == {"idle", "refused", "exited", "done", "rolledback", "killed"}
Early  == {"asked", "verify", "stage", "stop"}
Pc     == Ended \cup Early \cup
          {"snapshot", "migrate", "link", "units", "mark75", "agent", "start",
           "mark90", "ready", "complete",
           "rb_link", "rb_db", "rb_units", "rb_mark", "rb_start"}

Run == [pc : Pc, target : Version, previous : Version, env : Version,
        snap : Database, started : BOOLEAN, dirty : BOOLEAN]

Plane == [state : {"up", "down", "stopped", "orphan"}, version : Version,
          waiting : SUBSET Update]

TypeOK ==
    /\ dirs \in SUBSET Version /\ link \in Version /\ env \in Version
    /\ db \in Database /\ wal \in BOOLEAN
    /\ plane \in Plane
    /\ run \in [Update -> Run]
    /\ latest \in Update \cup {NoUpdate} /\ disturbed \in SUBSET Update
    /\ faults \in 0..MaxFaults

-----------------------------------------------------------------------------
AtWork == {u \in Update : run[u].pc \notin Ended}

(* An orphan is a process whose database file has been replaced: it serves, *)
(* and what it commits is lost.                                            *)
Up      == plane.state = "up"
Answers == plane.state \in {"up", "orphan"}

Goes(u, pc) == run' = [run EXCEPT ![u].pc = pc]

(* mark_operation() and mark_progress(): an UPDATE by operation id.        *)
Marked(u, status) == [db EXCEPT !.op[u] = IF @ = "none" THEN @ ELSE status]

Faulty == faults < MaxFaults /\ faults' = faults + 1

(* Migrating up to version v: migrations that were applied are skipped.    *)
Migrated(d, v) == [d EXCEPT !.schema = IF d.schema < v THEN v ELSE @]

-----------------------------------------------------------------------------
(* The control plane.                                                      *)

EventOf(status) == IF status = "completed" THEN "updated" ELSE "update_failed"

(* reconcileUpdates(): stale are the updates whose row has not been        *)
(* touched for half an hour.                                               *)
Reconciled(d, stale) ==
    LET op == [u \in Update |-> IF u \in stale THEN "failed" ELSE d.op[u]]
    IN [d EXCEPT !.op = op,
                 !.log = [u \in Update |-> IF op[u] \in Final
                                             THEN d.log[u] \cup {EventOf(op[u])}
                                             ELSE d.log[u]]]

Pending(d) == {u \in Update : d.op[u] \in {"queued", "running"}}

(* The process of the linked release: the database is opened and migrated, *)
(* the constructor of OperationService reconciles.                         *)
PlaneStarts ==
    /\ \E stale \in {{}, Pending(db)} :
          db' = Reconciled(Migrated(db, link), stale)
    /\ wal' = TRUE
    /\ plane' = [state |-> "up", version |-> env, waiting |-> {}]

(* confirm() and the first segment of execute(), or a crash between them.  *)
(* Only a version above the one the process was started with is accepted.  *)
Confirm(u, v) ==
    /\ Up /\ v > plane.version
    /\ run[u].pc = "idle"
    /\ latest' = u
    /\ disturbed' = disturbed \cup (IF AtWork = {} THEN {} ELSE AtWork \cup {u})
    /\ \/ /\ db' = [db EXCEPT !.op[u] = "running"]
          /\ plane' = [plane EXCEPT !.waiting = @ \cup {u}]
          /\ run' = [run EXCEPT ![u].pc = "asked", ![u].target = v]
          /\ UNCHANGED faults
       \/ /\ Faulty
          /\ db' = [db EXCEPT !.op[u] = "queued"]
          /\ plane' = [plane EXCEPT !.state = "down", !.waiting = {}]
          /\ Goes(u, "refused")
    /\ UNCHANGED <<dirs, link, env, wal>>

(* The wait is over: the agent refused, the script ended, or 180 seconds   *)
(* have passed whatever the script is doing.  The success of execute() is  *)
(* not reached by an update: its script has stopped the process by then.   *)
ExecuteFails(u) ==
    /\ Up /\ u \in plane.waiting
    /\ db' = [db EXCEPT !.op[u] = "failed", !.log[u] = @ \cup {"update_failed"}]
    /\ plane' = [plane EXCEPT !.waiting = @ \ {u}]
    /\ UNCHANGED <<dirs, link, env, wal, run, latest, disturbed, faults>>

(* list(): the panel or an API client reads the operations.                *)
List ==
    /\ Up
    /\ \E stale \in {{}, Pending(db)} : db' = Reconciled(db, stale)
    /\ db' # db
    /\ UNCHANGED <<dirs, link, env, wal, plane, run, latest, disturbed, faults>>

PlaneCrashes ==
    /\ Answers
    /\ Faulty
    /\ plane' = [plane EXCEPT !.state = "down", !.waiting = {}]
    /\ UNCHANGED <<dirs, link, env, db, wal, run, latest, disturbed>>

(* Restart=always, unless the unit was stopped by systemctl.               *)
PlaneRestarts ==
    /\ plane.state = "down"
    /\ PlaneStarts
    /\ UNCHANGED <<dirs, link, env, run, latest, disturbed, faults>>

Reboot ==
    /\ Faulty
    /\ plane' = [plane EXCEPT !.state = "down", !.waiting = {}]
    /\ run' = [u \in Update |->
                 IF u \in AtWork THEN [run[u] EXCEPT !.pc = "killed"]
                                 ELSE run[u]]
    /\ disturbed' = disturbed \cup AtWork
    /\ UNCHANGED <<dirs, link, env, db, wal, latest>>

AgentStarts(u) ==
    /\ run[u].pc = "asked"
    /\ \/ Goes(u, "verify") /\ UNCHANGED faults
       \/ Faulty /\ Goes(u, "refused")
    /\ UNCHANGED <<dirs, link, env, db, wal, plane, latest, disturbed>>

-----------------------------------------------------------------------------
(* apply-update.  A command that fails before the trap is armed, or inside *)
(* a function, which the ERR trap does not reach, ends the script.         *)

At(u, pc) == run[u].pc = pc /\ UNCHANGED <<latest, disturbed>>

Proceeds(u) == Goes(u, Then[run[u].pc]) /\ UNCHANGED faults
Exits(u)    == Goes(u, "exited") /\ Faulty
RollsBack(u) == Goes(u, "rb_link") /\ Faulty

(* The archive, its signature and its contents are checked.                *)
Verify(u) ==
    /\ At(u, "verify")
    /\ \/ /\ run' = [run EXCEPT ![u].pc = Then["verify"], ![u].previous = link,
                                ![u].env = env]
          /\ db' = Marked(u, "running")
          /\ UNCHANGED faults
       \/ Exits(u) /\ db' \in {db, Marked(u, "running")}
    /\ UNCHANGED <<dirs, link, env, wal, plane>>

(* A release directory that exists already refuses the update.             *)
Stage(u) ==
    /\ At(u, "stage")
    /\ LET next == run[u].target IN
         \/ next \notin dirs /\ dirs' = dirs \cup {next}
              /\ db' = Marked(u, "running") /\ Proceeds(u)
         \/ next \in dirs /\ UNCHANGED <<dirs, faults>>
              /\ db' = Marked(u, "running") /\ Goes(u, "exited")
         \/ Exits(u) /\ db' \in {db, Marked(u, "running")}
              /\ dirs' \in {dirs, dirs \cup {next}}
    /\ UNCHANGED <<link, env, wal, plane>>

(* Mutation of Stop: the control plane is left running.                    *)
StopNothing(u) ==
    /\ At(u, "stop")
    /\ Proceeds(u)
    /\ UNCHANGED <<dirs, link, env, db, wal, plane>>
(* SIGTERM: the control plane closes the database and exits.               *)
Stop(u) ==
    /\ At(u, "stop")
    /\ \/ /\ Proceeds(u)
          /\ plane' = [plane EXCEPT !.state = "stopped", !.waiting = {}]
          /\ wal' = FALSE
       \/ Exits(u) /\ UNCHANGED <<plane, wal>>
    /\ UNCHANGED <<dirs, link, env, db>>

(* wal_checkpoint(TRUNCATE), .backup, and progress 50.                     *)
Snapshot(u) ==
    /\ At(u, "snapshot")
    /\ \/ /\ run' = [run EXCEPT ![u].pc = Then["snapshot"], ![u].snap = db]
          /\ db' = Marked(u, "running")
          /\ UNCHANGED faults
       \/ Exits(u) /\ UNCHANGED db
    /\ UNCHANGED <<dirs, link, env, wal, plane>>

(* outpostctl migrate of the new release; one that fails may have applied  *)
(* some of the migrations and ends without closing the database.           *)
Migrate(u) ==
    /\ At(u, "migrate")
    /\ \/ Proceeds(u) /\ db' = Migrated(db, run[u].target) /\ UNCHANGED wal
       \/ /\ RollsBack(u)
          /\ db' \in {db} \cup {Migrated(db, v) : v \in 1..run[u].target}
          /\ wal' = TRUE
    /\ UNCHANGED <<dirs, link, env, plane>>

Link(u) ==
    /\ At(u, "link")
    /\ \/ Proceeds(u) /\ link' = run[u].target
       \/ RollsBack(u) /\ UNCHANGED link
    /\ UNCHANGED <<dirs, env, db, wal, plane>>

Units(u) ==
    /\ At(u, "units")
    /\ \/ Proceeds(u) /\ env' = run[u].target
       \/ RollsBack(u) /\ env' \in {env, run[u].target}
    /\ UNCHANGED <<dirs, link, db, wal, plane>>

(* mark_progress 75 and 90.                                                *)
MarkProgress(u) ==
    /\ \E pc \in {"mark75", "mark90"} : At(u, pc)
    /\ \/ Proceeds(u) /\ db' = Marked(u, "running")
       \/ Exits(u) /\ UNCHANGED db
    /\ UNCHANGED <<dirs, link, env, wal, plane>>

(* The agent and the engines whose files changed are restarted.            *)
Agent(u) ==
    /\ At(u, "agent")
    /\ Proceeds(u) \/ RollsBack(u)
    /\ UNCHANGED <<dirs, link, env, db, wal, plane>>

Start(u) ==
    /\ At(u, "start")
    /\ \/ /\ run' = [run EXCEPT ![u].pc = Then["start"], ![u].started = TRUE]
          /\ UNCHANGED faults
          /\ IF Answers THEN UNCHANGED <<db, wal, plane>> ELSE PlaneStarts
       \/ RollsBack(u) /\ UNCHANGED <<db, wal, plane>>
    /\ UNCHANGED <<dirs, link, env>>

(* /readyz answers while the process serves; thirty seconds without it are *)
(* an error.                                                               *)
Ready(u) ==
    /\ At(u, "ready")
    /\ \/ Answers /\ Proceeds(u)
       \/ Answers /\ RollsBack(u)
       \/ ~Answers /\ Goes(u, "rb_link") /\ UNCHANGED faults
    /\ UNCHANGED <<dirs, link, env, db, wal, plane>>

(* mark_operation completed; what follows only removes old releases, of    *)
(* which there are never more than three here, and the archive.            *)
Complete(u) ==
    /\ At(u, "complete")
    /\ \/ Proceeds(u) /\ db' = Marked(u, "completed")
       \/ Exits(u) /\ UNCHANGED db
    /\ UNCHANGED <<dirs, link, env, wal, plane>>

-----------------------------------------------------------------------------
(* rollback().  A command that fails in it ends the script.                *)

RbLink(u) ==
    /\ At(u, "rb_link")
    /\ \/ Proceeds(u) /\ link' = run[u].previous
       \/ Exits(u) /\ UNCHANGED link
    /\ UNCHANGED <<dirs, env, db, wal, plane>>

(* The snapshot replaces the file and not the log beside it: the next      *)
(* client to open the database may find the commits of the log in it.  A   *)
(* control plane that runs keeps the file that was removed.                *)
RbDb(u) ==
    /\ At(u, "rb_db")
    /\ \/ /\ db' \in {run[u].snap} \cup (IF wal THEN {db} ELSE {})
          /\ plane' = [plane EXCEPT !.state = IF Up THEN "orphan" ELSE @]
          /\ run' = [run EXCEPT ![u].pc = Then["rb_db"], ![u].dirty = wal]
          /\ UNCHANGED faults
       \/ Exits(u) /\ UNCHANGED <<db, plane>>
    /\ UNCHANGED <<dirs, link, env, wal>>

(* Mutation of RbUnits: the environment file is not put back.              *)
RbUnitsOnly(u) ==
    /\ At(u, "rb_units")
    /\ Proceeds(u)
    /\ UNCHANGED <<dirs, link, env, db, wal, plane>>
RbUnits(u) ==
    /\ At(u, "rb_units")
    /\ \/ Proceeds(u) /\ env' = run[u].env
       \/ Exits(u) /\ env' \in {env, run[u].env}
    /\ UNCHANGED <<dirs, link, db, wal, plane>>

(* mark_operation failed || true.                                          *)
RbMark(u) ==
    /\ At(u, "rb_mark")
    /\ \/ Proceeds(u) /\ db' = Marked(u, "failed")
       \/ Faulty /\ Goes(u, Then["rb_mark"]) /\ UNCHANGED db
    /\ UNCHANGED <<dirs, link, env, wal, plane>>

RbStart(u) ==
    /\ At(u, "rb_start")
    /\ \/ Proceeds(u) /\ PlaneStarts
       \/ Exits(u) /\ UNCHANGED <<db, wal, plane>>
    /\ UNCHANGED <<dirs, link, env>>

Step(u) ==
    \/ Verify(u) \/ Stage(u) \/ Stop(u) \/ Snapshot(u)
    \/ Migrate(u) \/ Link(u) \/ Units(u) \/ MarkProgress(u) \/ Agent(u)
    \/ Start(u) \/ Ready(u) \/ Complete(u)
    \/ RbLink(u) \/ RbDb(u) \/ RbUnits(u) \/ RbMark(u) \/ RbStart(u)

Next ==
    \/ \E u \in Update : \/ \E v \in Version : Confirm(u, v)
                         \/ ExecuteFails(u) \/ AgentStarts(u) \/ Step(u)
    \/ List \/ PlaneCrashes \/ PlaneRestarts \/ Reboot

Init ==
    /\ dirs = {0} /\ link = 0 /\ env = 0
    /\ db = [schema |-> 0, op |-> [u \in Update |-> "none"],
             log |-> [u \in Update |-> {}]]
    /\ wal = TRUE
    /\ plane = [state |-> "up", version |-> 0, waiting |-> {}]
    /\ run = [u \in Update |-> [pc |-> "idle", target |-> 0, previous |-> 0,
                                env |-> 0, snap |-> db, started |-> FALSE,
                                dirty |-> FALSE]]
    /\ latest = NoUpdate /\ disturbed = {} /\ faults = 0

Spec == Init /\ [][Next]_vars

-----------------------------------------------------------------------------
(* Properties.                                                             *)

(* An update reported as completed is installed: link, units and schema    *)
(* are those of its release or a later one, unless two scripts overlapped  *)
(* or the machine went down during this one.                               *)
CompletedMeansInstalled ==
    \A u \in Update \ disturbed : db.op[u] = "completed" =>
        /\ link >= run[u].target
        /\ env >= run[u].target
        /\ db.schema >= run[u].target

(* A rollback that ran to its end put the previous release back and runs   *)
(* it: link, units, process and, if no log lay beside the database, the    *)
(* schema of the snapshot with the migrations of the previous release, an  *)
(* earlier script may have linked it without them; and the update is not   *)
(* reported as completed.                                                  *)
RollbackRestores ==
    \A u \in Update \ disturbed : run[u].pc = "rolledback" /\ latest = u =>
        /\ link = run[u].previous
        /\ env = run[u].env
        /\ plane.version = run[u].env
        /\ ~run[u].dirty =>
             db.schema = Migrated(run[u].snap, run[u].previous).schema
        /\ db.op[u] # "completed"

(* The journal never reports an update as installed that is not completed: *)
(* no late timeout, stale row, other script, rollback or reboot undoes the *)
(* status and leaves the event.                                            *)
JournalIsTrue ==
    \A u \in Update : "updated" \in db.log[u] => db.op[u] = "completed"

(* A rollback before the new release was started loses nothing that was    *)
(* acknowledged: the snapshot holds every final status and event.          *)
HistoryKept ==
    [][\A u \in Update \ disturbed :
         run[u].pc = "rb_db" /\ run'[u].pc # "rb_db" /\ ~run[u].started =>
           \A w \in Update : /\ db.log[w] \subseteq db'.log[w]
                             /\ db.op[w] \in Final => db'.op[w] = db.op[w]]_vars

(* docs/ARCHITECTURE.md: on an error the previous release and the SQLite   *)
(* snapshot are put back.                                                  *)
FailureRestores ==
    \A u \in Update \ disturbed :
        run[u].pc \in {"exited", "rolledback"} /\ latest = u =>
            link = run[u].previous

(* docs/DEPLOYMENT.md: after a failed readiness the link and the SQLite    *)
(* snapshot of before the migrations are restored.                         *)
SnapshotRestored ==
    \A u \in Update \ disturbed :
        run[u].pc = "rolledback" /\ run[u].started /\ latest = u =>
            link = run[u].previous /\ db.schema = run[u].snap.schema
=============================================================================
