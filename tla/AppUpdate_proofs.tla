--------------------------- MODULE AppUpdate_proofs ---------------------------
(***************************************************************************)
(* Proofs about AppUpdate, for any set of updates, overlapping or not, any *)
(* number of releases and any number of failures.                          *)
(*                                                                         *)
(* JournalIsTrue is not inductive: a rollback brings back a snapshot, so   *)
(* snapshots must be true as well; and a timeout overwrites a status, so   *)
(* nobody may be waiting for an update that can be completed.              *)
(***************************************************************************)
EXTENDS AppUpdate, TLAPS

Honest(d) == \A u \in Update : "updated" \in d.log[u] => d.op[u] = "completed"

(* No database, kept or in use, calls an update completed before its       *)
(* script has come to its end.                                             *)
NoneTooEarly ==
    \A u \in Update : run[u].pc # "done" =>
        /\ db.op[u] # "completed"
        /\ \A w \in Update : run[w].snap.op[u] # "completed"

WaitedForEarly ==
    \A u \in plane.waiting : run[u].pc \in Early \cup {"refused", "exited"}

UpdateInv ==
    /\ TypeOK
    /\ Honest(db)
    /\ \A w \in Update : Honest(run[w].snap)
    /\ NoneTooEarly
    /\ WaitedForEarly

-----------------------------------------------------------------------------
(* Every command has a next one, and only the last ends in "done".         *)
LEMMA ThenFacts ==
    ASSUME NEW pc \in {"verify", "stage", "stop", "snapshot", "migrate", "link",
                       "units", "mark75", "agent", "start", "mark90", "ready",
                       "complete", "rb_link", "rb_db", "rb_units", "rb_mark",
                       "rb_start"}
    PROVE  /\ Then[pc] \in Pc
           /\ Then[pc] = "done" => pc = "complete"
           /\ pc \in {"verify", "stage"} => Then[pc] \in Early
BY DEF Then, Script, Pc, Ended, Early

(* mark_operation() and mark_progress() change at most one status.         *)
LEMMA MarkedFacts ==
    ASSUME db \in Database, NEW u \in Update, NEW status \in Status
    PROVE  /\ Marked(u, status) \in Database
           /\ Marked(u, status).log = db.log
           /\ \A w \in Update : Marked(u, status).op[w] =
                IF w = u /\ db.op[u] # "none" THEN status ELSE db.op[w]
BY DEF Marked, Database

(* A migration changes the schema and no row of an update.                 *)
LEMMA MigratedFacts ==
    ASSUME NEW d \in Database, NEW v \in Version
    PROVE  /\ Migrated(d, v) \in Database
           /\ Migrated(d, v).log = d.log
           /\ Migrated(d, v).op = d.op
BY DEF Migrated, Database

(* reconcileUpdates() decides pending updates and journals decided ones.   *)
LEMMA ReconciledFacts ==
    ASSUME NEW d \in Database, Honest(d), NEW stale \in SUBSET Pending(d)
    PROVE  /\ Reconciled(d, stale) \in Database
           /\ Honest(Reconciled(d, stale))
           /\ \A u \in Update : Reconciled(d, stale).op[u] = "completed" =>
                d.op[u] = "completed"
<1> DEFINE op == [u \in Update |-> IF u \in stale THEN "failed" ELSE d.op[u]]
           log == [u \in Update |-> IF op[u] \in Final
                                      THEN d.log[u] \cup {EventOf(op[u])}
                                      ELSE d.log[u]]
<1>1. /\ d.schema \in Version
      /\ d.op \in [Update -> Status] /\ d.log \in [Update -> SUBSET Event]
  BY DEF Database
<1>2. op \in [Update -> Status]
  BY <1>1 DEF Status, Final
<1>3. ASSUME NEW u \in Update PROVE log[u] \in SUBSET Event
  <2>1. EventOf(op[u]) \in Event BY DEF EventOf, Event
  <2>2. d.log[u] \in SUBSET Event BY <1>1
  <2>3. QED BY <2>1, <2>2
<1>4. log \in [Update -> SUBSET Event] BY <1>3
<1>5. ASSUME NEW u \in Update, "updated" \in log[u] PROVE op[u] = "completed"
  <2>1. CASE "updated" \in d.log[u]
    <3>1. d.op[u] = "completed" BY <2>1 DEF Honest
    <3>2. u \notin stale BY <3>1 DEF Pending
    <3>3. QED BY <3>1, <3>2
  <2>2. CASE "updated" \notin d.log[u]
    <3>1. "updated" = EventOf(op[u]) BY <1>5, <2>2
    <3>2. QED BY <3>1 DEF EventOf
  <2>3. QED BY <2>1, <2>2
<1>6. ASSUME NEW u \in Update, op[u] = "completed" PROVE d.op[u] = "completed"
  BY <1>6
<1> HIDE DEF op, log
<1> DEFINE r == [d EXCEPT !.op = op, !.log = log]
<1>7. r \in Database /\ r.op = op /\ r.log = log
  BY <1>1, <1>2, <1>4 DEF Database
<1>8. r = Reconciled(d, stale) BY DEF Reconciled, op, log
<1> HIDE DEF r
<1>9. QED BY <1>5, <1>6, <1>7, <1>8 DEF Honest

(* A step that keeps every snapshot or takes it of the database, and       *)
(* leaves an honest one that calls no other update completed, preserves    *)
(* the invariant.                                                          *)
LEMMA Frame ==
    ASSUME UpdateInv, TypeOK', Honest(db'), WaitedForEarly',
           \A u \in Update : run[u].pc = "done" => run'[u].pc = "done",
           \A w \in Update : run'[w].snap \in {run[w].snap, db},
           \A u \in Update : run'[u].pc # "done" => db'.op[u] # "completed"
    PROVE  UpdateInv'
<1>1. \A w \in Update : Honest(run'[w].snap) BY DEF UpdateInv
<1>2. NoneTooEarly' BY DEF UpdateInv, NoneTooEarly
<1>3. QED BY <1>1, <1>2 DEF UpdateInv, Honest

(* A database a step may leave: well-typed, honest, and nothing in it is   *)
(* completed whose script has not come to its end.                         *)
Sound(d) ==
    /\ d \in Database
    /\ Honest(d)
    /\ \A u \in Update : d.op[u] = "completed" => run[u].pc = "done"

(* The database itself and the snapshots are sound.                        *)
LEMMA SoundNow ==
    ASSUME UpdateInv
    PROVE  Sound(db) /\ \A w \in Update : Sound(run[w].snap)
BY DEF UpdateInv, TypeOK, NoneTooEarly, Sound, Run

(* The mark of an update whose script has not ended is sound.              *)
LEMMA SoundMark ==
    ASSUME UpdateInv, NEW u \in Update, NEW status \in {"running", "failed"},
           run[u].pc # "done"
    PROVE  Sound(Marked(u, status))
<1>1. Sound(db) /\ db \in Database BY SoundNow DEF Sound
<1>2. status \in Status BY DEF Status, Final
<1>3. /\ Marked(u, status) \in Database
      /\ Marked(u, status).log = db.log
      /\ \A w \in Update : Marked(u, status).op[w] =
           IF w = u /\ db.op[u] # "none" THEN status ELSE db.op[w]
  BY <1>1, <1>2, MarkedFacts
<1>4. db.op[u] # "completed" BY <1>1 DEF Sound
<1>5. "updated" \notin db.log[u] BY <1>1, <1>4 DEF Sound, Honest
<1>6. QED BY <1>1, <1>3, <1>5 DEF Sound, Honest

(* A migration of a sound database is sound.                               *)
LEMMA SoundMigrated ==
    ASSUME NEW d, Sound(d), NEW v \in Version
    PROVE  Sound(Migrated(d, v))
<1>1. d \in Database BY DEF Sound
<1>2. QED BY <1>1, MigratedFacts DEF Sound, Honest

(* So is a reconciliation.                                                 *)
LEMMA SoundReconciled ==
    ASSUME NEW d, Sound(d), NEW stale \in {{}, Pending(d)}
    PROVE  Sound(Reconciled(d, stale))
<1>1. d \in Database /\ Honest(d) BY DEF Sound
<1>2. stale \in SUBSET Pending(d) OBVIOUS
<1>3. QED BY <1>1, <1>2, ReconciledFacts DEF Sound

(* The control plane that starts leaves a sound database and waits for     *)
(* nothing.                                                                *)
LEMMA PlaneStartFacts ==
    ASSUME UpdateInv, PlaneStarts
    PROVE  Sound(db') /\ wal' \in BOOLEAN /\ plane' \in Plane /\ plane'.waiting = {}
<1>1. link \in Version /\ env \in Version BY DEF UpdateInv, TypeOK
<1>2. Sound(Migrated(db, link)) BY <1>1, SoundNow, SoundMigrated
<1>3. db \in Database BY DEF UpdateInv, TypeOK
<1>4. Pending(Migrated(db, link)) = Pending(db)
  BY <1>1, <1>3, MigratedFacts DEF Pending
<1>5. PICK stale \in {{}, Pending(db)} : db' = Reconciled(Migrated(db, link), stale)
  BY DEF PlaneStarts
<1>6. stale \in {{}, Pending(Migrated(db, link))} BY <1>4, <1>5
<1>7. Sound(Reconciled(Migrated(db, link), stale)) BY <1>2, <1>6, SoundReconciled
<1>8. /\ wal' = TRUE
      /\ plane' = [state |-> "up", version |-> env, waiting |-> {}]
  BY DEF PlaneStarts
<1>9. plane' \in Plane /\ plane'.waiting = {} BY <1>1, <1>8 DEF Plane
<1>10. QED BY <1>5, <1>7, <1>8, <1>9

-----------------------------------------------------------------------------
(* One command of the script of u: its own record moves on, the database   *)
(* it leaves is sound, and nobody goes on waiting for a script that has    *)
(* passed the stop of the control plane.                                   *)
LEMMA ScriptStep ==
    ASSUME UpdateInv, NEW u \in Update, run[u].pc # "done",
           run' \in [Update -> Run],
           \A w \in Update \ {u} : run'[w] = run[w],
           run'[u].snap \in {run[u].snap, db},
           Sound(db'),
           plane' \in Plane, plane'.waiting \subseteq plane.waiting,
           u \in plane'.waiting => run'[u].pc \in Early \cup {"refused", "exited"},
           dirs' \in SUBSET Version, link' \in Version, env' \in Version,
           wal' \in BOOLEAN, faults' \in 0..MaxFaults,
           UNCHANGED <<latest, disturbed>>
    PROVE  UpdateInv'
<1>1. TypeOK' BY DEF UpdateInv, TypeOK, Sound
<1>2. WaitedForEarly' BY DEF UpdateInv, TypeOK, Plane, WaitedForEarly
<1>3. \A w \in Update : run[w].pc = "done" => run'[w].pc = "done" OBVIOUS
<1>4. \A w \in Update : run'[w].snap \in {run[w].snap, db} OBVIOUS
<1>5. \A w \in Update : run'[w].pc # "done" => db'.op[w] # "completed"
  BY <1>3 DEF Sound
<1>6. Honest(db') BY DEF Sound
<1>7. QED BY <1>1, <1>2, <1>3, <1>4, <1>5, <1>6, Frame

(* What a command that only moves its own script on does to the record.    *)
LEMMA GoesFacts ==
    ASSUME TypeOK, NEW u \in Update, NEW pc \in Pc, Goes(u, pc)
    PROVE  /\ run' \in [Update -> Run]
           /\ \A w \in Update \ {u} : run'[w] = run[w]
           /\ run'[u].snap = run[u].snap /\ run'[u].pc = pc
<1>1. run[u] \in Run BY DEF TypeOK
<1>2. [run[u] EXCEPT !.pc = pc] \in Run BY <1>1 DEF Run
<1>3. QED BY <1>1, <1>2 DEF Goes, TypeOK, Run

(* A failure is counted within its bound.                                  *)
LEMMA FaultyFacts ==
    ASSUME TypeOK, Faulty PROVE faults' \in 0..MaxFaults
BY UpdateAssumption DEF Faulty, TypeOK

(* A command that leaves the control plane alone, with its three ways to   *)
(* go on.                                                                  *)
LEMMA QuietStep ==
    ASSUME UpdateInv, NEW u \in Update, run[u].pc \notin Ended, run[u].pc # "asked",
           \/ Proceeds(u)
           \/ Exits(u)
           \/ RollsBack(u)
           \/ (Goes(u, "exited") \/ Goes(u, "rb_link")) /\ UNCHANGED faults,
           run[u].pc \in {"verify", "stage"} => run'[u].pc \in Early \cup {"exited"},
           run[u].pc = "stop" => run'[u].pc = "exited",
           Sound(db'), UNCHANGED plane,
           dirs' \in SUBSET Version, link' \in Version, env' \in Version,
           wal' \in BOOLEAN,
           UNCHANGED <<latest, disturbed>>
    PROVE  UpdateInv'
<1>1. TypeOK /\ run[u].pc \in Pc /\ "exited" \in Pc /\ "rb_link" \in Pc
  BY DEF UpdateInv, TypeOK, Run, Pc, Ended
<1>2. Then[run[u].pc] \in Pc BY <1>1, ThenFacts DEF Pc, Early
<1>3. PICK pc \in Pc : Goes(u, pc)
  BY <1>1, <1>2 DEF Proceeds, Exits, RollsBack
<1>4. faults' \in 0..MaxFaults
  BY <1>1, FaultyFacts DEF Proceeds, Exits, RollsBack, TypeOK
<1>5. plane' \in Plane /\ plane'.waiting \subseteq plane.waiting
  BY <1>1 DEF TypeOK
<1>6. u \in plane'.waiting => run'[u].pc \in Early \cup {"refused", "exited"}
  <2>1. u \in plane'.waiting => run[u].pc \in Early \cup {"refused", "exited"}
    BY DEF UpdateInv, WaitedForEarly
  <2>2. QED BY <2>1 DEF Early, Ended
<1>7. run[u].pc # "done" BY DEF Ended
<1>8. QED BY <1>1, <1>3, <1>4, <1>5, <1>6, <1>7, GoesFacts, ScriptStep

-----------------------------------------------------------------------------
(* The commands of apply-update.                                           *)
(* The domains of the variables a command reads.                           *)
LEMMA Domains ==
    ASSUME UpdateInv, NEW u \in Update
    PROVE  /\ dirs \in SUBSET Version /\ link \in Version /\ env \in Version
           /\ wal \in BOOLEAN /\ db \in Database /\ run[u] \in Run
           /\ run[u].target \in Version /\ run[u].previous \in Version
           /\ run[u].env \in Version /\ plane \in Plane
           /\ faults \in 0..MaxFaults
BY DEF UpdateInv, TypeOK, Run

(* The checks of the archive: the script remembers what it will put back.  *)
LEMMA VerifyStep == ASSUME UpdateInv, NEW u \in Update, Verify(u) PROVE UpdateInv'
<1>1. run[u].pc = "verify" /\ UNCHANGED <<latest, disturbed>> BY DEF Verify, At
<1>2. run[u].pc # "done" /\ run[u].pc \notin Ended /\ run[u].pc # "asked"
  BY <1>1 DEF Ended
<1>3. Sound(db) /\ Sound(Marked(u, "running")) BY <1>2, SoundNow, SoundMark
<1>4. UNCHANGED <<dirs, link, env, wal, plane>> BY DEF Verify
<1>5. CASE Exits(u) /\ db' \in {db, Marked(u, "running")}
  <2>1. run'[u].pc = "exited"
    BY <1>5, GoesFacts DEF Exits, UpdateInv, Pc, Ended
  <2>2. QED BY <1>1, <1>2, <1>3, <1>4, <1>5, <2>1, Domains, QuietStep
<1>6. CASE /\ run' = [run EXCEPT ![u].pc = Then["verify"], ![u].previous = link,
                                 ![u].env = env]
           /\ db' = Marked(u, "running")
           /\ UNCHANGED faults
  <2>1. Then["verify"] = "stage" BY DEF Then, Script
  <2> DEFINE r == [run[u] EXCEPT !.pc = "stage", !.previous = link, !.env = env]
  <2>2. r \in Run /\ r.snap = run[u].snap /\ r.pc = "stage"
    BY Domains DEF Run, Pc, Early
  <2>3. run' = [run EXCEPT ![u] = r] BY <1>6, <2>1
  <2> HIDE DEF r
  <2>4. run \in [Update -> Run] BY DEF UpdateInv, TypeOK
  <2>5. /\ run' \in [Update -> Run] /\ run'[u] = r
        /\ \A w \in Update \ {u} : run'[w] = run[w]
    BY <2>2, <2>3, <2>4
  <2>6. Sound(db') BY <1>3, <1>6
  <2>7. run'[u].pc \in Early BY <2>2, <2>5 DEF Early
  <2>8. QED BY <1>1, <1>2, <1>4, <1>6, <2>2, <2>5, <2>6, <2>7, Domains, ScriptStep
<1>7. QED BY <1>5, <1>6 DEF Verify

(* The release is staged, or refused because its directory exists.         *)
LEMMA StageStep == ASSUME UpdateInv, NEW u \in Update, Stage(u) PROVE UpdateInv'
<1>1. run[u].pc = "stage" /\ UNCHANGED <<latest, disturbed>> BY DEF Stage, At
<1>2. run[u].pc # "done" /\ run[u].pc \notin Ended /\ run[u].pc # "asked"
  BY <1>1 DEF Ended
<1>3. Sound(db) /\ Sound(Marked(u, "running")) BY <1>2, SoundNow, SoundMark
<1>4. Sound(db') BY <1>3 DEF Stage
<1>5. dirs' \in SUBSET Version BY Domains DEF Stage
<1>6. UNCHANGED <<link, env, wal, plane>> BY DEF Stage
<1>7. Then["stage"] = "stop" BY DEF Then, Script
<1>8. Proceeds(u) \/ Exits(u) \/ (Goes(u, "exited") /\ UNCHANGED faults)
  BY DEF Stage
<1>9. Goes(u, "stop") \/ Goes(u, "exited")
  BY <1>1, <1>7, <1>8 DEF Proceeds, Exits
<1>10. run'[u].pc \in Early \cup {"exited"}
  BY <1>9, GoesFacts DEF UpdateInv, Pc, Ended, Early
<1>11. QED BY <1>1, <1>2, <1>4, <1>5, <1>6, <1>8, <1>10, Domains, QuietStep

(* The stop ends every wait.                                               *)
LEMMA StopStep == ASSUME UpdateInv, NEW u \in Update, Stop(u) PROVE UpdateInv'
<1>1. run[u].pc = "stop" /\ UNCHANGED <<latest, disturbed>> BY DEF Stop, At
<1>2. run[u].pc # "done" /\ run[u].pc \notin Ended /\ run[u].pc # "asked"
  BY <1>1 DEF Ended
<1>3. UNCHANGED <<dirs, link, env, db>> BY DEF Stop
<1>4. Sound(db') BY <1>3, SoundNow
<1>5. CASE Exits(u) /\ UNCHANGED <<plane, wal>>
  <2>1. run'[u].pc = "exited"
    BY <1>5, GoesFacts DEF Exits, UpdateInv, Pc, Ended
  <2>2. QED BY <1>1, <1>2, <1>3, <1>4, <1>5, <2>1, Domains, QuietStep
<1>6. CASE /\ Proceeds(u)
           /\ plane' = [plane EXCEPT !.state = "stopped", !.waiting = {}]
           /\ wal' = FALSE
  <2>1. Then["stop"] \in Pc BY ThenFacts
  <2>2. /\ run' \in [Update -> Run]
        /\ \A w \in Update \ {u} : run'[w] = run[w]
        /\ run'[u].snap = run[u].snap
    BY <1>1, <1>6, <2>1, GoesFacts DEF Proceeds, UpdateInv
  <2>3. plane' \in Plane /\ plane'.waiting = {} BY <1>6, Domains DEF Plane
  <2>4. faults' = faults BY <1>6 DEF Proceeds
  <2>5. QED
    BY <1>1, <1>2, <1>3, <1>4, <1>6, <2>2, <2>3, <2>4, Domains, ScriptStep
<1>7. QED BY <1>5, <1>6 DEF Stop

(* The snapshot is the database, hence as true as the database.            *)
LEMMA SnapshotStep == ASSUME UpdateInv, NEW u \in Update, Snapshot(u) PROVE UpdateInv'
<1>1. run[u].pc = "snapshot" /\ UNCHANGED <<latest, disturbed>> BY DEF Snapshot, At
<1>2. run[u].pc # "done" /\ run[u].pc \notin Ended /\ run[u].pc # "asked"
  BY <1>1 DEF Ended
<1>3. Sound(db) /\ Sound(Marked(u, "running")) BY <1>2, SoundNow, SoundMark
<1>4. UNCHANGED <<dirs, link, env, wal, plane>> BY DEF Snapshot
<1>5. CASE Exits(u) /\ UNCHANGED db
  BY <1>1, <1>2, <1>3, <1>4, <1>5, Domains, QuietStep
<1>6. CASE /\ run' = [run EXCEPT ![u].pc = Then["snapshot"], ![u].snap = db]
           /\ db' = Marked(u, "running")
           /\ UNCHANGED faults
  <2>1. Then["snapshot"] = "migrate" BY DEF Then, Script
  <2> DEFINE r == [run[u] EXCEPT !.pc = "migrate", !.snap = db]
  <2>2. r \in Run /\ r.snap = db BY Domains DEF Run, Pc
  <2>3. run' = [run EXCEPT ![u] = r] BY <1>6, <2>1
  <2> HIDE DEF r
  <2>4. run \in [Update -> Run] BY DEF UpdateInv, TypeOK
  <2>5. /\ run' \in [Update -> Run] /\ run'[u] = r
        /\ \A w \in Update \ {u} : run'[w] = run[w]
    BY <2>2, <2>3, <2>4
  <2>6. u \notin plane'.waiting
    BY <1>1, <1>4 DEF UpdateInv, WaitedForEarly, Early
  <2>7. QED BY <1>1, <1>2, <1>3, <1>4, <1>6, <2>2, <2>5, <2>6, Domains, ScriptStep
<1>7. QED BY <1>5, <1>6 DEF Snapshot

(* A migration, whole or interrupted, leaves statuses and events alone.    *)
LEMMA MigrateStep == ASSUME UpdateInv, NEW u \in Update, Migrate(u) PROVE UpdateInv'
<1>1. run[u].pc = "migrate" /\ UNCHANGED <<latest, disturbed>> BY DEF Migrate, At
<1>2. run[u].pc # "done" /\ run[u].pc \notin Ended /\ run[u].pc # "asked"
  BY <1>1 DEF Ended
<1>3. UNCHANGED <<dirs, link, env, plane>> BY DEF Migrate
<1>4. Sound(db) /\ \A v \in Version : Sound(Migrated(db, v))
  BY SoundNow, SoundMigrated
<1>5. run[u].target \in Version /\ 1..run[u].target \subseteq Version
  BY Domains, UpdateAssumption DEF Version
<1>6. Sound(db') BY <1>4, <1>5 DEF Migrate
<1>7. wal' \in BOOLEAN BY Domains DEF Migrate
<1>8. Proceeds(u) \/ RollsBack(u) BY DEF Migrate
<1>9. QED BY <1>1, <1>2, <1>3, <1>6, <1>7, <1>8, Domains, QuietStep

(* The commands that touch neither the database nor the control plane.     *)
LEMMA FileStep ==
    ASSUME UpdateInv, NEW u \in Update,
           Link(u) \/ Units(u) \/ Agent(u) \/ RbLink(u) \/ RbUnits(u)
    PROVE  UpdateInv'
<1>1. /\ run[u].pc \in {"link", "units", "agent", "rb_link", "rb_units"}
      /\ UNCHANGED <<latest, disturbed>>
  BY DEF Link, Units, Agent, RbLink, RbUnits, At
<1>2. run[u].pc # "done" /\ run[u].pc \notin Ended /\ run[u].pc # "asked"
  BY <1>1 DEF Ended
<1>3. Proceeds(u) \/ Exits(u) \/ RollsBack(u)
  BY DEF Link, Units, Agent, RbLink, RbUnits
<1>4. UNCHANGED <<dirs, db, wal, plane>> BY DEF Link, Units, Agent, RbLink, RbUnits
<1>5. link' \in Version /\ env' \in Version
  BY Domains DEF Link, Units, Agent, RbLink, RbUnits
<1>6. Sound(db') BY <1>4, SoundNow
<1>7. QED BY <1>1, <1>2, <1>3, <1>4, <1>5, <1>6, Domains, QuietStep

(* The marks of progress keep an update running.                           *)
LEMMA MarkProgressStep ==
    ASSUME UpdateInv, NEW u \in Update, MarkProgress(u) PROVE UpdateInv'
<1>1. run[u].pc \in {"mark75", "mark90"} /\ UNCHANGED <<latest, disturbed>>
  BY DEF MarkProgress, At
<1>2. run[u].pc # "done" /\ run[u].pc \notin Ended /\ run[u].pc # "asked"
  BY <1>1 DEF Ended
<1>3. Sound(db) /\ Sound(Marked(u, "running")) BY <1>2, SoundNow, SoundMark
<1>4. Sound(db') BY <1>3 DEF MarkProgress
<1>5. UNCHANGED <<dirs, link, env, wal, plane>> BY DEF MarkProgress
<1>6. Proceeds(u) \/ Exits(u) BY DEF MarkProgress
<1>7. QED BY <1>1, <1>2, <1>4, <1>5, <1>6, Domains, QuietStep

(* The control plane that starts reconciles; one that runs is left alone.  *)
LEMMA StartStep == ASSUME UpdateInv, NEW u \in Update, Start(u) PROVE UpdateInv'
<1>1. run[u].pc = "start" /\ UNCHANGED <<latest, disturbed>> BY DEF Start, At
<1>2. run[u].pc # "done" /\ run[u].pc \notin Ended /\ run[u].pc # "asked"
  BY <1>1 DEF Ended
<1>3. UNCHANGED <<dirs, link, env>> BY DEF Start
<1>4. CASE RollsBack(u) /\ UNCHANGED <<db, wal, plane>>
  BY <1>1, <1>2, <1>3, <1>4, Domains, SoundNow, QuietStep
<1>5. CASE /\ run' = [run EXCEPT ![u].pc = Then["start"], ![u].started = TRUE]
           /\ UNCHANGED faults
           /\ IF Answers THEN UNCHANGED <<db, wal, plane>> ELSE PlaneStarts
  <2>1. Then["start"] = "mark90" BY DEF Then, Script
  <2> DEFINE r == [run[u] EXCEPT !.pc = "mark90", !.started = TRUE]
  <2>2. r \in Run /\ r.snap = run[u].snap BY Domains DEF Run, Pc
  <2>3. run' = [run EXCEPT ![u] = r] BY <1>5, <2>1
  <2> HIDE DEF r
  <2>4. run \in [Update -> Run] BY DEF UpdateInv, TypeOK
  <2>5. /\ run' \in [Update -> Run] /\ run'[u] = r
        /\ \A w \in Update \ {u} : run'[w] = run[w]
    BY <2>2, <2>3, <2>4
  <2>6. /\ Sound(db') /\ wal' \in BOOLEAN /\ plane' \in Plane
        /\ plane'.waiting = {} \/ plane' = plane
    <3>1. CASE Answers BY <1>5, <3>1, SoundNow, Domains
    <3>2. CASE ~Answers BY <1>5, <3>2, PlaneStartFacts
    <3>3. QED BY <3>1, <3>2
  <2>7. plane'.waiting \subseteq plane.waiting BY <2>6
  <2>8. u \notin plane'.waiting
    BY <1>1, <2>7 DEF UpdateInv, WaitedForEarly, Early
  <2>9. QED
    BY <1>1, <1>2, <1>3, <1>5, <2>2, <2>5, <2>6, <2>7, <2>8, Domains, ScriptStep
<1>6. QED BY <1>4, <1>5 DEF Start

(* Readiness decides between completion and rollback only.                 *)
LEMMA ReadyStep == ASSUME UpdateInv, NEW u \in Update, Ready(u) PROVE UpdateInv'
<1>1. run[u].pc = "ready" /\ UNCHANGED <<latest, disturbed>> BY DEF Ready, At
<1>2. run[u].pc # "done" /\ run[u].pc \notin Ended /\ run[u].pc # "asked"
  BY <1>1 DEF Ended
<1>3. UNCHANGED <<dirs, link, env, db, wal, plane>> BY DEF Ready
<1>4. Proceeds(u) \/ RollsBack(u) \/ (Goes(u, "rb_link") /\ UNCHANGED faults)
  BY DEF Ready
<1>5. QED BY <1>1, <1>2, <1>3, <1>4, Domains, SoundNow, QuietStep

(* The only command that completes an update is the last of its script.    *)
LEMMA CompleteStep == ASSUME UpdateInv, NEW u \in Update, Complete(u) PROVE UpdateInv'
<1>1. run[u].pc = "complete" /\ UNCHANGED <<latest, disturbed>> BY DEF Complete, At
<1>2. run[u].pc # "done" /\ run[u].pc \notin Ended /\ run[u].pc # "asked"
  BY <1>1 DEF Ended
<1>3. UNCHANGED <<dirs, link, env, wal, plane>> BY DEF Complete
<1>4. CASE Exits(u) /\ UNCHANGED db
  BY <1>1, <1>2, <1>3, <1>4, Domains, SoundNow, QuietStep
<1>5. CASE Proceeds(u) /\ db' = Marked(u, "completed")
  <2>1. Then["complete"] = "done" /\ "done" \in Pc BY DEF Then, Script, Pc, Ended
  <2>2. Goes(u, "done") /\ UNCHANGED faults BY <1>1, <1>5, <2>1 DEF Proceeds
  <2>3. /\ run' \in [Update -> Run]
        /\ \A w \in Update \ {u} : run'[w] = run[w]
        /\ run'[u].snap = run[u].snap /\ run'[u].pc = "done"
    BY <2>1, <2>2, GoesFacts DEF UpdateInv
  <2>4. Sound(db) /\ db \in Database BY SoundNow, Domains
  <2>5. "completed" \in Status BY DEF Status, Final
  <2>6. /\ db' \in Database /\ db'.log = db.log
        /\ \A w \in Update : db'.op[w] =
             IF w = u /\ db.op[u] # "none" THEN "completed" ELSE db.op[w]
    BY <1>5, <2>4, <2>5, MarkedFacts
  <2>7. Honest(db') BY <2>4, <2>6 DEF Sound, Honest
  <2>8. \A w \in Update : run'[w].pc # "done" => db'.op[w] # "completed"
    BY <2>3, <2>4, <2>6 DEF Sound
  <2>9. u \notin plane.waiting BY <1>1 DEF UpdateInv, WaitedForEarly, Early
  <2>10. plane.waiting \subseteq Update BY Domains DEF Plane
  <2>11. WaitedForEarly'
    BY <1>3, <2>3, <2>9, <2>10 DEF UpdateInv, WaitedForEarly
  <2>12. TypeOK' BY <1>1, <1>3, <2>2, <2>3, <2>6 DEF UpdateInv, TypeOK
  <2>13. QED BY <1>2, <2>3, <2>7, <2>8, <2>11, <2>12, Frame
<1>6. QED BY <1>4, <1>5 DEF Complete

(* The rollback installs the snapshot, or the log is replayed over it.     *)
LEMMA RbDbStep == ASSUME UpdateInv, NEW u \in Update, RbDb(u) PROVE UpdateInv'
<1>1. run[u].pc = "rb_db" /\ UNCHANGED <<latest, disturbed>> BY DEF RbDb, At
<1>2. run[u].pc # "done" /\ run[u].pc \notin Ended /\ run[u].pc # "asked"
  BY <1>1 DEF Ended
<1>3. UNCHANGED <<dirs, link, env, wal>> BY DEF RbDb
<1>4. CASE Exits(u) /\ UNCHANGED <<db, plane>>
  BY <1>1, <1>2, <1>3, <1>4, Domains, SoundNow, QuietStep
<1>5. CASE /\ db' \in {run[u].snap} \cup (IF wal THEN {db} ELSE {})
           /\ plane' = [plane EXCEPT !.state = IF Up THEN "orphan" ELSE @]
           /\ run' = [run EXCEPT ![u].pc = Then["rb_db"], ![u].dirty = wal]
           /\ UNCHANGED faults
  <2>1. Then["rb_db"] = "rb_units" BY DEF Then, Script
  <2> DEFINE r == [run[u] EXCEPT !.pc = "rb_units", !.dirty = wal]
  <2>2. r \in Run /\ r.snap = run[u].snap BY Domains DEF Run, Pc
  <2>3. run' = [run EXCEPT ![u] = r] BY <1>5, <2>1
  <2> HIDE DEF r
  <2>4. run \in [Update -> Run] BY DEF UpdateInv, TypeOK
  <2>5. /\ run' \in [Update -> Run] /\ run'[u] = r
        /\ \A w \in Update \ {u} : run'[w] = run[w]
    BY <2>2, <2>3, <2>4
  <2>6. Sound(db') BY <1>5, SoundNow
  <2>7. plane' \in Plane /\ plane'.waiting = plane.waiting
    BY <1>5, Domains DEF Plane
  <2>8. u \notin plane'.waiting
    BY <1>1, <2>7 DEF UpdateInv, WaitedForEarly, Early
  <2>9. QED
    BY <1>1, <1>2, <1>3, <1>5, <2>2, <2>5, <2>6, <2>7, <2>8, Domains, ScriptStep
<1>6. QED BY <1>4, <1>5 DEF RbDb

(* The rollback marks its own update as failed.                            *)
LEMMA RbMarkStep == ASSUME UpdateInv, NEW u \in Update, RbMark(u) PROVE UpdateInv'
<1>1. run[u].pc = "rb_mark" /\ UNCHANGED <<latest, disturbed>> BY DEF RbMark, At
<1>2. run[u].pc # "done" /\ run[u].pc \notin Ended /\ run[u].pc # "asked"
  BY <1>1 DEF Ended
<1>3. UNCHANGED <<dirs, link, env, wal, plane>> BY DEF RbMark
<1>4. Sound(db) /\ Sound(Marked(u, "failed")) BY <1>2, SoundNow, SoundMark
<1>5. Sound(db') BY <1>4 DEF RbMark
<1>6. Then["rb_mark"] \in Pc /\ Goes(u, Then["rb_mark"])
  BY <1>1, ThenFacts DEF RbMark, Proceeds
<1>7. faults' \in 0..MaxFaults
  BY FaultyFacts, Domains DEF RbMark, Proceeds, UpdateInv
<1>8. u \notin plane'.waiting
  BY <1>1, <1>3 DEF UpdateInv, WaitedForEarly, Early
<1>9. QED
  BY <1>1, <1>2, <1>3, <1>5, <1>6, <1>7, <1>8, Domains, GoesFacts, ScriptStep
     DEF UpdateInv

(* The control plane that the rollback starts reconciles what came back.   *)
LEMMA RbStartStep == ASSUME UpdateInv, NEW u \in Update, RbStart(u) PROVE UpdateInv'
<1>1. run[u].pc = "rb_start" /\ UNCHANGED <<latest, disturbed>> BY DEF RbStart, At
<1>2. run[u].pc # "done" /\ run[u].pc \notin Ended /\ run[u].pc # "asked"
  BY <1>1 DEF Ended
<1>3. UNCHANGED <<dirs, link, env>> BY DEF RbStart
<1>4. CASE Exits(u) /\ UNCHANGED <<db, wal, plane>>
  BY <1>1, <1>2, <1>3, <1>4, Domains, SoundNow, QuietStep
<1>5. CASE Proceeds(u) /\ PlaneStarts
  <2>1. Then["rb_start"] \in Pc /\ Goes(u, Then["rb_start"])
    BY <1>1, <1>5, ThenFacts DEF Proceeds
  <2>2. faults' = faults BY <1>5 DEF Proceeds
  <2>3. Sound(db') /\ wal' \in BOOLEAN /\ plane' \in Plane /\ plane'.waiting = {}
    BY <1>5, PlaneStartFacts
  <2>4. QED
    BY <1>1, <1>2, <1>3, <2>1, <2>2, <2>3, Domains, GoesFacts, ScriptStep
       DEF UpdateInv
<1>6. QED BY <1>4, <1>5 DEF RbStart

-----------------------------------------------------------------------------
(* The control plane, the agent and the machine.                           *)

(* Nobody has completed an update that is only now confirmed.              *)
LEMMA ConfirmStep ==
    ASSUME UpdateInv, NEW u \in Update, NEW v \in Version, Confirm(u, v)
    PROVE  UpdateInv'
<1>1. /\ run[u].pc = "idle" /\ latest' = u
      /\ UNCHANGED <<dirs, link, env, wal>>
      /\ disturbed' = disturbed \cup (IF AtWork = {} THEN {} ELSE AtWork \cup {u})
  BY DEF Confirm
<1>2. PICK status \in {"queued", "running"} : db' = [db EXCEPT !.op[u] = status]
  BY DEF Confirm
<1>3. Sound(db) /\ db \in Database /\ status \in Status
  BY SoundNow, Domains DEF Status
<1>4. /\ db' \in Database /\ db'.log = db.log
      /\ \A w \in Update : db'.op[w] = IF w = u THEN status ELSE db.op[w]
  BY <1>2, <1>3 DEF Database
<1>5. db.op[u] # "completed" BY <1>1, <1>3 DEF Sound
<1>6. Honest(db') BY <1>3, <1>4, <1>5 DEF Sound, Honest
<1>7. PICK pc \in {"asked", "refused"}, t \in Version :
        run' = [run EXCEPT ![u] = [run[u] EXCEPT !.pc = pc, !.target = t]]
  <2>1. CASE run' = [run EXCEPT ![u].pc = "asked", ![u].target = v]
    BY <2>1
  <2>2. CASE Goes(u, "refused")
    <3>1. [run[u] EXCEPT !.pc = "refused", !.target = run[u].target]
            = [run[u] EXCEPT !.pc = "refused"]
      BY Domains DEF Run
    <3>2. QED BY <2>2, <3>1, Domains DEF Goes
  <2>3. QED BY <2>1, <2>2 DEF Confirm
<1> DEFINE r == [run[u] EXCEPT !.pc = pc, !.target = t]
<1>8. r \in Run /\ r.pc = pc /\ r.snap = run[u].snap
  <2>1. pc \in Pc BY DEF Pc, Ended, Early
  <2>2. QED BY <2>1, Domains DEF Run
<1>9. run' = [run EXCEPT ![u] = r] BY <1>7
<1> HIDE DEF r
<1>10. /\ run' \in [Update -> Run] /\ run'[u] = r
       /\ \A w \in Update \ {u} : run'[w] = run[w]
  BY <1>8, <1>9 DEF UpdateInv, TypeOK
<1>11. /\ plane' \in Plane /\ plane'.waiting \subseteq plane.waiting \cup {u}
       /\ faults' \in 0..MaxFaults
  <2>1. CASE plane' = [plane EXCEPT !.waiting = @ \cup {u}] /\ UNCHANGED faults
    BY <2>1, Domains DEF Plane
  <2>2. CASE plane' = [plane EXCEPT !.state = "down", !.waiting = {}] /\ Faulty
    BY <2>2, Domains, FaultyFacts DEF Plane, UpdateInv
  <2>3. QED BY <2>1, <2>2 DEF Confirm
<1>12. WaitedForEarly'
  <2>1. run'[u].pc \in Early \cup {"refused", "exited"}
    BY <1>8, <1>10 DEF Early
  <2>2. plane.waiting \subseteq Update BY Domains DEF Plane
  <2>3. ASSUME NEW w \in plane'.waiting, w # u
        PROVE  run'[w].pc \in Early \cup {"refused", "exited"}
    <3>1. w \in plane.waiting /\ run'[w] = run[w] BY <1>10, <1>11, <2>2, <2>3
    <3>2. QED BY <3>1 DEF UpdateInv, WaitedForEarly
  <2>4. QED BY <2>1, <2>3 DEF WaitedForEarly
<1>13. TypeOK'
  <2>1. disturbed' \in SUBSET Update
    BY <1>1 DEF UpdateInv, TypeOK, AtWork
  <2>2. QED BY <1>1, <1>4, <1>10, <1>11, <2>1 DEF UpdateInv, TypeOK
<1>14. \A w \in Update : run'[w].pc # "done" => db'.op[w] # "completed"
  BY <1>1, <1>3, <1>4, <1>10 DEF Sound
<1>15. \A w \in Update : run[w].pc = "done" => run'[w].pc = "done"
  BY <1>1, <1>10
<1>16. \A w \in Update : run'[w].snap \in {run[w].snap, db}
  BY <1>8, <1>10
<1>17. QED BY <1>6, <1>12, <1>13, <1>14, <1>15, <1>16, Frame

(* A step in which no script moves, the database stays sound and nobody    *)
(* begins to wait.                                                         *)
LEMMA PlaneStep ==
    ASSUME UpdateInv, Sound(db'), plane' \in Plane,
           plane'.waiting \subseteq plane.waiting,
           wal' \in BOOLEAN, faults' \in 0..MaxFaults,
           UNCHANGED <<dirs, link, env, run, latest, disturbed>>
    PROVE  UpdateInv'
<1>1. TypeOK' BY DEF UpdateInv, TypeOK, Sound
<1>2. WaitedForEarly' BY DEF UpdateInv, WaitedForEarly
<1>3. Honest(db') BY DEF Sound
<1>4. \A w \in Update : run'[w].pc # "done" => db'.op[w] # "completed"
  BY DEF Sound
<1>5. QED BY <1>1, <1>2, <1>3, <1>4, Frame

(* A wait that ends late overwrites no completion: a script that came to   *)
(* completion stopped the process that waited for it.                      *)
LEMMA ExecuteFailsStep ==
    ASSUME UpdateInv, NEW u \in Update, ExecuteFails(u) PROVE UpdateInv'
<1>1. /\ u \in plane.waiting
      /\ db' = [db EXCEPT !.op[u] = "failed", !.log[u] = @ \cup {"update_failed"}]
      /\ plane' = [plane EXCEPT !.waiting = @ \ {u}]
      /\ UNCHANGED <<dirs, link, env, wal, run, latest, disturbed, faults>>
  BY DEF ExecuteFails
<1>2. run[u].pc # "done" BY <1>1 DEF UpdateInv, WaitedForEarly, Early
<1>3. Sound(db) /\ db \in Database BY SoundNow, Domains
<1>4. db.op[u] # "completed" BY <1>2, <1>3 DEF Sound
<1>5. "updated" \notin db.log[u] BY <1>3, <1>4 DEF Sound, Honest
<1> DEFINE op == [db.op EXCEPT ![u] = "failed"]
           log == [db.log EXCEPT ![u] = @ \cup {"update_failed"}]
<1>6. /\ op \in [Update -> Status] /\ op[u] = "failed"
      /\ \A w \in Update \ {u} : op[w] = db.op[w]
  BY <1>3 DEF Database, Status, Final
<1>7. /\ log \in [Update -> SUBSET Event]
      /\ log[u] = db.log[u] \cup {"update_failed"}
      /\ \A w \in Update \ {u} : log[w] = db.log[w]
  BY <1>3 DEF Database, Event
<1>8. db' = [db EXCEPT !.op = op, !.log = log] BY <1>1
<1> HIDE DEF op, log
<1>9. db' \in Database /\ db'.op = op /\ db'.log = log
  BY <1>3, <1>6, <1>7, <1>8 DEF Database
<1>10. Honest(db') BY <1>3, <1>5, <1>6, <1>7, <1>9 DEF Sound, Honest
<1>11. \A w \in Update : db'.op[w] = "completed" => run'[w].pc = "done"
  BY <1>1, <1>3, <1>6, <1>9 DEF Sound
<1>12. Sound(db') BY <1>9, <1>10, <1>11, <1>1 DEF Sound
<1>13. plane' \in Plane /\ plane'.waiting \subseteq plane.waiting
  BY <1>1, Domains DEF Plane
<1>14. QED BY <1>1, <1>12, <1>13, Domains, PlaneStep

(* A reader of the list reconciles.                                        *)
LEMMA ListStep == ASSUME UpdateInv, List PROVE UpdateInv'
<1>1. UNCHANGED <<dirs, link, env, wal, plane, run, latest, disturbed, faults>>
  BY DEF List
<1>2. PICK stale \in {{}, Pending(db)} : db' = Reconciled(db, stale) BY DEF List
<1>3. Sound(db') BY <1>2, SoundNow, SoundReconciled
<1>4. plane \in Plane /\ wal \in BOOLEAN /\ faults \in 0..MaxFaults
  BY DEF UpdateInv, TypeOK
<1>5. QED BY <1>1, <1>3, <1>4, PlaneStep

(* The process ends, and with it every wait.                               *)
LEMMA PlaneCrashesStep == ASSUME UpdateInv, PlaneCrashes PROVE UpdateInv'
<1>1. /\ Faulty
      /\ plane' = [plane EXCEPT !.state = "down", !.waiting = {}]
      /\ UNCHANGED <<dirs, link, env, db, wal, run, latest, disturbed>>
  BY DEF PlaneCrashes
<1>2. plane \in Plane /\ wal \in BOOLEAN /\ TypeOK BY DEF UpdateInv, TypeOK
<1>3. plane' \in Plane /\ plane'.waiting = {} BY <1>1, <1>2 DEF Plane
<1>4. faults' \in 0..MaxFaults BY <1>1, <1>2, FaultyFacts
<1>5. QED BY <1>1, <1>2, <1>3, <1>4, SoundNow, PlaneStep

(* The restart by systemd.                                                 *)
LEMMA PlaneRestartsStep == ASSUME UpdateInv, PlaneRestarts PROVE UpdateInv'
<1>1. PlaneStarts /\ UNCHANGED <<dirs, link, env, run, latest, disturbed, faults>>
  BY DEF PlaneRestarts
<1>2. faults \in 0..MaxFaults BY DEF UpdateInv, TypeOK
<1>3. QED BY <1>1, <1>2, PlaneStartFacts, PlaneStep

(* A reboot kills scripts and waits and leaves the disk.                   *)
LEMMA RebootStep == ASSUME UpdateInv, Reboot PROVE UpdateInv'
<1>1. /\ Faulty
      /\ plane' = [plane EXCEPT !.state = "down", !.waiting = {}]
      /\ run' = [u \in Update |->
                   IF u \in AtWork THEN [run[u] EXCEPT !.pc = "killed"]
                                   ELSE run[u]]
      /\ disturbed' = disturbed \cup AtWork
      /\ UNCHANGED <<dirs, link, env, db, wal, latest>>
  BY DEF Reboot
<1>2. plane \in Plane /\ TypeOK /\ run \in [Update -> Run]
  BY DEF UpdateInv, TypeOK
<1>3. plane' \in Plane /\ plane'.waiting = {} BY <1>1, <1>2 DEF Plane
<1>4. ASSUME NEW u \in Update
      PROVE  /\ run'[u] \in Run /\ run'[u].snap = run[u].snap
             /\ run[u].pc = "done" => run'[u] = run[u]
  <2>1. run[u] \in Run BY <1>2
  <2>2. CASE u \in AtWork
    <3>1. run'[u] = [run[u] EXCEPT !.pc = "killed"] BY <1>1, <2>2
    <3>2. run[u].pc # "done" BY <2>2 DEF AtWork, Ended
    <3>3. QED BY <2>1, <3>1, <3>2 DEF Run, Pc, Ended
  <2>3. CASE u \notin AtWork BY <1>1, <2>1, <2>3
  <2>4. QED BY <2>2, <2>3
<1>5. run' \in [Update -> Run]
  <2> DEFINE kill(u) == IF u \in AtWork THEN [run[u] EXCEPT !.pc = "killed"]
                                        ELSE run[u]
  <2>1. run' = [u \in Update |-> kill(u)] BY <1>1
  <2>2. \A u \in Update : kill(u) \in Run BY <1>4, <2>1
  <2> HIDE DEF kill
  <2>3. QED BY <2>1, <2>2
<1>6. faults' \in 0..MaxFaults BY <1>1, <1>2, FaultyFacts
<1>7. disturbed' \in SUBSET Update BY <1>1, <1>2 DEF TypeOK, AtWork
<1>8. TypeOK' BY <1>1, <1>2, <1>3, <1>5, <1>6, <1>7 DEF TypeOK
<1>9. Sound(db) BY SoundNow
<1>10. Honest(db') BY <1>1, <1>9 DEF Sound
<1>11. WaitedForEarly' BY <1>3 DEF WaitedForEarly
<1>12. \A w \in Update : run[w].pc = "done" => run'[w].pc = "done" BY <1>4
<1>13. \A w \in Update : run'[w].pc # "done" => db'.op[w] # "completed"
  BY <1>1, <1>9, <1>12 DEF Sound
<1>14. \A w \in Update : run'[w].snap \in {run[w].snap, db} BY <1>4
<1>15. QED BY <1>8, <1>10, <1>11, <1>12, <1>13, <1>14, Frame

(* The agent takes the operation or refuses it.                            *)
LEMMA AgentStartsStep ==
    ASSUME UpdateInv, NEW u \in Update, AgentStarts(u) PROVE UpdateInv'
<1>1. /\ run[u].pc = "asked"
      /\ UNCHANGED <<dirs, link, env, db, wal, plane, latest, disturbed>>
  BY DEF AgentStarts
<1>2. PICK pc \in {"verify", "refused"} : Goes(u, pc) BY DEF AgentStarts
<1>3. pc \in Pc BY DEF Pc, Ended, Early
<1>4. /\ run' \in [Update -> Run]
      /\ \A w \in Update \ {u} : run'[w] = run[w]
      /\ run'[u].snap = run[u].snap /\ run'[u].pc = pc
  BY <1>2, <1>3, GoesFacts DEF UpdateInv
<1>5. faults' \in 0..MaxFaults
  BY Domains, FaultyFacts DEF AgentStarts, UpdateInv
<1>6. run'[u].pc \in Early \cup {"refused", "exited"} BY <1>4 DEF Early
<1>7. QED BY <1>1, <1>4, <1>5, <1>6, SoundNow, Domains, ScriptStep

-----------------------------------------------------------------------------
(* Every step of the system preserves the invariant.                       *)
LEMMA UpdateInductive == UpdateInv /\ [Next]_vars => UpdateInv'
<1> SUFFICES ASSUME UpdateInv, [Next]_vars PROVE UpdateInv'
  OBVIOUS
<1>1. ASSUME NEW u \in Update, NEW v \in Version, Confirm(u, v) PROVE UpdateInv'
  BY <1>1, ConfirmStep
<1>2. ASSUME NEW u \in Update, ExecuteFails(u) PROVE UpdateInv'
  BY <1>2, ExecuteFailsStep
<1>3. ASSUME NEW u \in Update, AgentStarts(u) PROVE UpdateInv'
  BY <1>3, AgentStartsStep
<1>4. ASSUME NEW u \in Update, Step(u) PROVE UpdateInv'
  <2>1. CASE Verify(u) BY <2>1, VerifyStep
  <2>2. CASE Stage(u) BY <2>2, StageStep
  <2>3. CASE Stop(u) BY <2>3, StopStep
  <2>4. CASE Snapshot(u) BY <2>4, SnapshotStep
  <2>5. CASE Migrate(u) BY <2>5, MigrateStep
  <2>6. CASE Link(u) \/ Units(u) \/ Agent(u) \/ RbLink(u) \/ RbUnits(u)
    BY <2>6, FileStep
  <2>7. CASE MarkProgress(u) BY <2>7, MarkProgressStep
  <2>8. CASE Start(u) BY <2>8, StartStep
  <2>9. CASE Ready(u) BY <2>9, ReadyStep
  <2>10. CASE Complete(u) BY <2>10, CompleteStep
  <2>11. CASE RbDb(u) BY <2>11, RbDbStep
  <2>12. CASE RbMark(u) BY <2>12, RbMarkStep
  <2>13. CASE RbStart(u) BY <2>13, RbStartStep
  <2>14. QED
    BY <1>4, <2>1, <2>2, <2>3, <2>4, <2>5, <2>6, <2>7, <2>8, <2>9, <2>10,
       <2>11, <2>12, <2>13 DEF Step
<1>5. CASE List BY <1>5, ListStep
<1>6. CASE PlaneCrashes BY <1>6, PlaneCrashesStep
<1>7. CASE PlaneRestarts BY <1>7, PlaneRestartsStep
<1>8. CASE Reboot BY <1>8, RebootStep
<1>9. CASE UNCHANGED vars
  BY <1>9 DEF vars, UpdateInv, TypeOK, Honest, NoneTooEarly, WaitedForEarly
<1>10. QED
  BY <1>1, <1>2, <1>3, <1>4, <1>5, <1>6, <1>7, <1>8, <1>9 DEF Next

(* No update is confirmed at first, and no snapshot holds one.             *)
LEMMA UpdateInitially == Init => UpdateInv
<1> SUFFICES ASSUME Init PROVE UpdateInv
  OBVIOUS
<1>1. 0 \in Version BY UpdateAssumption DEF Version
<1>2. /\ db = [schema |-> 0, op |-> [u \in Update |-> "none"],
               log |-> [u \in Update |-> {}]]
      /\ run = [u \in Update |-> [pc |-> "idle", target |-> 0, previous |-> 0,
                                  env |-> 0, snap |-> db, started |-> FALSE,
                                  dirty |-> FALSE]]
      /\ plane = [state |-> "up", version |-> 0, waiting |-> {}]
  BY DEF Init
<1>3. db \in Database BY <1>1, <1>2 DEF Database, Status
<1>4. \A u \in Update : run[u] \in Run /\ run[u].snap = db
  BY <1>1, <1>2, <1>3 DEF Run, Pc, Ended
<1>5. run \in [Update -> Run] BY <1>2, <1>4
<1>6. plane \in Plane /\ plane.waiting = {} BY <1>1, <1>2 DEF Plane
<1>7. TypeOK
  <2>1. /\ dirs = {0} /\ link = 0 /\ env = 0 /\ wal = TRUE
        /\ latest = NoUpdate /\ disturbed = {} /\ faults = 0
    BY DEF Init
  <2>2. 0 \in 0..MaxFaults BY UpdateAssumption
  <2>3. QED BY <1>1, <1>3, <1>5, <1>6, <2>1, <2>2 DEF TypeOK
<1>8. \A u \in Update : db.op[u] = "none" /\ db.log[u] = {} BY <1>2
<1>9. QED
  BY <1>4, <1>6, <1>7, <1>8 DEF UpdateInv, Honest, NoneTooEarly, WaitedForEarly

(* Whatever fails, crashes or overlaps, the invariant holds.               *)
THEOREM UpdateCorrect == Spec => []UpdateInv
<1>1. Init => UpdateInv BY UpdateInitially
<1>2. UpdateInv /\ [Next]_vars => UpdateInv' BY UpdateInductive
<1>3. QED BY <1>1, <1>2, PTL DEF Spec

(* The directories, the database, the processes and the scripts of the     *)
(* update machinery keep their types.                                      *)
THEOREM UpdateTypeCorrect == Spec => []TypeOK
<1>1. UpdateInv => TypeOK BY DEF UpdateInv
<1>2. QED BY <1>1, UpdateCorrect, PTL

(* The journal never says that an update was installed whose operation is  *)
(* not completed, after any number of rollbacks, late timeouts, stale rows *)
(* and scripts at once.                                                    *)
THEOREM JournalHonest == Spec => []JournalIsTrue
<1>1. UpdateInv => JournalIsTrue BY DEF UpdateInv, Honest, JournalIsTrue
<1>2. QED BY <1>1, UpdateCorrect, PTL

-----------------------------------------------------------------------------
(* What a script leaves behind.  CompletedMeansInstalled, RollbackRestores *)
(* and HistoryKept speak of the end of a script or of one command in it;   *)
(* their strengthening says for every command what the script has put in   *)
(* place by then, and what it will put back.                               *)

AfterLink == {"units", "mark75", "agent", "start", "mark90", "ready", "complete"}
AfterStart == {"mark90", "ready", "complete"}
Halted    == {"snapshot", "migrate", "link", "units", "mark75", "agent", "start"}
Restoring == {"rb_link", "rb_db", "rb_units", "rb_mark", "rb_start"}
Snapped   == {"migrate", "link"} \cup AfterLink \cup Restoring

(* A script that nothing disturbed is the only one, and the latest.        *)
Sole ==
    \A u \in Update \ disturbed :
        /\ run[u].pc \notin Ended => latest = u
        /\ latest = u => AtWork \subseteq {u}

(* On the way forward: link, units, schema and process in their order, and *)
(* a control plane that systemd does not restart until the script does.    *)
Forward(u) ==
    LET next == run[u].target IN
    /\ run[u].pc \in AfterLink => link = next
    /\ run[u].pc \in AfterLink \ {"units"} => env = next
    /\ run[u].pc \in AfterLink \cup {"link"} => db.schema >= next
    /\ run[u].pc \in Halted => plane.state = "stopped"
    /\ run[u].pc \in AfterStart => plane.version = next /\ run[u].started

(* From the snapshot to the start of a release nobody else writes.         *)
Untouched(u) ==
    run[u].pc \in Snapped \ {"rb_units", "rb_mark", "rb_start"} /\ ~run[u].started =>
        /\ plane.state = "stopped"
        /\ db.log = run[u].snap.log
        /\ db.op[u] \notin Final
        /\ \A w \in Update \ {u} : db.op[w] = run[u].snap.op[w]

(* The schema of the snapshot, as the previous release leaves it.          *)
SchemaBack(u) == Migrated(run[u].snap, run[u].previous).schema

(* On the way back; and afterwards, until another update is asked for.     *)
Restored(u) == run[u].pc = "rolledback" /\ latest = u
Back(u) ==
    /\ run[u].pc \in Restoring \ {"rb_link"} \/ Restored(u) => link = run[u].previous
    /\ run[u].pc \in {"rb_mark", "rb_start"} \/ Restored(u) => env = run[u].env
    /\ run[u].pc \in {"rb_units", "rb_mark", "rb_start"} /\ ~run[u].dirty =>
         db.schema \in {run[u].snap.schema, SchemaBack(u)}
    /\ Restored(u) => plane.version = run[u].env
    /\ Restored(u) /\ ~run[u].dirty => db.schema = SchemaBack(u)

(* Nothing installed, and nothing a script would put back, is older than   *)
(* release v.                                                              *)
Floor(v) == link >= v /\ env >= v /\ db.schema >= v /\ plane.version >= v
Above(r, v) ==
    /\ r.target >= v
    /\ r.pc \notin {"asked", "verify"} => r.previous >= v /\ r.env >= v
    /\ r.pc \in Snapped => r.snap.schema >= v

(* A script that ended well stays a floor for all that come later.         *)
Installed(u) ==
    run[u].pc = "done" =>
        /\ Floor(run[u].target)
        /\ \A w \in AtWork : Above(run[w], run[u].target)

ScriptInv ==
    /\ UpdateInv
    /\ Sole
    /\ \A u \in Update \ disturbed :
         Forward(u) /\ Untouched(u) /\ Back(u) /\ Installed(u)

-----------------------------------------------------------------------------
(* What the operators on the database do to the schema.                    *)
LEMMA SchemaFacts ==
    ASSUME NEW d \in Database, NEW u \in Update, NEW status \in Status,
           NEW v \in Version, NEW stale \in SUBSET Update
    PROVE  /\ d.schema \in Version
           /\ Migrated(d, v).schema = IF d.schema < v THEN v ELSE d.schema
           /\ Reconciled(d, stale).schema = d.schema
BY DEF Migrated, Reconciled, Database

(* Marking a run leaves the schema as it is.                               *)
LEMMA MarkedSchema ==
    ASSUME db \in Database, NEW u \in Update, NEW status \in Status
    PROVE  Marked(u, status).schema = db.schema
BY DEF Marked, Database

(* Versions are compared as numbers.                                       *)
LEMMA VersionFacts == \A v \in Version : v \in Nat
BY UpdateAssumption DEF Version

(* The process that starts is of the installed units; the schema becomes   *)
(* that of the linked release if it was older.                             *)
LEMMA PlaneStartSchema ==
    ASSUME UpdateInv, PlaneStarts
    PROVE  /\ plane'.version = env /\ plane'.state = "up"
           /\ db'.schema = Migrated(db, link).schema
<1>1. link \in Version /\ env \in Version /\ db \in Database
  BY DEF UpdateInv, TypeOK
<1>2. PICK stale \in {{}, Pending(db)} : db' = Reconciled(Migrated(db, link), stale)
  BY DEF PlaneStarts
<1>3. stale \in SUBSET Update BY DEF Pending
<1>4. Migrated(db, link) \in Database BY <1>1, MigratedFacts
<1>5. db'.schema = Migrated(db, link).schema
  BY <1>2, <1>3, <1>4 DEF Reconciled, Database
<1>6. plane' = [state |-> "up", version |-> env, waiting |-> {}]
  BY DEF PlaneStarts
<1>7. QED BY <1>5, <1>6

(* A script that moves on changes its place and nothing else it remembers. *)
Backups(u) ==
    /\ run'[u].target = run[u].target /\ run'[u].previous = run[u].previous
    /\ run'[u].env = run[u].env /\ run'[u].snap = run[u].snap
Remembers(u) ==
    /\ Backups(u)
    /\ run'[u].started = run[u].started /\ run'[u].dirty = run[u].dirty
OthersStay(u) == \A w \in Update \ {u} : run'[w] = run[w]

(* A script that only goes on remembers all it knew.                       *)
LEMMA GoesOn ==
    ASSUME UpdateInv, NEW u \in Update, NEW pc, Goes(u, pc)
    PROVE  run'[u].pc = pc /\ Remembers(u) /\ OthersStay(u)
<1>1. run \in [Update -> Run] /\ run[u] \in Run BY DEF UpdateInv, TypeOK
<1>2. run' = [run EXCEPT ![u] = [run[u] EXCEPT !.pc = pc]] BY DEF Goes
<1> DEFINE r == [run[u] EXCEPT !.pc = pc]
<1>3. /\ r.pc = pc /\ r.target = run[u].target /\ r.previous = run[u].previous
      /\ r.env = run[u].env /\ r.snap = run[u].snap
      /\ r.started = run[u].started /\ r.dirty = run[u].dirty
  BY <1>1 DEF Run
<1>4. run' = [run EXCEPT ![u] = r] BY <1>2
<1> HIDE DEF r
<1>5. run'[u] = r /\ OthersStay(u) BY <1>1, <1>4 DEF OthersStay
<1>6. QED BY <1>3, <1>5 DEF Remembers, Backups

(* One command of a script: it must keep what is said of its own script,   *)
(* which is the only one at work if nothing disturbed it, and go below no  *)
(* release that what it remembers is not below.                            *)
KeepsFloor(u) ==
    \A v \in Version :
        Floor(v) /\ Above(run[u], v) =>
            Floor(v)' /\ (run'[u].pc \in Ended \/ Above(run'[u], v))

(* With both of that, the invariant of the scripts is kept.                *)
LEMMA ScriptKeeps ==
    ASSUME ScriptInv, UpdateInv', NEW x \in Update, run[x].pc \notin Ended,
           OthersStay(x), UNCHANGED <<latest, disturbed>>,
           x \notin disturbed => Forward(x)' /\ Untouched(x)' /\ Back(x)',
           KeepsFloor(x),
           run'[x].pc = "done" /\ x \notin disturbed => Floor(run[x].target)'
    PROVE  ScriptInv'
<1>1. x \in AtWork BY DEF AtWork
<1>2. AtWork' \subseteq AtWork BY <1>1 DEF AtWork, OthersStay
<1>3. Sole'
  <2> SUFFICES ASSUME NEW u \in Update \ disturbed
               PROVE  /\ run'[u].pc \notin Ended => latest = u
                      /\ latest = u => AtWork' \subseteq {u}
    BY DEF Sole
  <2>1. run'[u].pc \notin Ended => u \in AtWork BY <1>2 DEF AtWork
  <2>2. QED BY <1>2, <2>1 DEF ScriptInv, Sole, AtWork
<1>4. ASSUME NEW u \in Update \ disturbed, u # x
      PROVE  run'[u] = run[u] /\ run[u].pc \in Ended /\ latest # u
  <2>1. latest # u BY <1>1, <1>4 DEF ScriptInv, Sole
  <2>2. QED BY <1>4, <2>1 DEF ScriptInv, Sole, OthersStay
<1>5. ASSUME NEW u \in Update \ disturbed
      PROVE  Forward(u)' /\ Untouched(u)' /\ Back(u)'
  <2>1. CASE u = x BY <2>1
  <2>2. CASE u # x
    <3>1. run'[u].pc \in Ended /\ latest' # u BY <1>4, <2>2
    <3>2. Forward(u)' BY <3>1 DEF Forward, Ended, AfterLink, AfterStart, Halted
    <3>3. Untouched(u)'
      BY <3>1 DEF Untouched, Ended, Snapped, AfterLink, Restoring
    <3>4. Back(u)' BY <3>1 DEF Back, Ended, Restoring, Restored
    <3>5. QED BY <3>2, <3>3, <3>4
  <2>3. QED BY <2>1, <2>2
<1>6. ASSUME NEW u \in Update \ disturbed PROVE Installed(u)'
  <2>1. CASE u = x
    <3>1. SUFFICES ASSUME run'[x].pc = "done"
                   PROVE  Floor(run[x].target)' /\ AtWork' = {}
      BY <2>1 DEF Installed
    <3>2. AtWork \subseteq {x} BY <2>1 DEF ScriptInv, Sole
    <3>3. x \notin AtWork' BY <3>1 DEF AtWork, Ended
    <3>4. QED BY <1>2, <2>1, <3>1, <3>2, <3>3
  <2>2. CASE u # x
    <3>1. run'[u] = run[u] BY <1>4, <2>2
    <3>2. SUFFICES ASSUME run[u].pc = "done"
                   PROVE  /\ Floor(run[u].target)'
                          /\ \A w \in AtWork' : Above(run'[w], run'[u].target)
      BY <3>1 DEF Installed
    <3>3. /\ Floor(run[u].target) /\ run[u].target \in Version
          /\ \A w \in AtWork : Above(run[w], run[u].target)
      BY <3>2 DEF ScriptInv, Installed, UpdateInv, TypeOK, Run
    <3> DEFINE v == run[u].target
    <3>4. v' = v /\ v \in Version BY <3>1, <3>3
    <3> HIDE DEF v
    <3>5. Floor(v) /\ \A w \in AtWork : Above(run[w], v) BY <3>3 DEF v
    <3>6. /\ link' >= v /\ env' >= v /\ db'.schema >= v /\ plane'.version >= v
          /\ run'[x].pc \in Ended \/ Above(run'[x], v)
      BY <1>1, <3>4, <3>5 DEF KeepsFloor, Floor
    <3>7. ASSUME NEW w \in AtWork' PROVE Above(run'[w], v)
      <4>1. CASE w = x BY <3>6, <3>7, <4>1 DEF AtWork
      <4>2. CASE w # x
        BY <1>2, <3>5, <3>7, <4>2 DEF AtWork, OthersStay
      <4>3. QED BY <4>1, <4>2
    <3>8. QED BY <3>1, <3>4, <3>6, <3>7 DEF v, Floor
  <2>3. QED BY <2>1, <2>2
<1>7. QED BY <1>3, <1>5, <1>6 DEF ScriptInv
-----------------------------------------------------------------------------
(* The three ways a command ends its turn.                                 *)
LEMMA ProceedsOn ==
    ASSUME UpdateInv, NEW u \in Update, Proceeds(u)
    PROVE  run'[u].pc = Script[run[u].pc] /\ Remembers(u) /\ OthersStay(u)
BY GoesOn DEF Proceeds, Then

(* The floor holds if what is installed is what it was, or what the script *)
(* remembers.                                                              *)
LEMMA SameFloor ==
    ASSUME ScriptInv, NEW u \in Update, run[u].pc \notin Ended,
           Backups(u),
           \/ link' = link
           \/ link' = run[u].target
           \/ link' = run[u].previous /\ run[u].pc \in Restoring,
           \/ env' = env
           \/ env' = run[u].target
           \/ env' = run[u].env /\ run[u].pc \in Restoring,
           \/ db'.schema >= db.schema
           \/ db'.schema = run[u].snap.schema /\ run[u].pc \in Restoring,
           db'.schema \in Version,
           plane'.version = plane.version \/ plane'.version = env,
           \/ run'[u].pc \in Ended
           \/ run[u].pc \in {"asked", "verify"} /\ run'[u].pc \in {"asked", "verify"}
           \/ /\ run[u].pc \notin {"asked", "verify"}
              /\ run[u].pc \in Snapped \/ run'[u].pc \notin Snapped
    PROVE  KeepsFloor(u)
<1>1. /\ link \in Nat /\ env \in Nat /\ db.schema \in Nat /\ plane.version \in Nat
      /\ run[u].target \in Nat /\ run[u].previous \in Nat /\ run[u].env \in Nat
      /\ run[u].snap.schema \in Nat /\ db'.schema \in Nat
  BY Domains, VersionFacts DEF ScriptInv, Run, Plane, Database
<1> SUFFICES ASSUME NEW v \in Version, Floor(v), Above(run[u], v)
             PROVE  Floor(v)' /\ (run'[u].pc \in Ended \/ Above(run'[u], v))
  BY DEF KeepsFloor
<1>2. v \in Nat BY VersionFacts
<1>3. Floor(v)'
  <2>1. link' >= v
    BY <1>1, <1>2 DEF Floor, Above, Restoring, Snapped
  <2>2. env' >= v
    BY <1>1, <1>2 DEF Floor, Above, Restoring, Snapped
  <2>3. db'.schema >= v
    BY <1>1, <1>2 DEF Floor, Above, Restoring, Snapped
  <2>4. plane'.version >= v
    BY <1>1, <1>2 DEF Floor
  <2>5. QED BY <2>1, <2>2, <2>3, <2>4 DEF Floor
<1>4. run'[u].pc \in Ended \/ Above(run'[u], v)
  BY DEF Above, Backups, Snapped, AfterLink, Restoring
<1>5. QED BY <1>3, <1>4

(* An end that is not the script's own goal leaves nothing to keep.        *)
LEMMA ExitKeeps ==
    ASSUME ScriptInv, UpdateInv', NEW u \in Update, run[u].pc \notin Ended,
           Goes(u, "exited") \/ Goes(u, "refused"),
           UNCHANGED <<link, plane, latest, disturbed>>,
           env' \in {env, run[u].target}
             \cup (IF run[u].pc \in Restoring THEN {run[u].env} ELSE {}),
           db'.schema = db.schema
    PROVE  ScriptInv'
<1>1. UpdateInv BY DEF ScriptInv
<1>2. run'[u].pc \in {"exited", "refused"} /\ Remembers(u) /\ OthersStay(u)
  BY <1>1, GoesOn
<1>3. db'.schema \in Version /\ db.schema \in Nat
  BY <1>1, Domains, VersionFacts DEF Database
<1>4. KeepsFloor(u)
  BY <1>2, <1>3, SameFloor DEF Remembers, Ended
<1>5. Forward(u)' BY <1>2 DEF Forward, AfterLink, AfterStart, Halted
<1>6. Untouched(u)' BY <1>2 DEF Untouched, Snapped, AfterLink, Restoring
<1>7. Back(u)' BY <1>2 DEF Back, Restoring, Restored
<1>8. QED BY <1>2, <1>4, <1>5, <1>6, <1>7, ScriptKeeps

(* The trap: nothing is put back yet, and nothing is lost.                 *)
LEMMA TrapKeeps ==
    ASSUME ScriptInv, UpdateInv', NEW u \in Update,
           run[u].pc \in Snapped \ Restoring,
           Goes(u, "rb_link"),
           UNCHANGED <<link, plane, latest, disturbed>>,
           env' \in {env, run[u].target},
           db'.schema >= db.schema, db'.op = db.op, db'.log = db.log
    PROVE  ScriptInv'
<1>1. UpdateInv BY DEF ScriptInv
<1>2. run'[u].pc = "rb_link" /\ Remembers(u) /\ OthersStay(u)
  BY <1>1, GoesOn
<1>3. db'.schema \in Version
  BY Domains DEF UpdateInv, TypeOK, Database
<1>4. run[u].pc \notin Ended /\ run[u].pc \notin {"asked", "verify"}
  BY DEF Snapped, AfterLink, Restoring, Ended
<1>5. KeepsFloor(u)
  BY <1>2, <1>3, <1>4, SameFloor DEF Remembers
<1>6. Forward(u)' BY <1>2 DEF Forward, AfterLink, AfterStart, Halted
<1>7. u \notin disturbed => Untouched(u)'
  BY <1>2 DEF ScriptInv, Untouched, Remembers, Backups, Restoring
<1>8. Back(u)' BY <1>2 DEF Back, Restoring, Restored
<1>9. QED BY <1>2, <1>4, <1>5, <1>6, <1>7, <1>8, ScriptKeeps
-----------------------------------------------------------------------------
(* The commands of apply-update.                                           *)

(* A mark changes no schema.                                               *)
LEMMA MarkNow ==
    ASSUME UpdateInv, NEW u \in Update, NEW status \in Status
    PROVE  /\ Marked(u, status).schema = db.schema
           /\ Marked(u, status).log = db.log
           /\ \A w \in Update : Marked(u, status).op[w] =
                IF w = u /\ db.op[u] # "none" THEN status ELSE db.op[w]
BY MarkedSchema, MarkedFacts DEF UpdateInv, TypeOK

(* The agent takes the operation or refuses it.                            *)
LEMMA AgentStartsKeeps ==
    ASSUME ScriptInv, UpdateInv', NEW u \in Update, AgentStarts(u)
    PROVE  ScriptInv'
<1>1. /\ run[u].pc = "asked"
      /\ UNCHANGED <<dirs, link, env, db, wal, plane, latest, disturbed>>
  BY DEF AgentStarts
<1>2. run[u].pc \notin Ended /\ UpdateInv BY <1>1 DEF Ended, ScriptInv
<1>3. CASE Goes(u, "refused") BY <1>1, <1>2, <1>3, ExitKeeps
<1>4. CASE Goes(u, "verify")
  <2>1. run'[u].pc = "verify" /\ Remembers(u) /\ OthersStay(u)
    BY <1>2, <1>4, GoesOn
  <2>2. db.schema \in Version /\ db.schema \in Nat
    BY <1>2, Domains, VersionFacts DEF Database
  <2>3. KeepsFloor(u) BY <1>1, <1>2, <2>1, <2>2, SameFloor DEF Remembers
  <2>4. Forward(u)' BY <2>1 DEF Forward, AfterLink, AfterStart, Halted
  <2>5. Untouched(u)' BY <2>1 DEF Untouched, Snapped, AfterLink, Restoring
  <2>6. Back(u)' BY <2>1 DEF Back, Restoring, Restored
  <2>7. QED BY <1>1, <1>2, <2>1, <2>3, <2>4, <2>5, <2>6, ScriptKeeps
<1>5. QED BY <1>3, <1>4 DEF AgentStarts

(* What is to be put back is noted: the link and the units of now.         *)
LEMMA VerifyKeeps ==
    ASSUME ScriptInv, UpdateInv', NEW u \in Update, Verify(u)
    PROVE  ScriptInv'
<1>1. /\ run[u].pc = "verify"
      /\ UNCHANGED <<dirs, link, env, wal, plane, latest, disturbed>>
  BY DEF Verify, At
<1>2. run[u].pc \notin Ended /\ UpdateInv BY <1>1 DEF Ended, ScriptInv
<1>3. db' \in {db, Marked(u, "running")} BY DEF Verify
<1>4. db'.schema = db.schema BY <1>2, <1>3, MarkNow DEF Status
<1>5. CASE Exits(u) BY <1>1, <1>2, <1>4, <1>5, ExitKeeps DEF Exits
<1>6. CASE run' = [run EXCEPT ![u].pc = Then["verify"], ![u].previous = link,
                              ![u].env = env]
  <2> DEFINE r == [run[u] EXCEPT !.pc = "stage", !.previous = link, !.env = env]
  <2>1. run' = [run EXCEPT ![u] = r] BY <1>6 DEF Then, Script
  <2>2. /\ r.pc = "stage" /\ r.previous = link /\ r.env = env
        /\ r.target = run[u].target
    BY <1>2, Domains DEF Run
  <2> HIDE DEF r
  <2>3. run \in [Update -> Run] BY <1>2 DEF UpdateInv, TypeOK
  <2>4. run'[u] = r /\ OthersStay(u) BY <2>1, <2>3 DEF OthersStay
  <2>5. KeepsFloor(u)
    BY <1>1, <1>4, <2>2, <2>4
       DEF KeepsFloor, Floor, Above, Snapped, AfterLink, Restoring
  <2>6. Forward(u)' BY <2>2, <2>4 DEF Forward, AfterLink, AfterStart, Halted
  <2>7. Untouched(u)' BY <2>2, <2>4 DEF Untouched, Snapped, AfterLink, Restoring
  <2>8. Back(u)' BY <2>2, <2>4 DEF Back, Restoring, Restored
  <2>9. run'[u].pc # "done" BY <2>2, <2>4
  <2>10. QED
    BY <1>1, <1>2, <2>4, <2>5, <2>6, <2>7, <2>8, <2>9, ScriptKeeps
<1>7. QED BY <1>5, <1>6 DEF Verify

(* The release is staged or refused.                                       *)
LEMMA StageKeeps ==
    ASSUME ScriptInv, UpdateInv', NEW u \in Update, Stage(u)
    PROVE  ScriptInv'
<1>1. run[u].pc = "stage" /\ UNCHANGED <<link, env, wal, plane, latest, disturbed>>
  BY DEF Stage, At
<1>2. run[u].pc \notin Ended /\ UpdateInv BY <1>1 DEF Ended, ScriptInv
<1>3. db' \in {db, Marked(u, "running")} BY DEF Stage
<1>4. db'.schema = db.schema BY <1>2, <1>3, MarkNow DEF Status
<1>5. CASE Goes(u, "exited") BY <1>1, <1>2, <1>4, <1>5, ExitKeeps
<1>6. CASE Proceeds(u)
  <2>1. run'[u].pc = "stop" /\ Remembers(u) /\ OthersStay(u)
    BY <1>1, <1>2, <1>6, ProceedsOn DEF Script
  <2>2. db'.schema \in Version /\ db.schema \in Nat
    BY <1>2, <1>4, Domains, VersionFacts DEF Database
  <2>3. KeepsFloor(u)
    BY <1>1, <1>2, <1>4, <2>1, <2>2, SameFloor
       DEF Remembers, Snapped, AfterLink, Restoring
  <2>4. Forward(u)' BY <2>1 DEF Forward, AfterLink, AfterStart, Halted
  <2>5. Untouched(u)' BY <2>1 DEF Untouched, Snapped, AfterLink, Restoring
  <2>6. Back(u)' BY <2>1 DEF Back, Restoring, Restored
  <2>7. QED BY <1>1, <1>2, <2>1, <2>3, <2>4, <2>5, <2>6, ScriptKeeps
<1>7. QED BY <1>5, <1>6 DEF Stage, Exits

(* From here on the control plane is down until a script starts it.        *)
LEMMA StopKeeps ==
    ASSUME ScriptInv, UpdateInv', NEW u \in Update, Stop(u)
    PROVE  ScriptInv'
<1>1. run[u].pc = "stop" /\ UNCHANGED <<dirs, link, env, db, latest, disturbed>>
  BY DEF Stop, At
<1>2. run[u].pc \notin Ended /\ UpdateInv BY <1>1 DEF Ended, ScriptInv
<1>3. CASE Exits(u) /\ UNCHANGED <<plane, wal>>
  BY <1>1, <1>2, <1>3, ExitKeeps DEF Exits
<1>4. CASE Proceeds(u) /\ plane' = [plane EXCEPT !.state = "stopped", !.waiting = {}]
  <2>1. run'[u].pc = "snapshot" /\ Remembers(u) /\ OthersStay(u)
    BY <1>1, <1>2, <1>4, ProceedsOn DEF Script
  <2>2. db'.schema \in Version /\ db.schema \in Nat /\ db' = db
    BY <1>1, <1>2, Domains, VersionFacts DEF Database
  <2>3. plane'.state = "stopped" /\ plane'.version = plane.version
    BY <1>2, <1>4, Domains DEF Plane
  <2>4. KeepsFloor(u)
    BY <1>1, <1>2, <2>1, <2>2, <2>3, SameFloor
       DEF Remembers, Snapped, AfterLink, Restoring
  <2>5. Forward(u)' BY <2>1, <2>3 DEF Forward, AfterLink, AfterStart, Halted
  <2>6. Untouched(u)' BY <2>1 DEF Untouched, Snapped, AfterLink, Restoring
  <2>7. Back(u)' BY <2>1 DEF Back, Restoring, Restored
  <2>8. QED BY <1>1, <1>2, <2>1, <2>4, <2>5, <2>6, <2>7, ScriptKeeps
<1>5. QED BY <1>3, <1>4 DEF Stop

(* The snapshot is what everything is compared with until the start.       *)
LEMMA SnapshotKeeps ==
    ASSUME ScriptInv, UpdateInv', NEW u \in Update, Snapshot(u)
    PROVE  ScriptInv'
<1>1. run[u].pc = "snapshot" /\ UNCHANGED <<dirs, link, env, wal, plane, latest, disturbed>>
  BY DEF Snapshot, At
<1>2. run[u].pc \notin Ended /\ UpdateInv BY <1>1 DEF Ended, ScriptInv
<1>3. CASE Exits(u) /\ UNCHANGED db
  BY <1>1, <1>2, <1>3, ExitKeeps DEF Exits
<1>4. CASE /\ run' = [run EXCEPT ![u].pc = Then["snapshot"], ![u].snap = db]
           /\ db' = Marked(u, "running")
  <2> DEFINE r == [run[u] EXCEPT !.pc = "migrate", !.snap = db]
  <2>1. run' = [run EXCEPT ![u] = r] BY <1>4 DEF Then, Script
  <2>2. /\ r.pc = "migrate" /\ r.snap = db /\ r.previous = run[u].previous
        /\ r.target = run[u].target /\ r.env = run[u].env
    BY <1>2, Domains DEF Run
  <2> HIDE DEF r
  <2>3. run \in [Update -> Run] BY <1>2 DEF UpdateInv, TypeOK
  <2>4. run'[u] = r /\ OthersStay(u) BY <2>1, <2>3 DEF OthersStay
  <2>5. /\ db'.schema = db.schema /\ db'.log = db.log
        /\ \A w \in Update : db'.op[w] =
             IF w = u /\ db.op[u] # "none" THEN "running" ELSE db.op[w]
    BY <1>2, <1>4, MarkNow DEF Status
  <2>6. KeepsFloor(u)
    BY <1>1, <2>2, <2>4, <2>5
       DEF KeepsFloor, Floor, Above, Snapped, AfterLink, Restoring
  <2>7. u \notin disturbed => Forward(u)'
    <3>1. u \notin disturbed => plane.state = "stopped"
      BY <1>1 DEF ScriptInv, Forward, Halted
    <3>2. QED BY <1>1, <2>2, <2>4, <3>1 DEF Forward, AfterLink, AfterStart, Halted
  <2>8. u \notin disturbed => Untouched(u)'
    <3>1. u \notin disturbed => plane.state = "stopped"
      BY <1>1 DEF ScriptInv, Forward, Halted
    <3>2. db'.op[u] \notin Final BY <2>5 DEF Final
    <3>3. QED BY <1>1, <2>2, <2>4, <2>5, <3>1, <3>2 DEF Untouched
  <2>9. Back(u)' BY <2>2, <2>4 DEF Back, Restoring, Restored
  <2>10. run'[u].pc # "done" BY <2>2, <2>4
  <2>11. QED
    BY <1>1, <1>2, <2>4, <2>6, <2>7, <2>8, <2>9, <2>10, ScriptKeeps
<1>5. QED BY <1>3, <1>4 DEF Snapshot
(* A migration that fails half way leaves a schema that only grew.         *)
LEMMA MigrateKeeps ==
    ASSUME ScriptInv, UpdateInv', NEW u \in Update, Migrate(u)
    PROVE  ScriptInv'
<1>1. run[u].pc = "migrate" /\ UNCHANGED <<dirs, link, env, plane, latest, disturbed>>
  BY DEF Migrate, At
<1>2. run[u].pc \notin Ended /\ UpdateInv BY <1>1 DEF Ended, ScriptInv
<1>3. db \in Database /\ db.schema \in Nat /\ run[u].target \in Version
  BY <1>2, Domains, VersionFacts DEF Database
<1>4. ASSUME NEW v \in Version
      PROVE  /\ Migrated(db, v).schema >= db.schema /\ Migrated(db, v).schema >= v
             /\ Migrated(db, v).log = db.log /\ Migrated(db, v).op = db.op
  BY <1>3, MigratedFacts, VersionFacts DEF Migrated, Database
<1>5. CASE Proceeds(u) /\ db' = Migrated(db, run[u].target)
  <2>1. run'[u].pc = "link" /\ Remembers(u) /\ OthersStay(u)
    BY <1>1, <1>2, <1>5, ProceedsOn DEF Script
  <2>2. /\ db'.schema >= db.schema /\ db'.schema >= run[u].target
        /\ db'.log = db.log /\ db'.op = db.op
    BY <1>3, <1>4, <1>5
  <2>3. db'.schema \in Version BY Domains DEF UpdateInv, TypeOK, Database
  <2>4. KeepsFloor(u)
    BY <1>1, <1>2, <2>1, <2>2, <2>3, SameFloor
       DEF Remembers, Snapped, AfterLink, Restoring
  <2>5. u \notin disturbed => plane.state = "stopped"
    BY <1>1 DEF ScriptInv, Forward, Halted
  <2>6. u \notin disturbed => Forward(u)'
    BY <1>1, <2>1, <2>2, <2>5
       DEF Forward, AfterLink, AfterStart, Halted, Remembers, Backups
  <2>7. u \notin disturbed => Untouched(u)'
    BY <1>1, <2>1, <2>2 DEF ScriptInv, Untouched, Snapped, AfterLink, Restoring,
                            Remembers, Backups
  <2>8. Back(u)' BY <2>1 DEF Back, Restoring, Restored
  <2>9. QED BY <1>1, <1>2, <2>1, <2>4, <2>6, <2>7, <2>8, ScriptKeeps
<1>6. CASE /\ RollsBack(u)
           /\ db' \in {db} \cup {Migrated(db, v) : v \in 1..run[u].target}
  <2>1. \A v \in 1..run[u].target : v \in Version
    BY <1>3, UpdateAssumption DEF Version
  <2>2. db'.schema >= db.schema /\ db'.log = db.log /\ db'.op = db.op
    <3>1. CASE db' = db BY <1>3, <3>1
    <3>2. CASE db' # db
      <4>1. PICK v \in 1..run[u].target : db' = Migrated(db, v) BY <1>6, <3>2
      <4>2. QED BY <1>4, <2>1, <4>1
    <3>3. QED BY <3>1, <3>2
  <2>3. run[u].pc \in Snapped \ Restoring
    BY <1>1 DEF Snapped, AfterLink, Restoring
  <2>4. QED BY <1>1, <1>6, <2>2, <2>3, TrapKeeps DEF RollsBack
<1>7. QED BY <1>5, <1>6 DEF Migrate

(* A command between the migration and the start, or one that puts back a  *)
(* file, moves link or units and touches no database.                      *)
LEMMA FileForward ==
    ASSUME ScriptInv, UpdateInv', NEW u \in Update,
           Link(u) \/ Units(u) \/ Agent(u)
    PROVE  ScriptInv'
<1>1. /\ run[u].pc \in {"link", "units", "agent"}
      /\ UNCHANGED <<dirs, db, wal, plane, latest, disturbed>>
  BY DEF Link, Units, Agent, At
<1>2. run[u].pc \notin Ended /\ UpdateInv BY <1>1 DEF Ended, ScriptInv
<1>3. run[u].pc \in Snapped \ Restoring
  BY <1>1 DEF Snapped, AfterLink, Restoring
<1>4. db.schema \in Nat /\ db.schema \in Version
  BY <1>2, Domains, VersionFacts DEF Database
<1>5. CASE RollsBack(u)
  <2>1. link' = link /\ env' \in {env, run[u].target}
    <3>1. run'[u].pc = "rb_link" BY <1>2, <1>5, GoesOn DEF RollsBack
    <3>2. Proceeds(u) => run'[u].pc # "rb_link"
      BY <1>1, <1>2, ProceedsOn DEF Script
    <3>3. QED BY <3>1, <3>2 DEF Link, Units, Agent
  <2>2. db'.schema >= db.schema BY <1>1, <1>4
  <2>3. QED BY <1>1, <1>3, <1>5, <2>1, <2>2, TrapKeeps DEF RollsBack
<1>6. CASE Proceeds(u)
  <2>1. run'[u].pc = Script[run[u].pc] /\ Remembers(u) /\ OthersStay(u)
    BY <1>2, <1>6, ProceedsOn
  <2>2. /\ run[u].pc = "link" =>
             link' = run[u].target /\ env' = env /\ run'[u].pc = "units"
        /\ run[u].pc = "units" =>
             link' = link /\ env' = run[u].target /\ run'[u].pc = "mark75"
        /\ run[u].pc = "agent" =>
             link' = link /\ env' = env /\ run'[u].pc = "start"
    <3>1. run'[u].pc # "rb_link" BY <1>1, <2>1 DEF Script
    <3>2. ~RollsBack(u) BY <1>2, <3>1, GoesOn DEF RollsBack
    <3>3. Link(u) \/ Units(u) \/ Agent(u) OBVIOUS
    <3>4. Link(u) => run[u].pc = "link" /\ link' = run[u].target /\ env' = env
      BY <3>2 DEF Link, At
    <3>5. Units(u) => run[u].pc = "units" /\ link' = link /\ env' = run[u].target
      BY <3>2 DEF Units, At
    <3>6. Agent(u) => run[u].pc = "agent" /\ link' = link /\ env' = env
      BY DEF Agent, At
    <3>7. QED BY <2>1, <3>3, <3>4, <3>5, <3>6 DEF Script
  <2>3. KeepsFloor(u)
    BY <1>1, <1>2, <1>3, <1>4, <2>1, <2>2, SameFloor DEF Remembers
  <2>4. u \notin disturbed =>
          /\ plane.state = "stopped" /\ db.schema >= run[u].target
          /\ run[u].pc # "link" => link = run[u].target
          /\ run[u].pc = "agent" => env = run[u].target
    BY <1>1 DEF ScriptInv, Forward, Halted, AfterLink
  <2>5. u \notin disturbed => Forward(u)'
    BY <1>1, <2>1, <2>2, <2>4
       DEF Forward, AfterLink, AfterStart, Halted, Remembers, Backups
  <2>6. u \notin disturbed => Untouched(u)'
    BY <1>1, <2>1, <2>2 DEF ScriptInv, Untouched, Snapped, AfterLink, Restoring,
                            Remembers, Backups
  <2>7. run'[u].pc \in {"units", "mark75", "start"} BY <1>1, <2>2
  <2>8. Back(u)' BY <2>7 DEF Back, Restoring, Restored
  <2>9. QED BY <1>1, <1>2, <2>1, <2>3, <2>5, <2>6, <2>7, <2>8, ScriptKeeps
<1>7. QED BY <1>5, <1>6 DEF Link, Units, Agent

(* A mark fails outside the trap.                                          *)
LEMMA MarkProgressKeeps ==
    ASSUME ScriptInv, UpdateInv', NEW u \in Update, MarkProgress(u)
    PROVE  ScriptInv'
<1>1. /\ run[u].pc \in {"mark75", "mark90"}
      /\ UNCHANGED <<dirs, link, env, wal, plane, latest, disturbed>>
  BY DEF MarkProgress, At
<1>2. run[u].pc \notin Ended /\ UpdateInv BY <1>1 DEF Ended, ScriptInv
<1>3. CASE Exits(u) /\ UNCHANGED db
  BY <1>1, <1>2, <1>3, ExitKeeps DEF Exits
<1>4. CASE Proceeds(u) /\ db' = Marked(u, "running")
  <2>1. run'[u].pc = Script[run[u].pc] /\ Remembers(u) /\ OthersStay(u)
    BY <1>2, <1>4, ProceedsOn
  <2>2. /\ db'.schema = db.schema /\ db'.log = db.log
        /\ \A w \in Update : db'.op[w] =
             IF w = u /\ db.op[u] # "none" THEN "running" ELSE db.op[w]
    BY <1>2, <1>4, MarkNow DEF Status
  <2>3. db'.schema \in Version /\ db.schema \in Nat
    BY <1>2, <2>2, Domains, VersionFacts DEF Database
  <2>4. KeepsFloor(u)
    BY <1>1, <1>2, <2>1, <2>2, <2>3, SameFloor DEF Remembers, Snapped, AfterLink
  <2>5. /\ run[u].pc = "mark75" => run'[u].pc = "agent"
        /\ run[u].pc = "mark90" => run'[u].pc = "ready"
    BY <2>1 DEF Script
  <2>6. u \notin disturbed => Forward(u)'
    BY <1>1, <2>1, <2>2, <2>5
       DEF ScriptInv, Forward, AfterLink, AfterStart, Halted, Remembers, Backups
  <2>7. u \notin disturbed => Untouched(u)'
    <3>1. db'.op[u] \in Final => db.op[u] \in Final BY <2>2 DEF Final
    <3>2. QED BY <1>1, <2>1, <2>2, <2>5, <3>1
               DEF ScriptInv, Untouched, Snapped, AfterLink, Restoring,
                   Remembers, Backups
  <2>8. Back(u)' BY <1>1, <2>5 DEF Back, Restoring, Restored
  <2>9. QED
    BY <1>1, <1>2, <2>1, <2>4, <2>5, <2>6, <2>7, <2>8, ScriptKeeps
<1>5. QED BY <1>3, <1>4 DEF MarkProgress

(* The release is started, of the units and the link that were installed.  *)
LEMMA StartKeeps ==
    ASSUME ScriptInv, UpdateInv', NEW u \in Update, Start(u)
    PROVE  ScriptInv'
<1>1. run[u].pc = "start" /\ UNCHANGED <<dirs, link, env, latest, disturbed>>
  BY DEF Start, At
<1>2. run[u].pc \notin Ended /\ UpdateInv BY <1>1 DEF Ended, ScriptInv
<1>3. run[u].pc \in Snapped \ Restoring
  BY <1>1 DEF Snapped, AfterLink, Restoring
<1>4. /\ db \in Database /\ db.schema \in Nat /\ link \in Version /\ link \in Nat
      /\ run[u].target \in Nat
  BY <1>2, Domains, VersionFacts DEF Database
<1>5. CASE RollsBack(u) /\ UNCHANGED <<db, wal, plane>>
  BY <1>1, <1>3, <1>4, <1>5, TrapKeeps DEF RollsBack
<1>6. CASE /\ run' = [run EXCEPT ![u].pc = Then["start"], ![u].started = TRUE]
           /\ IF Answers THEN UNCHANGED <<db, wal, plane>> ELSE PlaneStarts
  <2> DEFINE r == [run[u] EXCEPT !.pc = "mark90", !.started = TRUE]
  <2>1. run' = [run EXCEPT ![u] = r] BY <1>6 DEF Then, Script
  <2>2. /\ r.pc = "mark90" /\ r.snap = run[u].snap /\ r.previous = run[u].previous
        /\ r.target = run[u].target /\ r.env = run[u].env
    BY <1>2, Domains DEF Run
  <2>3. r.started = TRUE BY <1>2, Domains DEF Run
  <2> HIDE DEF r
  <2>4. run \in [Update -> Run] BY <1>2 DEF UpdateInv, TypeOK
  <2>5. run'[u] = r /\ OthersStay(u) BY <2>1, <2>4 DEF OthersStay
  <2>6. Backups(u) BY <2>2, <2>5 DEF Backups
  <2>7. /\ db'.schema >= db.schema
        /\ plane'.version = plane.version \/ plane'.version = env
    <3>1. CASE Answers BY <1>4, <1>6, <3>1
    <3>2. CASE ~Answers
      <4>1. plane'.version = env /\ db'.schema = Migrated(db, link).schema
        BY <1>2, <1>6, <3>2, PlaneStartSchema
      <4>2. Migrated(db, link).schema = IF db.schema < link THEN link ELSE db.schema
        BY <1>4 DEF Migrated, Database
      <4>3. QED BY <1>4, <4>1, <4>2
    <3>3. QED BY <3>1, <3>2
  <2>8. db'.schema \in Version /\ db'.schema \in Nat
    BY VersionFacts DEF UpdateInv, TypeOK, Database
  <2>9. KeepsFloor(u)
    BY <1>1, <1>2, <1>3, <2>2, <2>5, <2>6, <2>7, <2>8, SameFloor
  <2>10. u \notin disturbed => Forward(u)'
    <3> SUFFICES ASSUME u \notin disturbed PROVE Forward(u)'
      OBVIOUS
    <3>1. /\ link = run[u].target /\ env = run[u].target
          /\ db.schema >= run[u].target /\ plane.state = "stopped"
      BY <1>1 DEF ScriptInv, Forward, AfterLink, Halted
    <3>2. plane'.version = env
      BY <1>2, <1>6, <3>1, PlaneStartSchema DEF Answers
    <3>3. db'.schema >= run[u].target BY <1>4, <2>7, <2>8, <3>1
    <3>4. QED
      BY <1>1, <2>2, <2>3, <2>5, <3>1, <3>2, <3>3
         DEF Forward, AfterLink, AfterStart, Halted
  <2>11. Untouched(u)' BY <2>3, <2>5 DEF Untouched
  <2>12. Back(u)' BY <2>2, <2>5 DEF Back, Restoring, Restored
  <2>13. run'[u].pc # "done" BY <2>2, <2>5
  <2>14. QED
    BY <1>1, <1>2, <2>5, <2>9, <2>10, <2>11, <2>12, <2>13, ScriptKeeps
<1>7. QED BY <1>5, <1>6 DEF Start

(* The release is ready, or everything is put back.                        *)
LEMMA ReadyKeeps ==
    ASSUME ScriptInv, UpdateInv', NEW u \in Update, Ready(u)
    PROVE  ScriptInv'
<1>1. /\ run[u].pc = "ready"
      /\ UNCHANGED <<dirs, link, env, db, wal, plane, latest, disturbed>>
  BY DEF Ready, At
<1>2. run[u].pc \notin Ended /\ UpdateInv BY <1>1 DEF Ended, ScriptInv
<1>3. run[u].pc \in Snapped \ Restoring
  BY <1>1 DEF Snapped, AfterLink, Restoring
<1>4. db.schema \in Nat /\ db.schema \in Version
  BY <1>2, Domains, VersionFacts DEF Database
<1>5. CASE Goes(u, "rb_link") BY <1>1, <1>3, <1>4, <1>5, TrapKeeps
<1>6. CASE Proceeds(u)
  <2>1. run'[u].pc = "complete" /\ Remembers(u) /\ OthersStay(u)
    BY <1>1, <1>2, <1>6, ProceedsOn DEF Script
  <2>2. KeepsFloor(u)
    BY <1>1, <1>2, <1>3, <1>4, <2>1, SameFloor DEF Remembers
  <2>3. u \notin disturbed => Forward(u)'
    BY <1>1, <2>1
       DEF ScriptInv, Forward, AfterLink, AfterStart, Halted, Remembers, Backups
  <2>4. u \notin disturbed => Untouched(u)'
    BY <1>1, <2>1 DEF ScriptInv, Forward, Untouched, AfterStart, Remembers
  <2>5. Back(u)' BY <2>1 DEF Back, Restoring, Restored
  <2>6. QED BY <1>1, <1>2, <2>1, <2>2, <2>3, <2>4, <2>5, ScriptKeeps
<1>7. QED BY <1>5, <1>6 DEF Ready, RollsBack

(* Only what is installed and runs is completed.                           *)
LEMMA CompleteKeeps ==
    ASSUME ScriptInv, UpdateInv', NEW u \in Update, Complete(u)
    PROVE  ScriptInv'
<1>1. /\ run[u].pc = "complete"
      /\ UNCHANGED <<dirs, link, env, wal, plane, latest, disturbed>>
  BY DEF Complete, At
<1>2. run[u].pc \notin Ended /\ UpdateInv BY <1>1 DEF Ended, ScriptInv
<1>3. CASE Exits(u) /\ UNCHANGED db
  BY <1>1, <1>2, <1>3, ExitKeeps DEF Exits
<1>4. CASE Proceeds(u) /\ db' = Marked(u, "completed")
  <2>1. run'[u].pc = "done" /\ Remembers(u) /\ OthersStay(u)
    BY <1>1, <1>2, <1>4, ProceedsOn DEF Script
  <2>2. db'.schema = db.schema
    BY <1>2, <1>4, MarkNow DEF Status, Final
  <2>3. db'.schema \in Version /\ db.schema \in Nat /\ run[u].target \in Nat
    BY <1>2, <2>2, Domains, VersionFacts DEF Database
  <2>4. KeepsFloor(u)
    BY <1>1, <1>2, <2>1, <2>2, <2>3, SameFloor DEF Remembers, Ended
  <2>5. u \notin disturbed =>
          /\ link = run[u].target /\ env = run[u].target
          /\ db.schema >= run[u].target /\ plane.version = run[u].target
    BY <1>1 DEF ScriptInv, Forward, AfterLink, AfterStart
  <2>6. u \notin disturbed => Floor(run[u].target)'
    BY <1>1, <2>1, <2>2, <2>3, <2>5 DEF Floor, Remembers, Backups
  <2>7. Forward(u)' BY <2>1 DEF Forward, AfterLink, AfterStart, Halted
  <2>8. Untouched(u)' BY <2>1 DEF Untouched, Snapped, AfterLink, Restoring
  <2>9. Back(u)' BY <2>1 DEF Back, Restoring, Restored
  <2>10. QED
    BY <1>1, <1>2, <2>1, <2>4, <2>6, <2>7, <2>8, <2>9, ScriptKeeps
<1>5. QED BY <1>3, <1>4 DEF Complete
-----------------------------------------------------------------------------
(* The commands of rollback().                                             *)

(* Link and units are put back; a failure ends the script half way.        *)
LEMMA RbFileKeeps ==
    ASSUME ScriptInv, UpdateInv', NEW u \in Update, RbLink(u) \/ RbUnits(u)
    PROVE  ScriptInv'
<1>1. /\ run[u].pc \in {"rb_link", "rb_units"}
      /\ UNCHANGED <<dirs, db, wal, plane, latest, disturbed>>
  BY DEF RbLink, RbUnits, At
<1>2. run[u].pc \notin Ended /\ UpdateInv BY <1>1 DEF Ended, ScriptInv
<1>3. run[u].pc \in Snapped /\ run[u].pc \in Restoring
  BY <1>1 DEF Snapped, Restoring
<1>4. db.schema \in Nat /\ db.schema \in Version
  BY <1>2, Domains, VersionFacts DEF Database
<1>5. CASE Exits(u)
  <2>1. run'[u].pc = "exited" BY <1>2, <1>5, GoesOn DEF Exits
  <2>2. ~Proceeds(u)
    <3>1. Proceeds(u) => run'[u].pc # "exited"
      BY <1>1, <1>2, ProceedsOn DEF Script
    <3>2. QED BY <2>1, <3>1
  <2>3. link' = link /\ env' \in {env, run[u].env}
    BY <2>2 DEF RbLink, RbUnits
  <2>4. QED BY <1>1, <1>2, <1>3, <1>5, <2>3, ExitKeeps DEF Exits
<1>6. CASE Proceeds(u)
  <2>1. run'[u].pc = Script[run[u].pc] /\ Remembers(u) /\ OthersStay(u)
    BY <1>2, <1>6, ProceedsOn
  <2>2. run'[u].pc # "exited" BY <1>1, <2>1 DEF Script
  <2>3. ~Exits(u) BY <1>2, <2>2, GoesOn DEF Exits
  <2>4. /\ run[u].pc = "rb_link" =>
             link' = run[u].previous /\ env' = env /\ run'[u].pc = "rb_db"
        /\ run[u].pc = "rb_units" =>
             link' = link /\ env' = run[u].env /\ run'[u].pc = "rb_mark"
    <3>1. RbLink(u) => run[u].pc = "rb_link" /\ link' = run[u].previous /\ env' = env
      BY <2>3 DEF RbLink, At
    <3>2. RbUnits(u) => run[u].pc = "rb_units" /\ link' = link /\ env' = run[u].env
      BY <2>3 DEF RbUnits, At
    <3>3. QED BY <2>1, <3>1, <3>2 DEF Script
  <2>5. KeepsFloor(u)
    BY <1>1, <1>2, <1>3, <1>4, <2>1, <2>4, SameFloor DEF Remembers
  <2>6. run'[u].pc \in {"rb_db", "rb_mark"} BY <1>1, <2>4
  <2>7. Forward(u)' BY <2>6 DEF Forward, AfterLink, AfterStart, Halted
  <2>8. u \notin disturbed => Untouched(u)'
    BY <1>1, <2>1, <2>4
       DEF ScriptInv, Untouched, Snapped, Restoring, Remembers, Backups
  <2>9. u \notin disturbed => Back(u)'
    <3> SUFFICES ASSUME u \notin disturbed PROVE Back(u)'
      OBVIOUS
    <3>1. Back(u) BY DEF ScriptInv
    <3>2. SchemaBack(u)' = SchemaBack(u)
      BY <2>1 DEF SchemaBack, Migrated, Remembers, Backups
    <3>3. CASE run[u].pc = "rb_link"
      BY <2>1, <2>4, <3>3 DEF Back, Restored, Restoring, Remembers, Backups
    <3>4. CASE run[u].pc = "rb_units"
      BY <1>1, <2>1, <2>4, <3>1, <3>2, <3>4
         DEF Back, Restored, Restoring, Remembers, Backups
    <3>5. QED BY <1>1, <3>3, <3>4
  <2>10. QED
    BY <1>1, <1>2, <2>1, <2>5, <2>6, <2>7, <2>8, <2>9, ScriptKeeps
<1>7. QED BY <1>5, <1>6 DEF RbLink, RbUnits

(* The snapshot is put back, or the database stays under its own log.      *)
LEMMA RbDbKeeps ==
    ASSUME ScriptInv, UpdateInv', NEW u \in Update, RbDb(u)
    PROVE  ScriptInv'
<1>1. run[u].pc = "rb_db" /\ UNCHANGED <<dirs, link, env, wal, latest, disturbed>>
  BY DEF RbDb, At
<1>2. run[u].pc \notin Ended /\ UpdateInv BY <1>1 DEF Ended, ScriptInv
<1>3. run[u].pc \in Snapped /\ run[u].pc \in Restoring
  BY <1>1 DEF Snapped, Restoring
<1>4. /\ db.schema \in Nat /\ db.schema \in Version
      /\ run[u].snap.schema \in Version
  BY <1>2, Domains, VersionFacts DEF Database, Run
<1>5. CASE Exits(u) /\ UNCHANGED <<db, plane>>
  BY <1>1, <1>2, <1>5, ExitKeeps DEF Exits
<1>6. CASE /\ db' \in {run[u].snap} \cup (IF wal THEN {db} ELSE {})
           /\ plane' = [plane EXCEPT !.state = IF Up THEN "orphan" ELSE @]
           /\ run' = [run EXCEPT ![u].pc = Then["rb_db"], ![u].dirty = wal]
  <2> DEFINE r == [run[u] EXCEPT !.pc = "rb_units", !.dirty = wal]
  <2>1. run' = [run EXCEPT ![u] = r] BY <1>6 DEF Then, Script
  <2>2. /\ r.pc = "rb_units" /\ r.snap = run[u].snap /\ r.previous = run[u].previous
        /\ r.target = run[u].target /\ r.env = run[u].env
    BY <1>2, Domains DEF Run
  <2>3. r.dirty = wal BY <1>2, Domains DEF Run
  <2> HIDE DEF r
  <2>4. run \in [Update -> Run] BY <1>2 DEF UpdateInv, TypeOK
  <2>5. run'[u] = r /\ OthersStay(u) BY <2>1, <2>4 DEF OthersStay
  <2>6. Backups(u) BY <2>2, <2>5 DEF Backups
  <2>7. plane'.version = plane.version BY <1>2, <1>6, Domains DEF Plane
  <2>8. db'.schema = db.schema \/ db'.schema = run[u].snap.schema BY <1>6
  <2>9. KeepsFloor(u)
    BY <1>1, <1>2, <1>3, <1>4, <2>2, <2>5, <2>6, <2>7, <2>8, SameFloor
  <2>10. run'[u].pc = "rb_units" BY <2>2, <2>5
  <2>11. Forward(u)' BY <2>10 DEF Forward, AfterLink, AfterStart, Halted
  <2>12. Untouched(u)' BY <2>10 DEF Untouched
  <2>13. u \notin disturbed => Back(u)'
    <3> SUFFICES ASSUME u \notin disturbed PROVE Back(u)'
      OBVIOUS
    <3>1. link = run[u].previous
      BY <1>1 DEF ScriptInv, Back, Restoring
    <3>2. link' = run'[u].previous BY <1>1, <2>6, <3>1 DEF Backups
    <3>3. ~run'[u].dirty => db' = run[u].snap BY <1>6, <2>3, <2>5
    <3>4. ~run'[u].dirty => db'.schema = run'[u].snap.schema
      BY <2>6, <3>3 DEF Backups
    <3>5. QED BY <2>10, <3>2, <3>4 DEF Back, Restoring, Restored
  <2>14. QED
    BY <1>1, <1>2, <2>5, <2>9, <2>10, <2>11, <2>12, <2>13, ScriptKeeps
<1>7. QED BY <1>5, <1>6 DEF RbDb

(* The failure is noted or the note is lost; nothing else changes.         *)
LEMMA RbMarkKeeps ==
    ASSUME ScriptInv, UpdateInv', NEW u \in Update, RbMark(u)
    PROVE  ScriptInv'
<1>1. /\ run[u].pc = "rb_mark"
      /\ UNCHANGED <<dirs, link, env, wal, plane, latest, disturbed>>
  BY DEF RbMark, At
<1>2. run[u].pc \notin Ended /\ UpdateInv BY <1>1 DEF Ended, ScriptInv
<1>3. run'[u].pc = "rb_start" /\ Remembers(u) /\ OthersStay(u)
  BY <1>1, <1>2, GoesOn DEF RbMark, Proceeds, Then, Script
<1>4. db'.schema = db.schema
  <2>1. db' \in {db, Marked(u, "failed")} BY DEF RbMark
  <2>2. QED BY <1>2, <2>1, MarkNow DEF Status, Final
<1>5. db'.schema \in Version /\ db.schema \in Nat
  BY <1>2, <1>4, Domains, VersionFacts DEF Database
<1>6. KeepsFloor(u)
  BY <1>1, <1>2, <1>3, <1>4, <1>5, SameFloor DEF Remembers, Snapped, Restoring
<1>7. Forward(u)' BY <1>3 DEF Forward, AfterLink, AfterStart, Halted
<1>8. Untouched(u)' BY <1>3 DEF Untouched
<1>9. SchemaBack(u)' = SchemaBack(u)
  BY <1>3 DEF SchemaBack, Migrated, Remembers, Backups
<1>10. u \notin disturbed => Back(u)'
  BY <1>1, <1>3, <1>4, <1>9
     DEF ScriptInv, Back, Restoring, Restored, Remembers, Backups
<1>11. QED BY <1>1, <1>2, <1>3, <1>6, <1>7, <1>8, <1>10, ScriptKeeps

(* The previous release is started and migrates the snapshot itself.       *)
LEMMA RbStartKeeps ==
    ASSUME ScriptInv, UpdateInv', NEW u \in Update, RbStart(u)
    PROVE  ScriptInv'
<1>1. run[u].pc = "rb_start" /\ UNCHANGED <<dirs, link, env, latest, disturbed>>
  BY DEF RbStart, At
<1>2. run[u].pc \notin Ended /\ UpdateInv BY <1>1 DEF Ended, ScriptInv
<1>3. /\ db \in Database /\ db.schema \in Nat /\ link \in Version /\ link \in Nat
      /\ run[u].snap \in Database /\ run[u].snap.schema \in Nat
  BY <1>2, Domains, VersionFacts DEF Database, Run
<1>4. CASE Exits(u) /\ UNCHANGED <<db, wal, plane>>
  BY <1>1, <1>2, <1>4, ExitKeeps DEF Exits
<1>5. CASE Proceeds(u) /\ PlaneStarts
  <2>1. run'[u].pc = "rolledback" /\ Remembers(u) /\ OthersStay(u)
    BY <1>1, <1>2, <1>5, ProceedsOn DEF Script
  <2>2. plane'.version = env /\ db'.schema = Migrated(db, link).schema
    BY <1>2, <1>5, PlaneStartSchema
  <2>3. Migrated(db, link).schema = IF db.schema < link THEN link ELSE db.schema
    BY <1>3 DEF Migrated, Database
  <2>4. db'.schema >= db.schema BY <1>3, <2>2, <2>3
  <2>5. db'.schema \in Version BY Domains DEF UpdateInv, TypeOK, Database
  <2>6. KeepsFloor(u)
    BY <1>1, <1>2, <2>1, <2>2, <2>4, <2>5, SameFloor DEF Remembers, Ended
  <2>7. Forward(u)' BY <2>1 DEF Forward, AfterLink, AfterStart, Halted
  <2>8. Untouched(u)' BY <2>1 DEF Untouched, Snapped, AfterLink, Restoring
  <2>9. u \notin disturbed => Back(u)'
    <3> SUFFICES ASSUME u \notin disturbed PROVE Back(u)'
      OBVIOUS
    <3>1. /\ link = run[u].previous /\ env = run[u].env
          /\ ~run[u].dirty => db.schema \in {run[u].snap.schema, SchemaBack(u)}
      BY <1>1 DEF ScriptInv, Back, Restoring
    <3>2. SchemaBack(u) = IF run[u].snap.schema < link THEN link
                                                       ELSE run[u].snap.schema
      BY <1>3, <3>1 DEF SchemaBack, Migrated, Database
    <3>3. SchemaBack(u)' = SchemaBack(u)
      BY <2>1 DEF SchemaBack, Migrated, Remembers, Backups
    <3>4. ~run[u].dirty => db'.schema = SchemaBack(u)
      BY <1>3, <2>2, <2>3, <3>1, <3>2
    <3>5. QED
      BY <1>1, <2>1, <2>2, <3>1, <3>3, <3>4
         DEF Back, Restoring, Remembers, Backups
  <2>10. QED BY <1>1, <1>2, <2>1, <2>6, <2>7, <2>8, <2>9, ScriptKeeps
<1>6. QED BY <1>4, <1>5 DEF RbStart

-----------------------------------------------------------------------------
(* The control plane and the machine.                                      *)

(* A control plane that was not stopped by a script, whatever it does,     *)
(* disturbs no script: those that were not disturbed have either not       *)
(* reached their snapshot, or have started a release.                      *)
LEMMA PlaneKeeps ==
    ASSUME ScriptInv, UpdateInv', plane.state # "stopped",
           UNCHANGED <<link, env, run, latest, disturbed>>,
           db'.schema \in {db.schema, Migrated(db, link).schema},
           plane'.version \in {plane.version, env}
    PROVE  ScriptInv'
<1>1. /\ db \in Database /\ db.schema \in Nat /\ link \in Nat /\ env \in Nat
      /\ plane.version \in Nat /\ link \in Version
  BY VersionFacts DEF ScriptInv, UpdateInv, TypeOK, Database, Plane
<1>2. Migrated(db, link).schema = IF db.schema < link THEN link ELSE db.schema
  BY <1>1 DEF Migrated, Database
<1>3. db'.schema >= db.schema /\ db'.schema \in Nat BY <1>1, <1>2
<1>4. Sole' BY DEF ScriptInv, Sole, AtWork
<1>5. ASSUME NEW u \in Update \ disturbed
      PROVE  Forward(u)' /\ Untouched(u)' /\ Back(u)' /\ Installed(u)'
  <2>1. Forward(u) /\ Untouched(u) /\ Back(u) /\ Installed(u)
    BY <1>5 DEF ScriptInv
  <2>2. /\ run[u].target \in Nat /\ run[u].previous \in Version
        /\ run[u].snap \in Database /\ run[u].snap.schema \in Nat
        /\ run[u].previous \in Nat
    BY <1>5, Domains, VersionFacts DEF ScriptInv, Run, Database
  <2>3. Forward(u)'
    <3>1. run[u].pc \in AfterStart => env = run[u].target
      BY <2>1 DEF Forward, AfterStart, AfterLink
    <3>2. db.schema >= run[u].target => db'.schema >= run[u].target
      BY <1>1, <1>3, <2>2
    <3>3. QED BY <2>1, <3>1, <3>2 DEF Forward
  <2>4. Untouched(u)' BY <2>1 DEF Untouched
  <2>5. Back(u)'
    <3>1. SchemaBack(u) = IF run[u].snap.schema < run[u].previous
                            THEN run[u].previous ELSE run[u].snap.schema
      BY <2>2 DEF SchemaBack, Migrated, Database
    <3>2. SchemaBack(u)' = SchemaBack(u) BY DEF SchemaBack, Migrated
    <3>3. link = run[u].previous /\ db.schema \in {run[u].snap.schema, SchemaBack(u)} =>
            db'.schema \in {run[u].snap.schema, SchemaBack(u)}
      BY <1>1, <1>2, <2>2, <3>1
    <3>4. link = run[u].previous /\ db.schema = SchemaBack(u) =>
            db'.schema = SchemaBack(u)
      BY <1>1, <1>2, <2>2, <3>1
    <3>5. QED BY <2>1, <3>2, <3>3, <3>4 DEF Back, Restored, Restoring
  <2>6. Installed(u)'
    <3>1. AtWork' = AtWork BY DEF AtWork
    <3>2. Floor(run[u].target) => Floor(run[u].target)'
      BY <1>1, <1>3, <2>2 DEF Floor
    <3>3. QED BY <2>1, <3>1, <3>2 DEF Installed
  <2>7. QED BY <2>3, <2>4, <2>5, <2>6
<1>6. QED BY <1>4, <1>5 DEF ScriptInv

(* The actions of the control plane alone.                                 *)
LEMMA PlaneActionsKeep ==
    ASSUME ScriptInv, UpdateInv',
           \/ \E u \in Update : ExecuteFails(u)
           \/ List \/ PlaneCrashes \/ PlaneRestarts
    PROVE  ScriptInv'
<1>1. db \in Database /\ plane \in Plane /\ UpdateInv
  BY DEF ScriptInv, UpdateInv, TypeOK
<1>2. ASSUME NEW u \in Update, ExecuteFails(u) PROVE ScriptInv'
  <2>1. /\ UNCHANGED <<link, env, run, latest, disturbed>>
        /\ plane.state # "stopped"
        /\ db' = [db EXCEPT !.op[u] = "failed", !.log[u] = @ \cup {"update_failed"}]
        /\ plane' = [plane EXCEPT !.waiting = @ \ {u}]
    BY <1>2 DEF ExecuteFails, Up
  <2>2. db'.schema = db.schema
    <3> DEFINE op == [db.op EXCEPT ![u] = "failed"]
               log == [db.log EXCEPT ![u] = @ \cup {"update_failed"}]
    <3>1. db' = [db EXCEPT !.op = op, !.log = log] BY <2>1
    <3> HIDE DEF op, log
    <3>2. QED BY <1>1, <3>1 DEF Database
  <2>3. plane'.version = plane.version BY <1>1, <2>1 DEF Plane
  <2>4. QED BY <2>1, <2>2, <2>3, PlaneKeeps
<1>3. CASE List
  <2>1. /\ UNCHANGED <<link, env, run, latest, disturbed, plane>>
        /\ plane.state # "stopped"
    BY <1>3 DEF List, Up
  <2>2. PICK stale \in {{}, Pending(db)} : db' = Reconciled(db, stale)
    BY <1>3 DEF List
  <2>3. db'.schema = db.schema BY <1>1, <2>2 DEF Reconciled, Database
  <2>4. QED BY <2>1, <2>3, PlaneKeeps
<1>4. CASE PlaneCrashes
  <2>1. /\ UNCHANGED <<link, env, run, latest, disturbed, db>>
        /\ plane.state # "stopped"
        /\ plane' = [plane EXCEPT !.state = "down", !.waiting = {}]
    BY <1>4 DEF PlaneCrashes, Answers
  <2>2. plane'.version = plane.version BY <1>1, <2>1 DEF Plane
  <2>3. QED BY <2>1, <2>2, PlaneKeeps
<1>5. CASE PlaneRestarts
  <2>1. /\ UNCHANGED <<link, env, run, latest, disturbed>>
        /\ plane.state # "stopped" /\ PlaneStarts
    BY <1>5 DEF PlaneRestarts
  <2>2. plane'.version = env /\ db'.schema = Migrated(db, link).schema
    BY <1>1, <2>1, PlaneStartSchema
  <2>3. QED BY <2>1, <2>2, PlaneKeeps
<1>6. QED BY <1>2, <1>3, <1>4, <1>5

(* A reboot disturbs whatever is at work.                                  *)
LEMMA RebootKeeps == ASSUME ScriptInv, UpdateInv', Reboot PROVE ScriptInv'
<1>1. /\ plane' = [plane EXCEPT !.state = "down", !.waiting = {}]
      /\ run' = [u \in Update |->
                   IF u \in AtWork THEN [run[u] EXCEPT !.pc = "killed"]
                                   ELSE run[u]]
      /\ disturbed' = disturbed \cup AtWork
      /\ UNCHANGED <<dirs, link, env, db, wal, latest>>
  BY DEF Reboot
<1>2. plane'.version = plane.version
  BY <1>1 DEF ScriptInv, UpdateInv, TypeOK, Plane
<1>3. ASSUME NEW u \in Update \ disturbed'
      PROVE  u \notin disturbed /\ run'[u] = run[u] /\ run[u].pc \in Ended
  BY <1>1, <1>3 DEF AtWork
<1>4. AtWork' = {}
  <2>1. ASSUME NEW u \in Update PROVE run'[u].pc \in Ended
    <3>1. CASE u \in AtWork
      <4>1. run'[u] = [run[u] EXCEPT !.pc = "killed"] BY <1>1, <3>1
      <4>2. run[u] \in Run BY DEF ScriptInv, UpdateInv, TypeOK
      <4>3. QED BY <4>1, <4>2 DEF Run, Ended
    <3>2. CASE u \notin AtWork BY <1>1, <3>2 DEF AtWork
    <3>3. QED BY <3>1, <3>2
  <2>2. QED BY <2>1 DEF AtWork
<1>5. Sole' BY <1>3, <1>4 DEF Sole
<1>6. ASSUME NEW u \in Update \ disturbed'
      PROVE  Forward(u)' /\ Untouched(u)' /\ Back(u)' /\ Installed(u)'
  <2>1. Forward(u) /\ Back(u) /\ Installed(u)
    BY <1>3, <1>6 DEF ScriptInv
  <2>2. run'[u] = run[u] /\ run[u].pc \in Ended BY <1>3, <1>6
  <2>3. Forward(u)' BY <2>2 DEF Forward, Ended, AfterLink, AfterStart, Halted
  <2>4. Untouched(u)' BY <2>2 DEF Untouched, Ended, Snapped, AfterLink, Restoring
  <2>5. Back(u)'
    <3>1. SchemaBack(u)' = SchemaBack(u) BY <2>2 DEF SchemaBack, Migrated
    <3>2. QED
      BY <1>1, <1>2, <2>1, <2>2, <3>1 DEF Back, Ended, Restoring, Restored
  <2>6. Installed(u)'
    <3>1. Floor(run[u].target) => Floor(run[u].target)'
      BY <1>1, <1>2, <2>2 DEF Floor
    <3>2. QED BY <1>4, <2>1, <2>2, <3>1 DEF Installed
  <2>7. QED BY <2>3, <2>4, <2>5, <2>6
<1>7. QED BY <1>5, <1>6 DEF ScriptInv

(* A new update disturbs those at work; and it is above all that is        *)
(* installed.                                                              *)
LEMMA ConfirmKeeps ==
    ASSUME ScriptInv, UpdateInv', NEW x \in Update, NEW t \in Version,
           Confirm(x, t)
    PROVE  ScriptInv'
<1>1. /\ run[x].pc = "idle" /\ latest' = x /\ Up /\ t > plane.version
      /\ disturbed' = disturbed \cup (IF AtWork = {} THEN {} ELSE AtWork \cup {x})
      /\ UNCHANGED <<dirs, link, env, wal>>
  BY DEF Confirm
<1>2. db \in Database /\ plane \in Plane /\ UpdateInv /\ run \in [Update -> Run]
  BY DEF ScriptInv, UpdateInv, TypeOK
<1>3. /\ run'[x].pc \in {"asked", "refused"} /\ OthersStay(x)
      /\ run'[x].pc = "asked" => run'[x].target = t
  <2>1. CASE run' = [run EXCEPT ![x].pc = "asked", ![x].target = t]
    <3> DEFINE r == [run[x] EXCEPT !.pc = "asked", !.target = t]
    <3>1. run' = [run EXCEPT ![x] = r] BY <2>1
    <3>2. r.pc = "asked" /\ r.target = t BY <1>2, Domains DEF Run
    <3> HIDE DEF r
    <3>3. QED BY <1>2, <3>1, <3>2 DEF OthersStay
  <2>2. CASE Goes(x, "refused") BY <1>2, <2>2, GoesOn
  <2>3. QED BY <2>1, <2>2 DEF Confirm
<1>4. db'.schema = db.schema
  <2>1. PICK status : db' = [db EXCEPT !.op[x] = status] BY DEF Confirm
  <2> DEFINE op == [db.op EXCEPT ![x] = status]
  <2>2. db' = [db EXCEPT !.op = op] BY <2>1
  <2> HIDE DEF op
  <2>3. QED BY <1>2, <2>2 DEF Database
<1>5. plane'.version = plane.version
  BY <1>2 DEF Confirm, Plane
<1>6. x \notin AtWork BY <1>1 DEF AtWork, Ended
<1>7. AtWork' \subseteq AtWork \cup {x} BY <1>3 DEF AtWork, OthersStay
<1>8. ASSUME NEW u \in Update \ disturbed', u # x
      PROVE  run'[u] = run[u] /\ run[u].pc \in Ended /\ u \notin disturbed
  <2>1. u \notin AtWork BY <1>1, <1>8
  <2>2. QED BY <1>1, <1>3, <1>8, <2>1 DEF OthersStay, AtWork
<1>9. Sole'
  <2> SUFFICES ASSUME NEW u \in Update \ disturbed'
               PROVE  /\ run'[u].pc \notin Ended => latest' = u
                      /\ latest' = u => AtWork' \subseteq {u}
    BY DEF Sole
  <2>1. CASE u = x
    <3>1. AtWork = {} BY <1>1, <2>1
    <3>2. QED BY <1>1, <1>7, <2>1, <3>1
  <2>2. CASE u # x BY <1>1, <1>8, <2>2
  <2>3. QED BY <2>1, <2>2
<1>10. ASSUME NEW u \in Update \ disturbed'
       PROVE  Forward(u)' /\ Untouched(u)' /\ Back(u)' /\ Installed(u)'
  <2>1. run'[u].pc \in Ended \cup {"asked"} BY <1>3, <1>8, <1>10 DEF Ended
  <2>2. Forward(u)' BY <2>1 DEF Forward, Ended, AfterLink, AfterStart, Halted
  <2>3. Untouched(u)' BY <2>1 DEF Untouched, Ended, Snapped, AfterLink, Restoring
  <2>4. Back(u)'
    <3>1. ~Restored(u)' BY <1>1, <1>3 DEF Restored
    <3>2. QED BY <2>1, <3>1 DEF Back, Ended, Restoring
  <2>5. Installed(u)'
    <3>1. CASE u = x BY <1>3, <3>1 DEF Installed
    <3>2. CASE u # x
      <4>1. run'[u] = run[u] /\ u \notin disturbed BY <1>8, <1>10, <3>2
      <4>2. Installed(u) BY <1>10, <4>1 DEF ScriptInv
      <4>3. SUFFICES ASSUME run[u].pc = "done"
                     PROVE  /\ Floor(run[u].target)'
                            /\ \A w \in AtWork' : Above(run'[w], run[u].target)
        BY <4>1 DEF Installed
      <4>4. /\ Floor(run[u].target)
            /\ \A w \in AtWork : Above(run[w], run[u].target)
        BY <4>2, <4>3 DEF Installed
      <4>5. Floor(run[u].target)' BY <1>1, <1>4, <1>5, <4>1, <4>4 DEF Floor
      <4>6. ASSUME x \in AtWork' PROVE Above(run'[x], run[u].target)
        <5>1. run'[x].pc = "asked" /\ run'[x].target = t
          BY <1>3, <4>6 DEF AtWork, Ended
        <5>2. t >= run[u].target
          <6>1. /\ t \in Nat /\ plane.version \in Nat /\ run[u].target \in Nat
            BY <1>2, <1>10, Domains, VersionFacts DEF Plane
          <6>2. QED BY <1>1, <4>4, <6>1 DEF Floor
        <5>3. QED
          BY <5>1, <5>2 DEF Above, Snapped, AfterLink, Restoring
      <4>7. QED
        BY <1>3, <1>7, <4>4, <4>5, <4>6 DEF AtWork, OthersStay
    <3>3. QED BY <3>1, <3>2
  <2>6. QED BY <2>2, <2>3, <2>4, <2>5
<1>11. QED BY <1>9, <1>10 DEF ScriptInv
-----------------------------------------------------------------------------
(* The command of x that a step of its script is.                          *)
LEMMA StepKeeps ==
    ASSUME ScriptInv, UpdateInv', NEW x \in Update, Step(x)
    PROVE  ScriptInv'
<1>1. CASE Verify(x) BY <1>1, VerifyKeeps
<1>2. CASE Stage(x) BY <1>2, StageKeeps
<1>3. CASE Stop(x) BY <1>3, StopKeeps
<1>4. CASE Snapshot(x) BY <1>4, SnapshotKeeps
<1>5. CASE Migrate(x) BY <1>5, MigrateKeeps
<1>6. CASE Link(x) \/ Units(x) \/ Agent(x) BY <1>6, FileForward
<1>7. CASE MarkProgress(x) BY <1>7, MarkProgressKeeps
<1>8. CASE Start(x) BY <1>8, StartKeeps
<1>9. CASE Ready(x) BY <1>9, ReadyKeeps
<1>10. CASE Complete(x) BY <1>10, CompleteKeeps
<1>11. CASE RbLink(x) \/ RbUnits(x) BY <1>11, RbFileKeeps
<1>12. CASE RbDb(x) BY <1>12, RbDbKeeps
<1>13. CASE RbMark(x) BY <1>13, RbMarkKeeps
<1>14. CASE RbStart(x) BY <1>14, RbStartKeeps
<1>15. QED
  BY <1>1, <1>2, <1>3, <1>4, <1>5, <1>6, <1>7, <1>8, <1>9, <1>10, <1>11,
     <1>12, <1>13, <1>14 DEF Step

(* Every step of the system preserves the invariant.                       *)
LEMMA ScriptInductive == ScriptInv /\ [Next]_vars => ScriptInv'
<1> SUFFICES ASSUME ScriptInv, [Next]_vars PROVE ScriptInv'
  OBVIOUS
<1>1. UpdateInv' BY UpdateInductive DEF ScriptInv
<1>2. ASSUME NEW u \in Update, NEW v \in Version, Confirm(u, v) PROVE ScriptInv'
  BY <1>1, <1>2, ConfirmKeeps
<1>3. ASSUME NEW u \in Update, AgentStarts(u) PROVE ScriptInv'
  BY <1>1, <1>3, AgentStartsKeeps
<1>4. ASSUME NEW u \in Update, Step(u) PROVE ScriptInv'
  BY <1>1, <1>4, StepKeeps
<1>5. CASE (\E u \in Update : ExecuteFails(u)) \/ List \/ PlaneCrashes \/ PlaneRestarts
  BY <1>1, <1>5, PlaneActionsKeep
<1>6. CASE Reboot BY <1>1, <1>6, RebootKeeps
<1>7. CASE UNCHANGED vars
  <2>1. Sole' BY <1>7 DEF vars, ScriptInv, Sole, AtWork
  <2>2. ASSUME NEW u \in Update \ disturbed'
        PROVE  Forward(u)' /\ Untouched(u)' /\ Back(u)' /\ Installed(u)'
    <3>1. Forward(u) /\ Untouched(u) /\ Back(u) /\ Installed(u)
      BY <1>7, <2>2 DEF vars, ScriptInv
    <3>2. Forward(u)' BY <1>7, <3>1 DEF vars, Forward
    <3>3. Untouched(u)' BY <1>7, <3>1 DEF vars, Untouched
    <3>4. Back(u)' BY <1>7, <3>1 DEF vars, Back, Restored, SchemaBack, Migrated
    <3>5. Installed(u)' BY <1>7, <3>1 DEF vars, Installed, Floor, AtWork
    <3>6. QED BY <3>2, <3>3, <3>4, <3>5
  <2>3. QED BY <1>1, <2>1, <2>2 DEF ScriptInv
<1>8. QED BY <1>2, <1>3, <1>4, <1>5, <1>6, <1>7 DEF Next

(* No script is at work at first.                                          *)
LEMMA ScriptInitially == Init => ScriptInv
<1> SUFFICES ASSUME Init PROVE ScriptInv
  OBVIOUS
<1>1. UpdateInv BY UpdateInitially
<1>2. \A u \in Update : run[u].pc = "idle" BY DEF Init
<1>3. AtWork = {} BY <1>2 DEF AtWork, Ended
<1>4. latest = NoUpdate BY DEF Init
<1>5. Sole BY <1>2, <1>3 DEF Sole, Ended
<1>6. ASSUME NEW u \in Update
      PROVE  Forward(u) /\ Untouched(u) /\ Back(u) /\ Installed(u)
  <2>1. run[u].pc = "idle" BY <1>2
  <2>2. Forward(u) BY <2>1 DEF Forward, AfterLink, AfterStart, Halted
  <2>3. Untouched(u) BY <2>1 DEF Untouched, Snapped, AfterLink, Restoring
  <2>4. Back(u) BY <2>1 DEF Back, Restoring, Restored
  <2>5. Installed(u) BY <2>1 DEF Installed
  <2>6. QED BY <2>2, <2>3, <2>4, <2>5
<1>7. QED BY <1>1, <1>5, <1>6 DEF ScriptInv

(* What every script that was not disturbed has put in place and will put  *)
(* back, at every command.                                                 *)
THEOREM ScriptCorrect == Spec => []ScriptInv
<1>1. Init => ScriptInv BY ScriptInitially
<1>2. ScriptInv /\ [Next]_vars => ScriptInv' BY ScriptInductive
<1>3. QED BY <1>1, <1>2, PTL DEF Spec

(* An update the panel shows as completed is installed, for any number of  *)
(* updates, releases and failures, and whatever later updates did or       *)
(* undid.                                                                  *)
THEOREM CompletedInstalled == Spec => []CompletedMeansInstalled
<1>1. ScriptInv => CompletedMeansInstalled
  <2> SUFFICES ASSUME ScriptInv, NEW u \in Update \ disturbed,
                      db.op[u] = "completed"
               PROVE  /\ link >= run[u].target /\ env >= run[u].target
                      /\ db.schema >= run[u].target
    BY DEF CompletedMeansInstalled
  <2>1. run[u].pc = "done" BY DEF ScriptInv, UpdateInv, NoneTooEarly
  <2>2. QED BY <2>1 DEF ScriptInv, Installed, Floor
<1>2. QED BY <1>1, ScriptCorrect, PTL

(* A rollback that came to its end has put the previous release back and   *)
(* runs it, with the snapshot as that release migrates it.                 *)
THEOREM RollbackComplete == Spec => []RollbackRestores
<1>1. ScriptInv => RollbackRestores
  <2> SUFFICES ASSUME ScriptInv, NEW u \in Update \ disturbed,
                      run[u].pc = "rolledback", latest = u
               PROVE  /\ link = run[u].previous /\ env = run[u].env
                      /\ plane.version = run[u].env
                      /\ ~run[u].dirty => db.schema = SchemaBack(u)
                      /\ db.op[u] # "completed"
    BY DEF RollbackRestores, SchemaBack
  <2>1. db.op[u] # "completed" BY DEF ScriptInv, UpdateInv, NoneTooEarly
  <2>2. QED BY <2>1 DEF ScriptInv, Back, Restored
<1>2. QED BY <1>1, ScriptCorrect, PTL

(* Putting the snapshot back before a release was started loses no status  *)
(* and no event that was acknowledged.                                     *)
THEOREM HistoryPreserved == Spec => HistoryKept
<1>1. ScriptInv /\ [Next]_vars =>
        [\A u \in Update \ disturbed :
           run[u].pc = "rb_db" /\ run'[u].pc # "rb_db" /\ ~run[u].started =>
             \A w \in Update : /\ db.log[w] \subseteq db'.log[w]
                               /\ db.op[w] \in Final => db'.op[w] = db.op[w]]_vars
  <2> SUFFICES ASSUME ScriptInv, Next, NEW u \in Update \ disturbed,
                      run[u].pc = "rb_db", run'[u].pc # "rb_db", ~run[u].started,
                      NEW w \in Update
               PROVE  /\ db.log[w] \subseteq db'.log[w]
                      /\ db.op[w] \in Final => db'.op[w] = db.op[w]
    OBVIOUS
  <2>1. UpdateInv /\ run \in [Update -> Run]
    BY DEF ScriptInv, UpdateInv, TypeOK
  <2>2. AtWork \subseteq {u}
    BY DEF ScriptInv, Sole, Ended
  <2>3. /\ db.log = run[u].snap.log /\ db.op[u] \notin Final
        /\ \A x \in Update \ {u} : db.op[x] = run[u].snap.op[x]
    BY DEF ScriptInv, Untouched, Snapped, Restoring
  <2>4. ASSUME NEW x \in Update, NEW v \in Version, Confirm(x, v) PROVE FALSE
    <3>1. x # u BY <2>4 DEF Confirm
    <3>2. CASE Goes(x, "refused")
      <4>1. run'[u] = run[u] BY <2>1, <3>1, <3>2, GoesOn DEF OthersStay
      <4>2. QED BY <4>1
    <3>3. CASE run' = [run EXCEPT ![x].pc = "asked", ![x].target = v]
      <4>1. run'[u] = run[u] BY <2>1, <3>1, <3>3
      <4>2. QED BY <4>1
    <3>4. QED BY <2>4, <3>2, <3>3 DEF Confirm
  <2>5. ASSUME NEW x \in Update, AgentStarts(x) PROVE FALSE
    BY <2>2, <2>5 DEF AgentStarts, AtWork, Ended
  <2>6. ASSUME NEW x \in Update, Step(x)
        PROVE  db' = db \/ db' = run[u].snap
    <3>1. run[x].pc \notin Ended
      BY <2>6 DEF Step, Verify, Stage, Stop, Snapshot, Migrate, Link, Units,
         MarkProgress, Agent, Start, Ready, Complete, RbLink, RbDb, RbUnits,
         RbMark, RbStart, At, Ended
    <3>2. x = u BY <2>2, <3>1 DEF AtWork
    <3>3. RbDb(u)
      BY <2>6, <3>2 DEF Step, Verify, Stage, Stop, Snapshot, Migrate, Link, Units,
         MarkProgress, Agent, Start, Ready, Complete, RbLink, RbUnits,
         RbMark, RbStart, At
    <3>4. QED BY <3>3 DEF RbDb
  <2>7. ASSUME NEW x \in Update, ExecuteFails(x) PROVE FALSE
    BY <2>7 DEF ExecuteFails
  <2>8. ~List /\ ~PlaneCrashes /\ ~PlaneRestarts
    BY DEF List, PlaneCrashes, PlaneRestarts
  <2>9. Reboot => db' = db BY DEF Reboot
  <2>10. db' = db \/ db' = run[u].snap
    <3>1. CASE List \/ PlaneCrashes \/ PlaneRestarts \/ Reboot BY <2>8, <2>9, <3>1
    <3>2. CASE \E x \in Update : \/ \E v \in Version : Confirm(x, v)
                                 \/ ExecuteFails(x) \/ AgentStarts(x) \/ Step(x)
      <4>1. PICK x \in Update : \/ \E v \in Version : Confirm(x, v)
                                \/ ExecuteFails(x) \/ AgentStarts(x) \/ Step(x)
        BY <3>2
      <4>2. CASE Step(x) BY <2>6, <4>2
      <4>3. CASE ~Step(x) BY <2>4, <2>5, <2>7, <4>1, <4>3
      <4>4. QED BY <4>2, <4>3
    <3>3. QED BY <3>1, <3>2 DEF Next
  <2>11. QED BY <2>3, <2>10
<1>2. QED BY <1>1, ScriptCorrect, PTL DEF Spec, HistoryKept
=============================================================================
