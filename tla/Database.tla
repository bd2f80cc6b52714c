-------------------------------- MODULE Database --------------------------------
(***************************************************************************)
(* Opening the SQLite database: the migrations, the rows every database    *)
(* begins with, the first revision of the routes and the first list of     *)
(* connection methods.  The control plane opens it when it starts, and     *)
(* outpostctl whenever it is run: by an update, by a restore, by the       *)
(* installation or by hand, also while the control plane is serving.       *)
(*                                                                         *)
(* A transaction is atomic; between two statements the process may be      *)
(* killed, and the other process may write.                                *)
(***************************************************************************)
EXTENDS Integers, FiniteSets

CONSTANTS Job,            \* sync jobs an older release left in the database
          MaxPublished,   \* bound: revisions of the routes
          MaxKills        \* bound: processes that end while they open it

ASSUME DatabaseAssumption == {MaxPublished, MaxKills} \subseteq Nat

VARIABLES
    db,       \* the database
    opening,  \* each process: the statement it is at, what it has read
    before,   \* the database when it was first opened by this release
    kills

databaseVars == <<db, opening, before, kills>>

Process == {"panel", "tool"}

Migrations == 1..6

Unset == "unset"

(* Older releases ended with an earlier migration; one of them kept the     *)
(* language in the settings of the interface.                               *)
Fresh ==
    [applied |-> {}, owner |-> FALSE, language |-> Unset, jobs |-> {},
     kinds |-> {}, network |-> Unset, cursors |-> {}, interface |-> Unset,
     drafts |-> Unset, revisions |-> 0, active |-> -1, methods |-> Unset]

Older ==
    {[Fresh EXCEPT !.applied = 1..last, !.owner = TRUE, !.jobs = Job,
                   !.kinds = {"activate", "rotate", "revoke"}
                       \cup (IF last < 3 THEN {} ELSE {"suspend", "resume"}),
                   !.language = IF last = 1 THEN Unset ELSE "zh-CN",
                   !.interface = IF last = 1 THEN interface ELSE "compact",
                   !.network = IF last < 4 THEN Unset ELSE "edited",
                   !.cursors = {"xray"}, !.drafts = drafts,
                   !.revisions = published, !.active = published] :
        last \in 1..5, interface \in {"compact", "zh-CN", "other"},
        drafts \in {"defaults", "edited"}, published \in 0..1}

-----------------------------------------------------------------------------
(* The migrations, each one transaction with the row that records it.       *)

(* Mutant of OwnerLanguage: it is removed from the settings first.          *)
RemovedLanguage(d) ==
    [d EXCEPT !.language = IF d.owner THEN "ru" ELSE Unset,
              !.interface = IF @ = Unset THEN Unset ELSE "compact"]

(* The language of the interface becomes the owner's.                       *)
OwnerLanguage(d) ==
    [d EXCEPT !.language = IF ~ d.owner THEN Unset
                           ELSE IF d.interface = "zh-CN" THEN "zh-CN" ELSE "ru",
              !.interface = IF @ = Unset THEN Unset ELSE "compact"]

(* The tables of the first release.  Of their constraints, the kinds a job  *)
(* may have matter here.                                                    *)
FirstTables(d) == [d EXCEPT !.kinds = {"activate", "rotate", "revoke"}]

(* The table of jobs is built anew and its rows are copied.                 *)
Suspension(d) == [d EXCEPT !.kinds = @ \cup {"suspend", "resume"}]

NetworkSettings(d) == [d EXCEPT !.network = IF @ = Unset THEN "default" ELSE @]

(* So are the tables of counters and of presence, which the fifth did not   *)
(* touch; what they hold stays.                                             *)
Applied(d, m) ==
    LET e == CASE m = 1 -> FirstTables(d)
               [] m = 2 -> OwnerLanguage(d)
               [] m = 3 -> Suspension(d)
               [] m = 4 -> NetworkSettings(d)
               [] OTHER -> d
    IN [e EXCEPT !.applied = @ \cup {m}]

-----------------------------------------------------------------------------
DatabaseInit ==
    /\ db \in {Fresh} \cup Older
    /\ before = db
    /\ opening = [p \in Process |-> [at |-> "closed", seen |-> {}, late |-> FALSE]]
    /\ kills = 0

At(p, at)    == opening' = [opening EXCEPT ![p].at = at]
Steps(p, from, to) == opening[p].at = from /\ At(p, to)

Writes(d) == db' = d /\ UNCHANGED <<before, kills>>

(* migrate() reads which have been applied.  "late" remembers that the      *)
(* database had already been opened by this release.                        *)
Opens(p) ==
    /\ opening[p].at = "closed"
    /\ opening' = [opening EXCEPT ![p] =
          [at |-> "migrate", seen |-> db.applied, late |-> db.methods # Unset]]
    /\ UNCHANGED <<db, before, kills>>

NextMigration(p) ==
    CHOOSE m \in Migrations \ opening[p].seen :
        \A n \in Migrations \ opening[p].seen : m <= n

(* One that the other process has applied meanwhile fails: its table or its *)
(* row is there already.  The process ends with the error.                  *)
Migrates(p) ==
    /\ opening[p].at = "migrate" /\ Migrations # opening[p].seen
    /\ LET m == NextMigration(p)
       IN IF m \in db.applied
          THEN At(p, "closed") /\ UNCHANGED <<db, before, kills>>
          ELSE /\ Writes(Applied(db, m))
               /\ opening' = [opening EXCEPT ![p].seen = @ \cup {m}]

(* seed() counts the drafts; when there are none they are all inserted, and *)
(* their positions are unique.                                              *)
Counts(p) ==
    /\ Migrations = opening[p].seen
    /\ Steps(p, "migrate", IF db.drafts = Unset THEN "insert" ELSE "default")
    /\ UNCHANGED <<db, before, kills>>

Inserts(p) ==
    IF db.drafts = Unset
    THEN Steps(p, "insert", "default") /\ Writes([db EXCEPT !.drafts = "defaults"])
    ELSE Steps(p, "insert", "closed") /\ UNCHANGED <<db, before, kills>>

DefaultVersion(p) ==
    /\ Steps(p, "default", "publish")
    /\ Writes([db EXCEPT !.active = IF @ = -1 THEN 0 ELSE @])

(* publishInitialRoutes() reads, and then writes the revision and its       *)
(* number in one transaction; numbers of revisions are unique.              *)
FindsUnpublished(p) ==
    /\ Steps(p, "publish",
             IF db.active = 0 /\ db.revisions = 0 /\ db.drafts = "defaults"
             THEN "revision" ELSE "settings")
    /\ UNCHANGED <<db, before, kills>>

PublishesDefaults(p) ==
    IF db.revisions = 0
    THEN /\ Steps(p, "revision", "settings")
         /\ Writes([db EXCEPT !.revisions = 1, !.active = 1])
    ELSE Steps(p, "revision", "closed") /\ UNCHANGED <<db, before, kills>>

(* The defaults of the settings and the pins of the engines.                *)
DefaultSettings(p) ==
    /\ Steps(p, "settings", "methods")
    /\ Writes([db EXCEPT !.interface = IF @ = Unset THEN "compact" ELSE @])

(* ConnectionMethodStore.migrate().                                         *)
FindsMethods(p) ==
    /\ Steps(p, "methods", IF db.methods = Unset THEN "first" ELSE "open")
    /\ UNCHANGED <<db, before, kills>>

FirstMethods(p) ==
    /\ Steps(p, "first", "open")
    /\ Writes([db EXCEPT !.methods = "defaults"])

Ending(p) ==
    /\ \/ opening[p].at = "open" /\ UNCHANGED kills
       \/ opening[p].at \notin {"open", "closed"} /\ kills < MaxKills /\ kills' = kills + 1
    /\ At(p, "closed")
    /\ UNCHANGED <<db, before>>

(* The owner, through the panel: the other modules' requests.               *)
Owner ==
    /\ opening["panel"].at = "open"
    /\ db' \in {[db EXCEPT !.drafts = "edited"], [db EXCEPT !.network = "edited"],
                [db EXCEPT !.methods = "edited"], [db EXCEPT !.interface = "wide"]}
               \cup (IF db.revisions < MaxPublished
                     THEN {[db EXCEPT !.revisions = @ + 1, !.active = db.revisions + 1]}
                     ELSE {})
    /\ UNCHANGED <<opening, before, kills>>

DatabaseNext ==
    \/ \E p \in Process :
          \/ Opens(p) \/ Migrates(p) \/ Counts(p) \/ Inserts(p) \/ DefaultVersion(p)
          \/ FindsUnpublished(p) \/ PublishesDefaults(p) \/ DefaultSettings(p)
          \/ FindsMethods(p) \/ FirstMethods(p) \/ Ending(p)
    \/ Owner

-----------------------------------------------------------------------------
(* However often the opening was interrupted and whoever else was opening   *)
(* the database: the migrations applied are the first ones, what an older   *)
(* release kept is still there and where it belongs, the active version of  *)
(* the routes is a revision, and a process that serves or goes on with its  *)
(* command finds everything a database begins with (migrate, seed,          *)
(* publishInitialRoutes, ConnectionMethodStore.migrate).                    *)
Complete ==
    /\ \E last \in 0..6 : db.applied = 1..last
    /\ db.jobs = before.jobs /\ db.cursors = before.cursors
    /\ before.owner /\ 2 \in db.applied =>
          db.language = (IF "zh-CN" \in {before.language, before.interface}
                         THEN "zh-CN" ELSE "ru")
    /\ db.revisions = 0 => db.active \in {-1, 0}
    /\ db.revisions > 0 => db.active \in 1..db.revisions
    /\ \A p \in Process : opening[p].at = "open" =>
          /\ db.applied = Migrations
          /\ Unset \notin {db.network, db.interface, db.drafts, db.methods}
          /\ db.kinds = {"activate", "rotate", "revoke", "suspend", "resume"}
          /\ db.active >= 0 /\ (db.active = 0 => before.drafts = "edited")

(* Opening the database leaves it complete and never undoes what the owner  *)
(* has edited: drafts, published routes, settings and, once a release with  *)
(* connection methods has opened it, the methods.  A process that had read  *)
(* the list of methods before the very first one was written may still      *)
(* write over it.                                                           *)
OpenedIsComplete ==
    [][/\ Complete'
       /\ db.drafts = "edited"  => db'.drafts = "edited"
       /\ db.network = "edited" => db'.network = "edited"
       /\ db.interface = "wide" => db'.interface = "wide"
       /\ db'.revisions >= db.revisions /\ db'.active >= db.active
       /\ db.methods = "edited" /\ db'.methods # "edited" =>
             \E p \in Process : opening[p].at = "first" /\ ~ opening[p].late]_databaseVars
=============================================================================
