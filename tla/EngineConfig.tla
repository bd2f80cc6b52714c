----------------------------- MODULE EngineConfig -----------------------------
(***************************************************************************)
(* The configuration of one engine: the connection methods and the         *)
(* template revisions in SQLite (ConnectionMethodService,                  *)
(* EngineConfigService), what EngineRuntimeService renders from them, and  *)
(* apply-config, which the root agent starts and which installs the file   *)
(* and restarts the engine.                                                *)
(*                                                                         *)
(* Requests hold the one lock of ConnectionSyncService.reconcile() from    *)
(* the rendering to the transaction.  The agent knows of no lock:  once    *)
(* callAgent() has given up, its script goes on beside those of later      *)
(* requests, and nothing stops the owner from starting or stopping the     *)
(* engine meanwhile.                                                       *)
(***************************************************************************)
EXTENDS Naturals, Sequences

CONSTANTS Template, Methods,
          Stock, Default, \* the template before the first revision, the first methods
          MaxRevisions,   \* bound: revisions stored
          MaxMishaps      \* bound: commands and transactions that fail, and answers
                          \* lost by a timeout or a crash

ASSUME EngineConfigAssumption ==
    /\ Stock \in Template /\ Default \in Methods
    /\ {MaxRevisions, MaxMishaps} \subseteq Nat

VARIABLES
    methods,    \* setting connection_methods, as far as this engine renders it
    revision,   \* engine_configs: the template of each version, the last active
    rendered,   \* runtime/<engine>, the snapshot config.sync names
    file, previous, temporary,      \* /etc/outpost/engines/<engine>{,.previous,.tmp}
    live,       \* the configuration the engine has loaded
    missed,     \* history: the file changed and nothing told the running engine
    syncs,      \* the engine takes its peers without a restart (AmneziaWG)
    script,     \* the apply-config of each slot
    request,    \* the request that holds the lock
    doubt,      \* history: something ended without an answer, nothing repaired it
    mishaps

storeVars  == <<methods, revision>>
diskVars   == <<file, previous, temporary>>
liveVars   == <<live, missed>>
configVars == <<storeVars, rendered, diskVars, liveVars, syncs, script, request,
                doubt, mishaps>>

Content == [template : Template, methods : Methods]
None    == [template |-> "none", methods |-> "none"]
Slot    == 1..2

Idle == [at |-> "none", from |-> None, shared |-> FALSE, restart |-> "0",
         up |-> FALSE, native |-> None, awaited |-> FALSE,
         ok |-> FALSE, alone |-> FALSE]
NoRequest == [kind |-> "none", to |-> None, asked |-> None, slot |-> 1]

Steps == {"none", "test", "keep", "install", "move", "firewall", "restart",
          "sync", "health", "restore", "revive", "done"}

EngineConfigTypeOK ==
    /\ methods \in Methods /\ revision \in Seq(Template)
    /\ rendered \in Content /\ file \in Content
    /\ {previous, temporary, live} \subseteq Content \cup {None}
    /\ \A s \in Slot : /\ script[s].at \in Steps
                       /\ script[s].from \in Content \cup {None}
                       /\ script[s].restart \in {"0", "1", "sync"}
    /\ request.kind \in {"none", "methods", "undo", "template", "refresh"}
    /\ request.to \in Content \cup {None}
    /\ {doubt, missed} \subseteq BOOLEAN
    /\ mishaps \in 0..MaxMishaps

-----------------------------------------------------------------------------
(* Rendering. *)

ActiveTemplate == IF revision = <<>> THEN Stock ELSE revision[Len(revision)]

Rendered(t, m) == [template |-> t, methods |-> m]

Stored == Rendered(ActiveTemplate, methods)

Up == live # None

(* A command or a transaction fails, or an answer is lost.                  *)
Mishap == mishaps < MaxMishaps /\ mishaps' = mishaps + 1

NoMishap == UNCHANGED mishaps

-----------------------------------------------------------------------------
(* Requests.  callAgent() and the agent's config.sync and config.apply      *)
(* start a script; what it reads is the shared snapshot, replaced by the    *)
(* next rendering, or a file of its own.                                    *)

Holding == request # NoRequest

Starts(kind, to, own, restart) ==
    \E s \in {s \in Slot : script[s].at = "none"} :
        /\ \A r \in Slot : script[r].at = "none" => s <= r
        /\ script' = [script EXCEPT ![s] =
               [Idle EXCEPT !.at = "test", !.shared = ~own, !.restart = restart,
                            !.from = IF own THEN to ELSE None, !.awaited = TRUE,
                            !.alone = \A r \in Slot : script[r].at = "none"]]
        /\ request' = [kind |-> kind, to |-> to, asked |-> to, slot |-> s]

Synchronises(kind, to) ==
    /\ rendered' = to
    /\ Starts(kind, to, FALSE, IF ~Up THEN "0" ELSE IF syncs THEN "sync" ELSE "1")

(* save() and remove(): the methods are rendered and applied before they    *)
(* are stored.                                                              *)
Publish ==
    /\ ~Holding
    /\ \E m \in Methods \ {methods} :
           Synchronises("methods", Rendered(ActiveTemplate, m))
    /\ UNCHANGED <<storeVars, diskVars, liveVars, syncs, doubt, mishaps>>

(* apply() of an edited template or of an earlier revision.                 *)
ApplyTemplate ==
    /\ ~Holding /\ Len(revision) < MaxRevisions
    /\ \E t \in Template : Starts("template", Rendered(t, methods), TRUE, "1")
    /\ UNCHANGED <<storeVars, rendered, diskVars, liveVars, syncs, doubt, mishaps>>

(* A connection changes, or the engine is about to be updated: the stored   *)
(* configuration is rendered again.                                         *)
Refresh ==
    /\ ~Holding
    /\ Synchronises("refresh", Stored)
    /\ UNCHANGED <<storeVars, diskVars, liveVars, syncs, doubt, mishaps>>

Answer == script[request.slot]

RequestAnswered == Holding /\ Answer.at = "done"

Releases ==
    /\ request' = NoRequest
    /\ script' = [script EXCEPT ![request.slot] = Idle]

(* A request that ends well beside no other script leaves no doubt about    *)
(* what is installed.                                                       *)
Settles == doubt' = (doubt /\ ~Answer.alone)

StoresMethods ==
    /\ RequestAnswered /\ Answer.ok /\ request.kind = "methods"
    /\ methods' = request.to.methods
    /\ Settles /\ Releases
    /\ UNCHANGED <<revision, rendered, diskVars, liveVars, syncs, mishaps>>

(* The transaction fails: the methods as they were are applied again.       *)
Compensates ==
    /\ RequestAnswered /\ Answer.ok /\ request.kind = "methods" /\ Mishap
    /\ \E s \in {request.slot} :
           LET old == Rendered(ActiveTemplate, methods) IN
           /\ rendered' = old
           /\ script' = [script EXCEPT ![s] =
                 [Idle EXCEPT !.at = "test", !.shared = TRUE, !.awaited = TRUE,
                              !.alone = Answer.alone,
                              !.restart = IF ~Up THEN "0"
                                          ELSE IF syncs THEN "sync" ELSE "1"]]
           /\ request' = [request EXCEPT !.kind = "undo", !.to = old]
    /\ UNCHANGED <<storeVars, diskVars, liveVars, syncs, doubt>>

StoresRevision ==
    /\ RequestAnswered /\ Answer.ok /\ request.kind = "template"
    /\ revision' = Append(revision, request.to.template)
    /\ Settles /\ Releases
    /\ UNCHANGED <<methods, rendered, diskVars, liveVars, syncs, mishaps>>

(* The same transaction of a template has no compensation.                  *)
RevisionLost ==
    /\ RequestAnswered /\ Answer.ok /\ request.kind = "template" /\ Mishap
    /\ doubt' = TRUE
    /\ Releases
    /\ UNCHANGED <<storeVars, rendered, diskVars, liveVars, syncs>>

Refreshed ==
    /\ RequestAnswered /\ Answer.ok /\ request.kind \in {"refresh", "undo"}
    /\ Settles /\ Releases
    /\ UNCHANGED <<storeVars, rendered, diskVars, liveVars, syncs, mishaps>>

(* The agent answers that the script failed.                                *)
Rejected ==
    /\ RequestAnswered /\ ~Answer.ok
    /\ doubt' = (doubt \/ request.kind = "undo")
    /\ Releases
    /\ UNCHANGED <<storeVars, rendered, diskVars, liveVars, syncs, mishaps>>

(* callAgent() gives up after 30 seconds.                                   *)
TimesOut ==
    /\ Holding /\ Answer.at # "done" /\ Mishap
    /\ doubt' = TRUE
    /\ request' = NoRequest
    /\ script' = [script EXCEPT ![request.slot].awaited = FALSE]
    /\ UNCHANGED <<storeVars, rendered, diskVars, liveVars, syncs>>

(* The control plane dies: nobody reads the answer.                         *)
PlaneDies ==
    /\ Holding /\ Mishap
    /\ doubt' = TRUE
    /\ request' = NoRequest
    /\ script' = IF Answer.at = "done" THEN [script EXCEPT ![request.slot] = Idle]
                 ELSE [script EXCEPT ![request.slot].awaited = FALSE]
    /\ UNCHANGED <<storeVars, rendered, diskVars, liveVars, syncs>>

(* The agent is restarted (an application update does), its scripts with it *)
(* and the request is answered by a closed socket.                          *)
AgentDies ==
    /\ \E s \in Slot : script[s].at \notin {"none", "done"}
    /\ Mishap
    /\ doubt' = TRUE
    /\ request' = NoRequest
    /\ script' = [s \in Slot |-> Idle]
    /\ missed' = (missed \/ (Up /\ live # file))
    /\ UNCHANGED <<storeVars, rendered, diskVars, live, syncs>>

-----------------------------------------------------------------------------
(* apply-config, one command after another. *)

Source(s) == IF script[s].shared THEN rendered ELSE script[s].from

ScriptGoes(s, step) == script' = [script EXCEPT ![s].at = step]

(* exit: the agent's answer, if somebody still waits for it.                *)
Exits(s, ok) ==
    script' = [script EXCEPT ![s] =
        IF script[s].awaited THEN [@ EXCEPT !.at = "done", !.ok = ok] ELSE Idle]

(* The engine's own check of the source, which may reject it.               *)
Test(s) ==
    /\ script[s].at = "test"
    /\ \/ /\ script' = [script EXCEPT ![s].at = "keep",
                 ![s].native = IF script[s].restart = "sync" THEN Source(s) ELSE None]
          /\ NoMishap
       \/ Mishap /\ Exits(s, FALSE)
    /\ UNCHANGED <<storeVars, rendered, diskVars, liveVars, syncs, request, doubt>>

(* cmp: nothing to do; otherwise the installed file is kept.                *)
Keep(s) ==
    /\ script[s].at = "keep"
    /\ IF Source(s) = file
       THEN Exits(s, TRUE) /\ UNCHANGED previous
       ELSE /\ previous' = file
            /\ script' = [script EXCEPT ![s].at = "install", ![s].up = Up]
    /\ UNCHANGED <<storeVars, rendered, file, temporary, liveVars, syncs, request,
                   doubt, mishaps>>

InstallFile(s) ==
    /\ script[s].at = "install"
    /\ temporary' = Source(s)
    /\ ScriptGoes(s, "move")
    /\ UNCHANGED <<storeVars, rendered, file, previous, liveVars, syncs, request,
                   doubt, mishaps>>

(* mv fails when another script has moved the file of that name.            *)
Move(s) ==
    /\ script[s].at = "move"
    /\ IF temporary = None
       THEN Exits(s, FALSE) /\ UNCHANGED <<file, temporary, missed>>
       ELSE /\ file' = temporary /\ temporary' = None
            /\ missed' = (missed \/ (Up /\ script[s].restart = "0"))
            /\ ScriptGoes(s, "firewall")
    /\ UNCHANGED <<storeVars, rendered, previous, live, syncs, request, doubt,
                   mishaps>>

Firewall(s) ==
    /\ script[s].at = "firewall"
    /\ \/ /\ CASE script[s].restart = "0"    -> Exits(s, TRUE)
               [] script[s].restart = "sync" -> ScriptGoes(s, "sync")
               [] script[s].restart = "1"    -> ScriptGoes(s, "restart")
          /\ NoMishap
       \/ Mishap /\ ScriptGoes(s, "restore")
    /\ UNCHANGED <<storeVars, rendered, diskVars, liveVars, syncs, request, doubt>>

(* awg syncconf reads what was translated at the start.                     *)
SyncPeers(s) ==
    /\ script[s].at = "sync"
    /\ \/ /\ Up /\ live' = script[s].native
          /\ missed' = (live' # file)
          /\ Exits(s, TRUE) /\ NoMishap
       \/ ~Up /\ ScriptGoes(s, "restore") /\ NoMishap /\ UNCHANGED liveVars
       \/ Mishap /\ ScriptGoes(s, "restore") /\ UNCHANGED liveVars
    /\ UNCHANGED <<storeVars, rendered, diskVars, syncs, request, doubt>>

RestartEngine(s) ==
    /\ script[s].at = "restart"
    /\ missed' = FALSE
    /\ \/ live' = file /\ ScriptGoes(s, "health") /\ NoMishap
       \/ live' = None /\ ScriptGoes(s, "restore") /\ Mishap
    /\ UNCHANGED <<storeVars, rendered, diskVars, syncs, request, doubt>>

Health(s) ==
    /\ script[s].at = "health"
    /\ \/ Up /\ Exits(s, TRUE) /\ NoMishap
       \/ ~Up /\ ScriptGoes(s, "restore") /\ NoMishap
       \/ Mishap /\ ScriptGoes(s, "restore")
    /\ UNCHANGED <<storeVars, rendered, diskVars, liveVars, syncs, request, doubt>>

(* restore_config(): a restart that fails again is ignored.                 *)
Restore(s) ==
    /\ script[s].at = "restore"
    /\ file' = previous
    /\ missed' = (missed \/ (Up /\ ~script[s].up))
    /\ IF script[s].up THEN ScriptGoes(s, "revive") ELSE Exits(s, FALSE)
    /\ UNCHANGED <<storeVars, rendered, previous, temporary, live, syncs,
                   request, doubt, mishaps>>

(* Mutant of Revive: the file is restored and the engine left running.      *)
ReviveNothing(s) ==
    /\ script[s].at = "revive"
    /\ Exits(s, FALSE)
    /\ UNCHANGED <<storeVars, rendered, diskVars, liveVars, syncs, request, doubt,
                   mishaps>>

Revive(s) ==
    /\ script[s].at = "revive"
    /\ missed' = FALSE
    /\ \/ live' = file /\ NoMishap
       \/ live' = None /\ Mishap
    /\ Exits(s, FALSE)
    /\ UNCHANGED <<storeVars, rendered, diskVars, syncs, request, doubt>>

Script(s) ==
    \/ Test(s) \/ Keep(s) \/ InstallFile(s) \/ Move(s) \/ Firewall(s)
    \/ SyncPeers(s) \/ RestartEngine(s) \/ Health(s) \/ Restore(s) \/ Revive(s)

(* The owner's service.start and service.stop, or a crash of the engine and *)
(* systemd's restart of it.                                                 *)
EngineStops ==
    /\ Up /\ live' = None /\ missed' = FALSE
    /\ UNCHANGED <<storeVars, rendered, diskVars, syncs, script, request, doubt,
                   mishaps>>

EngineStarts ==
    /\ ~Up /\ live' = file /\ missed' = FALSE
    /\ UNCHANGED <<storeVars, rendered, diskVars, syncs, script, request, doubt,
                   mishaps>>

-----------------------------------------------------------------------------
EngineConfigInit ==
    /\ methods = Default /\ revision = <<>>
    /\ rendered = Stored /\ file = Stored /\ live = Stored
    /\ previous = None /\ temporary = None
    /\ syncs \in BOOLEAN
    /\ script = [s \in Slot |-> Idle] /\ request = NoRequest
    /\ doubt = FALSE /\ missed = FALSE /\ mishaps = 0

EngineConfigNext ==
    \/ Publish \/ ApplyTemplate \/ Refresh
    \/ StoresMethods \/ Compensates \/ StoresRevision \/ RevisionLost
    \/ Refreshed \/ Rejected
    \/ TimesOut \/ PlaneDies \/ AgentDies
    \/ \E s \in Slot : Script(s)
    \/ EngineStops \/ EngineStarts

EngineConfigSpec == EngineConfigInit /\ [][EngineConfigNext]_configVars

-----------------------------------------------------------------------------
(* Properties. *)

(* Unless something ended without an answer and nothing has repaired it     *)
(* since, the installed file is what the database renders to, or during a   *)
(* request what that request asked for: a rejected change, a failed         *)
(* publication of the methods and its compensation leave the file as it     *)
(* was.                                                                     *)
InstalledIsStored ==
    ~doubt => file \in {Stored} \cup (IF Holding THEN {request.asked} ELSE {})

(* And when everything has been answered, the running engine has loaded     *)
(* what is stored, whether the last change was applied, rejected or         *)
(* compensated; not when the scripts were killed between the file and the   *)
(* restart, when the engine was started after its script had found it       *)
(* stopped, or when peers were taken from a snapshot that a later request   *)
(* had replaced.                                                            *)
RunsWhatIsStored ==
    /\ InstalledIsStored
    /\ Up /\ ~Holding /\ ~doubt /\ ~missed => live = Stored
=============================================================================
