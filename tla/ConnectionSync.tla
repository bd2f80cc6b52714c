--------------------------- MODULE ConnectionSync ---------------------------
(***************************************************************************)
(* The life of a connection: ConnectionService keeps it in SQLite,         *)
(* ConnectionSyncService carries every change to the engines through a     *)
(* persistent outbox, EngineRuntimeService asks the root agent to apply it.*)
(*                                                                         *)
(* The control plane is one JavaScript thread and bun:sqlite is            *)
(* synchronous, so an action below is a handler's code between two awaits. *)
(* A crash may still fall between two SQL transactions of one segment; the *)
(* actions that die half way say so.                                       *)
(*                                                                         *)
(* Abstractions.  Xray and one optional engine stand for the engines that  *)
(* hold users (Hysteria asks the control plane over HTTP, so it is Serving *)
(* itself); default Xray listeners, so that adds and revokes are hot       *)
(* updates; a credential is the pair <<connection, generation>>; earlier   *)
(* jobs of a connection are closed and are not kept.  An optional engine   *)
(* that is down serves nothing and loads its file when it starts: it is    *)
(* taken to hold its file.                                                 *)
(***************************************************************************)
EXTENDS Naturals, Sequences, FiniteSets

CONSTANTS Conn,       \* the connections an owner may create
          NoConn,     \* the "connection" of a reconcile task
          MaxGen,     \* bound: credential generations of a connection
          MaxJobs,    \* bound: outbox jobs of a connection
          MaxFaults   \* bound: failed agent requests and crashes together

ASSUME ConnAssumption == NoConn \notin Conn

ASSUME BoundAssumption ==
    /\ MaxGen \in Nat \ {0}
    /\ MaxJobs \in Nat
    /\ MaxFaults \in Nat

VARIABLES
    conn,    \* connections: status, generation and the columns that close it
    cred,    \* credentials: the state of every generation
    job,     \* connection_sync_jobs: the latest job of every connection
    queue,   \* withLock("engine-snapshot"): the runs waiting, the holder first
    call,    \* the agent request the lock holder is waiting for
    todo,    \* drain(): connections it has selected and not reached
    file,    \* users in the installed xray.json
    live,    \* users Xray serves while it is up
    up,      \* systemctl is-active xray
    opt,     \* users in the installed file of the optional engine
    optLive, \* users the optional engine serves
    missed,  \* history: engines a killed apply-config left on an older file
    faults

db      == <<conn, cred>>
engines == <<file, live, up, opt, optLive, missed>>
vars    == <<conn, cred, job, queue, call, todo, file, live, up, opt, optLive,
             missed, faults>>

Gen        == 1..MaxGen
Credential == Conn \X Gen
OwnerKinds == {"activate", "rotate", "revoke", "suspend", "resume"}
Kinds      == OwnerKinds \cup {"reconcile"}
OpenStates == {"pending", "running", "failed"}

Connection == [status : {"absent", "provisioning", "active", "rotating",
                         "archiving", "archived"},
               generation : 0..MaxGen, suspended : BOOLEAN,
               archived : BOOLEAN, activated : BOOLEAN]
Job == [id : 0..MaxJobs, kind : OwnerKinds \cup {"none"}, gen : 0..MaxGen,
        status : OpenStates \cup {"completed"}, due : BOOLEAN]
Run == [conn : Conn \cup {NoConn}, id : 0..MaxJobs, kind : Kinds,
        gen : 0..MaxGen, by : {"request", "drain"}]

NoJob  == [id |-> 0, kind |-> "none", gen |-> 0, status |-> "completed",
           due |-> TRUE]
NoCall == [stage |-> "none", gen |-> 0, users |-> {}]

Call == {NoCall} \cup [stage : {"xray", "optional"}, gen : 0..MaxGen,
                       users : SUBSET Credential]

TypeOK ==
    /\ conn \in [Conn -> Connection]
    /\ cred \in [Conn -> [Gen -> {"none", "pending", "active", "revoked"}]]
    /\ job \in [Conn -> Job]
    /\ queue \in Seq(Run)
    /\ call \in Call
    /\ todo \in SUBSET Conn
    /\ file \in SUBSET Credential /\ live \in SUBSET Credential
    /\ opt \in SUBSET Credential /\ up \in BOOLEAN
    /\ optLive \in SUBSET Credential /\ missed \in SUBSET {"xray", "optional"}
    /\ faults \in 0..MaxFaults

-----------------------------------------------------------------------------
(* What the handlers read.                                                 *)

Serving(c) == /\ conn[c].status = "active"
              /\ ~conn[c].suspended
              /\ ~conn[c].archived

Open(c) == job[c].status \in OpenStates

Claimable(c) == job[c].status \in {"pending", "failed"}

Holder == Head(queue)

Draining == todo # {} \/ \E i \in DOMAIN queue : queue[i].by = "drain"

Adds(r) == r.kind \in {"activate", "rotate", "resume"}

(* Mutation of Others: the snapshot forgets to leave suspended users out.  *)
OthersWithSuspended(c) ==
    {<<d, conn[d].generation>> : d \in {e \in Conn \ {c} : conn[e].status = "active"}}

(* The users every snapshot takes over unchanged, and the snapshot of run  *)
(* r: include for an add, exclude for a revoke, neither for a reconcile.   *)
Others(c) == {<<d, conn[d].generation>> : d \in {e \in Conn \ {c} : Serving(e)}}

Snapshot(r) == Others(r.conn) \cup (IF Adds(r) THEN {<<r.conn, r.gen>>} ELSE {})

(* credential() throws 409 for a revoked or missing generation.            *)
Readable(c, g) == g \in Gen /\ cred[c][g] \in {"pending", "active"}

ActiveGens(c) == {g \in Gen : cred[c][g] = "active"}

(* The generation a run's engine call names.                               *)
CallGens(r) == IF r.kind = "revoke" THEN ActiveGens(r.conn) ELSE {r.gen}

Renders(r, g) ==
    /\ \A d \in Conn \ {r.conn} : Serving(d) => Readable(d, conn[d].generation)
    /\ r.kind # "reconcile" => Readable(r.conn, g)

-----------------------------------------------------------------------------
(* What the root agent does with a request of run r, snapshot u.           *)

HotAdd(r)    == r.kind \in {"activate", "resume"}
HotRemove(r) == r.kind \in {"suspend", "revoke"}

(* An engine is started or stopped, or runs on its file: nothing is missed.*)
InStep(engine) == missed' = missed \ {engine}

Missed(engine) == missed' = missed \cup {engine}

(* Mutation of XrayApplied: a hot add that is not written to the file.     *)
XrayAppliedInMemory(r, g, u) ==
    /\ UNCHANGED <<up, opt, optLive, missed>>
    /\ IF up /\ HotAdd(r)
         THEN live' = live \cup {<<r.conn, g>>} /\ UNCHANGED file
         ELSE file' = u /\ live' = IF up THEN u ELSE live

(* xray.user.add, xray.user.revoke and config.sync, answered with success. *)
(* A hot update that does not report both inbounds restarts Xray on the    *)
(* file just installed; so does apply-config, unless the file is the same. *)
XrayApplied(r, g, u) ==
    /\ file' = u
    /\ UNCHANGED <<up, opt, optLive>>
    /\ \/ ~up /\ UNCHANGED <<live, missed>>
       \/ up /\ HotAdd(r) /\ <<r.conn, g>> \notin live
             /\ live' = live \cup {<<r.conn, g>>} /\ UNCHANGED missed
       \/ up /\ HotRemove(r) /\ <<r.conn, g>> \in live
             /\ live' = live \ {<<r.conn, g>>} /\ UNCHANGED missed
       \/ up /\ (HotAdd(r) \/ HotRemove(r) \/ u # file) /\ live' = u /\ InStep("xray")
       \/ up /\ ~HotAdd(r) /\ ~HotRemove(r) /\ u = file /\ UNCHANGED <<live, missed>>

(* A failed request that was not without effect: the file of a hot update  *)
(* was installed and Xray did not come back, or apply-config rolled back.  *)
XrayRefused(r, u) ==
    /\ up /\ InStep("xray") /\ UNCHANGED <<opt, optLive>>
    /\ \/ (HotAdd(r) \/ HotRemove(r)) /\ file' = u /\ live' = {} /\ up' = FALSE
       \/ ~HotAdd(r) /\ ~HotRemove(r) /\ u # file
             /\ live' = file /\ UNCHANGED <<file, up>>

(* The agent dies after installing the file of a hot update.  It takes     *)
(* apply-config with it, at any step from mv to the restart or on the way  *)
(* back; the next one compares its snapshot with the file alone (cmp -s).  *)
XrayKilled(r, u) ==
    /\ up /\ UNCHANGED <<opt, optLive>>
    /\ \/ (HotAdd(r) \/ HotRemove(r)) /\ file' = u /\ UNCHANGED <<live, up, missed>>
       \/ /\ ~HotAdd(r) /\ ~HotRemove(r) /\ u # file
          /\ file' \in {file, u}
          /\ \/ live' \in {live, u} /\ up' = up /\ live' # file' /\ Missed("xray")
             \/ live' = {} /\ up' = FALSE /\ InStep("xray")

(* The same script for the optional engine: nothing to do for the file it  *)
(* already has, a restart on the new one, one on the old one, or half way. *)
OptionalApplied(u) ==
    /\ opt' = u
    /\ IF u = opt THEN UNCHANGED <<optLive, missed>>
                  ELSE optLive' = u /\ InStep("optional")
    /\ UNCHANGED <<file, live, up>>

OptionalRefused(u) ==
    /\ u # opt
    /\ optLive' = opt /\ InStep("optional")
    /\ UNCHANGED <<file, live, up, opt>>

OptionalKilled(u) ==
    /\ u # opt
    /\ opt' \in {opt, u} /\ optLive' \in {optLive, u}
    /\ optLive' # opt' /\ Missed("optional")
    /\ UNCHANGED <<file, live, up>>

(* The reply is an error, or it is lost: the request may have worked, or   *)
(* the agent and its script were killed.                                   *)
AgentOutcome ==
    \/ UNCHANGED engines
    \/ /\ call.stage = "xray"
       /\ \/ XrayApplied(Holder, call.gen, call.users)
          \/ XrayRefused(Holder, call.users)
          \/ XrayKilled(Holder, call.users)
    \/ /\ call.stage = "optional"
       /\ \/ OptionalApplied(call.users)
          \/ OptionalRefused(call.users)
          \/ OptionalKilled(call.users)

-----------------------------------------------------------------------------
(* The outbox.                                                             *)

NewJob(c, kind, g) == [id |-> job[c].id + 1, kind |-> kind, gen |-> g,
                       status |-> "pending", due |-> TRUE]

(* run(): claim the open job and wait for the lock.                        *)
Claim(c, j, by) ==
    /\ job' = [job EXCEPT ![c] = [j EXCEPT !.status = "running", !.due = TRUE]]
    /\ queue' = Append(queue, [conn |-> c, id |-> j.id, kind |-> j.kind,
                               gen |-> j.gen, by |-> by])

(* Mutation of Recovered: running jobs are forgotten.                      *)
RecoveredNothing(jobs) == jobs

(* recoverInterrupted() on the jobs a crash left behind.                   *)
Recovered(jobs) ==
    [c \in Conn |-> IF jobs[c].status = "running"
                      THEN [jobs[c] EXCEPT !.status = "failed", !.due = TRUE]
                      ELSE jobs[c]]

(* The control plane dies with these jobs in the database and starts again;*)
(* the agent finishes the request it was given, or never got it.           *)
Dies(jobs) ==
    /\ faults < MaxFaults
    /\ faults' = faults + 1
    /\ job' = Recovered(jobs)
    /\ queue' = <<>>
    /\ call' = NoCall
    /\ todo' = {}
    /\ AgentOutcome

(* A prepare...() transaction has cancelled any open job and inserted a    *)
(* new one: run() claims it in the same segment, unless the process dies.  *)
Submit(c, kind, g) ==
    /\ job[c].id < MaxJobs
    /\ \/ /\ Claim(c, NewJob(c, kind, g), "request")
          /\ UNCHANGED <<call, todo, engines, faults>>
       \/ Dies([job EXCEPT ![c] = NewJob(c, kind, g)])

(* run(force = true) on the job that is already open.                      *)
RunNow(c) ==
    /\ Claimable(c)
    /\ Claim(c, job[c], "request")
    /\ UNCHANGED <<db, call, todo, engines, faults>>

(* The UPDATE ... WHERE id = ? AND status = 'running' that ends run r.     *)
Closed(r, status) ==
    IF r.conn \in Conn /\ job[r.conn].id = r.id /\ job[r.conn].status = "running"
      THEN [job EXCEPT ![r.conn].status = status,
                       ![r.conn].due = (status = "completed")]
      ELSE job

-----------------------------------------------------------------------------
(* The owner's requests.                                                   *)

Create(c) ==
    /\ conn[c].status = "absent"
    /\ conn' = [conn EXCEPT ![c].status = "provisioning", ![c].generation = 1]
    /\ cred' = [cred EXCEPT ![c][1] = "pending"]
    /\ Submit(c, "activate", 1)

(* Mutations of Rotate: no unique index on open jobs; the old link and     *)
(* credentials stay accepted while the new ones are prepared.              *)
RotateWhileOpen(c) ==
    /\ Serving(c)
    /\ conn[c].generation < MaxGen
    /\ LET g == conn[c].generation + 1 IN
         /\ conn' = [conn EXCEPT ![c].status = "rotating", ![c].generation = g,
                                 ![c].activated = FALSE]
         /\ cred' = [cred EXCEPT ![c][g] = "pending"]
         /\ Submit(c, "rotate", g)
RotateInPlace(c) ==
    /\ Serving(c) /\ ~Open(c)
    /\ conn[c].generation < MaxGen
    /\ LET g == conn[c].generation + 1 IN
         /\ conn' = [conn EXCEPT ![c].generation = g, ![c].activated = FALSE]
         /\ cred' = [cred EXCEPT ![c][g] = "pending"]
         /\ Submit(c, "rotate", g)

(* prepareRotation() cancels no job: with one still open, the unique index *)
(* connection_sync_jobs_open rolls its transaction back.                   *)
Rotate(c) ==
    /\ Serving(c)
    /\ ~Open(c)
    /\ conn[c].generation < MaxGen
    /\ LET g == conn[c].generation + 1 IN
         /\ conn' = [conn EXCEPT ![c].status = "rotating", ![c].generation = g,
                                 ![c].activated = FALSE]
         /\ cred' = [cred EXCEPT ![c][g] = "pending"]
         /\ Submit(c, "rotate", g)

(* Mutation of Suspend: get() does not leave archived connections out.     *)
SuspendEvenArchived(c) ==
    /\ conn[c].status = "active"
    /\ IF ~conn[c].suspended \/ (Open(c) /\ job[c].kind = "resume")
         THEN /\ conn' = [conn EXCEPT ![c].suspended = TRUE]
              /\ UNCHANGED cred
              /\ Submit(c, "suspend", conn[c].generation)
         ELSE job[c].kind = "suspend" /\ RunNow(c)

Suspend(c) ==
    /\ conn[c].status = "active" /\ ~conn[c].archived
    /\ IF ~conn[c].suspended \/ (Open(c) /\ job[c].kind = "resume")
         THEN /\ conn' = [conn EXCEPT ![c].suspended = TRUE]
              /\ UNCHANGED cred
              /\ Submit(c, "suspend", conn[c].generation)
         ELSE job[c].kind = "suspend" /\ RunNow(c)

Resume(c) ==
    /\ conn[c].status = "active" /\ ~conn[c].archived
    /\ conn[c].suspended
    /\ IF Open(c) /\ job[c].kind = "resume"
         THEN RunNow(c)
         ELSE UNCHANGED db /\ Submit(c, "resume", conn[c].generation)

(* Mutation of Archive: nothing is active yet, so it takes effect at once. *)
ArchiveAtOnce(c) ==
    /\ conn[c].status = "provisioning" /\ ~conn[c].archived
    /\ conn' = [conn EXCEPT ![c].status = "archived", ![c].archived = TRUE]
    /\ cred' = [cred EXCEPT ![c][conn[c].generation] = "revoked"]
    /\ job' = [job EXCEPT ![c].status = "completed"]
    /\ UNCHANGED <<queue, call, todo, engines, faults>>

Archive(c) ==
    /\ conn[c].status # "absent" /\ ~conn[c].archived
    /\ conn' = [conn EXCEPT ![c].status = "archiving", ![c].archived = TRUE]
    /\ UNCHANGED cred
    /\ Submit(c, "revoke", conn[c].generation)

Retry(c) == RunNow(c)

(* reconcile(task): a change of methods or of an engine's template queues  *)
(* for the same lock.  At most one waits at a time (bound).                *)
Reconcile ==
    /\ \A i \in DOMAIN queue : queue[i].conn # NoConn
    /\ queue' = Append(queue, [conn |-> NoConn, id |-> 0, kind |-> "reconcile",
                               gen |-> 0, by |-> "request"])
    /\ UNCHANGED <<db, job, call, todo, engines, faults>>

-----------------------------------------------------------------------------
(* drain(), every five seconds: one at a time, only jobs that are due.     *)

BackoffElapses(c) ==
    /\ ~job[c].due
    /\ job' = [job EXCEPT ![c].due = TRUE]
    /\ UNCHANGED <<db, queue, call, todo, engines, faults>>

DueConns == {c \in Conn : Claimable(c) /\ job[c].due}

DrainStart ==
    /\ ~Draining
    /\ DueConns # {}
    /\ todo' = DueConns
    /\ UNCHANGED <<db, job, queue, call, engines, faults>>

DrainNext(c) ==
    /\ c \in todo
    /\ \A i \in DOMAIN queue : queue[i].by # "drain"
    /\ todo' = todo \ {c}
    /\ IF c \in DueConns THEN Claim(c, job[c], "drain")
                         ELSE UNCHANGED <<job, queue>>
    /\ UNCHANGED <<db, call, engines, faults>>

-----------------------------------------------------------------------------
(* The lock holder.                                                        *)

(* Mutation of CompleteActivation: the replaced generation stays active.   *)
ActivateBesides(c, g) ==
    /\ cred' = [cred EXCEPT ![c][g] = IF cred[c][g] = "pending" THEN "active" ELSE @]
    /\ conn' = [conn EXCEPT ![c].status = "active", ![c].activated = TRUE]

CompleteActivation(c, g) ==
    /\ cred' = [cred EXCEPT ![c] = [h \in Gen |->
                  IF h # g /\ cred[c][h] = "active" THEN "revoked"
                  ELSE IF h = g /\ cred[c][h] = "pending" THEN "active"
                  ELSE cred[c][h]]]
    /\ conn' = [conn EXCEPT ![c].status = "active", ![c].activated = TRUE]

CompleteResume(c) ==
    /\ conn' = [conn EXCEPT ![c].suspended = FALSE]
    /\ UNCHANGED cred

CompleteArchive(c) ==
    /\ cred' = [cred EXCEPT ![c] = [h \in Gen |->
                  IF cred[c][h] = "none" THEN "none" ELSE "revoked"]]
    /\ conn' = [conn EXCEPT ![c].status = "archived"]

(* completeSuspend() only writes the journal; it and completeResume() get  *)
(* the connection first and throw once it is archived.                     *)
Throws(r) == r.kind \in {"suspend", "resume"} /\ conn[r.conn].archived

CompleteDb(r) ==
    \/ r.kind \in {"activate", "rotate"} /\ CompleteActivation(r.conn, r.gen)
    \/ r.kind = "resume" /\ ~Throws(r) /\ CompleteResume(r.conn)
    \/ r.kind = "revoke" /\ CompleteArchive(r.conn)
    \/ (r.kind \in {"suspend", "reconcile"} \/ Throws(r)) /\ UNCHANGED db

Release == queue' = Tail(queue) /\ call' = NoCall /\ UNCHANGED <<todo, faults>>

(* Both transactions of the segment, or a crash after the first.           *)
Complete ==
    /\ CompleteDb(Holder)
    /\ job' = Closed(Holder, IF Throws(Holder) THEN "failed" ELSE "completed")
    /\ Release

Fail ==
    /\ job' = Closed(Holder, "failed")
    /\ Release
    /\ UNCHANGED db

(* The lock is granted: look the credential up, render, call the agent.    *)
(* A revoke that finds no active credential calls no engine at all.        *)
Begin ==
    /\ queue # <<>> /\ call = NoCall
    /\ IF CallGens(Holder) = {}
         THEN Complete /\ UNCHANGED engines
         ELSE \E g \in CallGens(Holder) :
                IF Renders(Holder, g)
                  THEN /\ \E stage \in IF Holder.kind = "reconcile"
                                         THEN {"xray", "optional"} ELSE {"xray"} :
                            call' = [stage |-> stage, gen |-> g,
                                     users |-> Snapshot(Holder)]
                       /\ UNCHANGED <<db, job, queue, todo, engines, faults>>
                  ELSE Fail /\ UNCHANGED engines

(* Xray answered: syncOptional() takes a snapshot of its own.              *)
XrayReplies ==
    /\ call.stage = "xray"
    /\ XrayApplied(Holder, call.gen, call.users)
    /\ IF Holder.kind = "reconcile" THEN Complete
       ELSE IF Renders(Holder, call.gen)
         THEN /\ call' = [call EXCEPT !.stage = "optional",
                                      !.users = Snapshot(Holder)]
              /\ UNCHANGED <<db, job, queue, todo, faults>>
         ELSE Fail

OptionalReplies ==
    /\ call.stage = "optional"
    /\ OptionalApplied(call.users)
    /\ Complete

EngineFails ==
    /\ call # NoCall
    /\ faults < MaxFaults
    /\ AgentOutcome
    /\ job' = Closed(Holder, "failed")
    /\ queue' = Tail(queue) /\ call' = NoCall
    /\ faults' = faults + 1
    /\ UNCHANGED <<db, todo>>

-----------------------------------------------------------------------------
(* Crashes, and restarts of the engines.                                   *)

Crash == queue # <<>> /\ Dies(job) /\ UNCHANGED db

(* The process dies after complete...() and before complete(job).          *)
CrashInCompletion ==
    /\ queue # <<>> /\ Holder.kind # "reconcile"
    /\ \/ call.stage = "optional" /\ OptionalApplied(call.users)
       \/ call = NoCall /\ CallGens(Holder) = {} /\ UNCHANGED engines
    /\ faults < MaxFaults
    /\ CompleteDb(Holder)
    /\ job' = Recovered(job)
    /\ queue' = <<>> /\ call' = NoCall /\ todo' = {}
    /\ faults' = faults + 1

XrayRestarts ==
    /\ live # file \/ ~up
    /\ live' = file /\ up' = TRUE /\ InStep("xray")
    /\ UNCHANGED <<db, job, queue, call, todo, file, opt, optLive, faults>>

OptionalRestarts ==
    /\ optLive # opt
    /\ optLive' = opt /\ InStep("optional")
    /\ UNCHANGED <<db, job, queue, call, todo, file, live, up, opt, faults>>

Next ==
    \/ \E c \in Conn : \/ Create(c) \/ Rotate(c) \/ Suspend(c) \/ Resume(c)
                       \/ Archive(c) \/ Retry(c)
                       \/ BackoffElapses(c) \/ DrainNext(c)
    \/ Reconcile \/ DrainStart
    \/ Begin \/ XrayReplies \/ OptionalReplies \/ EngineFails
    \/ Crash \/ CrashInCompletion \/ XrayRestarts \/ OptionalRestarts

Init ==
    /\ conn = [c \in Conn |-> [status |-> "absent", generation |-> 0,
                               suspended |-> FALSE, archived |-> FALSE,
                               activated |-> FALSE]]
    /\ cred = [c \in Conn |-> [g \in Gen |-> "none"]]
    /\ job = [c \in Conn |-> NoJob]
    /\ queue = <<>> /\ call = NoCall /\ todo = {}
    /\ file = {} /\ live = {} /\ up = TRUE
    /\ opt = {} /\ optLive = {} /\ missed = {}
    /\ faults = 0

Spec == Init /\ [][Next]_vars

(* Fair: the event loop runs what is ready, the drain timer keeps firing,  *)
(* backoffs end, and the agent answers every request but MaxFaults.        *)
Fairness ==
    /\ WF_vars(Begin) /\ WF_vars(XrayReplies) /\ WF_vars(OptionalReplies)
    /\ WF_vars(DrainStart)
    /\ \A c \in Conn : WF_vars(DrainNext(c)) /\ WF_vars(BackoffElapses(c))

FairSpec == Spec /\ Fairness

-----------------------------------------------------------------------------
(* Properties.                                                             *)

(* The subscription link and Hysteria auth accept a connection only while  *)
(* its newest generation, and no other, has an active credential: neither  *)
(* a stale run nor a crash between transactions leaves an old one valid.   *)
AccessIsCurrent ==
    \A c \in Conn : conn[c].status = "active" =>
        ActiveGens(c) = {conn[c].generation}

(* The rows of one connection agree: its job is about its newest           *)
(* generation, it is archived exactly when that job revokes it, and the    *)
(* newest credential stays usable until the archive is complete, after     *)
(* which none is, whichever requests, retries and late completions wrote   *)
(* them.                                                                   *)
RowsAgree(c) ==
    /\ conn[c].generation = job[c].gen
    /\ conn[c].status = "absent" <=> conn[c].generation = 0
    /\ conn[c].status = "absent" => job[c].status = "completed" /\ ~conn[c].archived
    /\ conn[c].status = "absent" <=> job[c].kind = "none"
    /\ conn[c].archived <=> job[c].kind = "revoke"
    /\ conn[c].status \in {"archiving", "archived"} => conn[c].archived
    /\ \A g \in Gen :
         /\ cred[c][g] = "none" <=> g > conn[c].generation
         /\ g = conn[c].generation /\ cred[c][g] = "revoked" =>
              conn[c].status = "archived"
         /\ conn[c].status = "archived" => cred[c][g] \in {"none", "revoked"}

LifecycleConsistent == \A c \in Conn : RowsAgree(c)

(* A run waiting for the lock against the outbox it was claimed from.      *)
RunAgrees(r) ==
    /\ r.kind = "reconcile" <=> r.conn = NoConn
    /\ r.conn \in Conn =>
         /\ r.gen = conn[r.conn].generation
         /\ job[r.conn].status = "running"
         /\ r.id <= job[r.conn].id
         /\ r.id = job[r.conn].id => r.kind = job[r.conn].kind
         /\ r.kind = "revoke" => r.id = job[r.conn].id
         /\ conn[r.conn].status = "archived" => r.kind = "revoke"

(* Every run waiting for the lock, cancelled ones included, is about the   *)
(* newest generation of its connection; runs of one connection wait in the *)
(* order of their jobs, so nothing runs after a revoke; and a running job  *)
(* always has the run that will end it.                                    *)
QueueMatchesOutbox ==
    /\ \A i \in DOMAIN queue : RunAgrees(queue[i])
    /\ \A i, k \in DOMAIN queue :
         i < k /\ queue[i].conn = queue[k].conn => queue[i].id < queue[k].id
    /\ \A c \in Conn : job[c].status = "running" =>
         \E i \in DOMAIN queue : queue[i].conn = c /\ queue[i].id = job[c].id
    /\ call # NoCall => /\ queue # <<>>
                        /\ Holder.kind # "reconcile" => call.gen \in Gen

Settled(c, kinds) == job[c].status = "completed" /\ job[c].kind \in kinds

(* The files of the engines, and what the running ones serve, unless a     *)
(* killed apply-config left one on an older file: the next success says    *)
(* nothing of it, and it serves the old users until it is restarted.       *)
Held == {file, opt} \cup (IF up /\ "xray" \notin missed THEN {live} ELSE {})
                    \cup (IF "optional" \notin missed THEN {optLive} ELSE {})

(* Once the job that opens a connection is completed, every engine holds   *)
(* its newest generation and no older one, whatever runs of other          *)
(* connections, failures, crashes and restarts came in between.            *)
ServedWhenSettled ==
    \A c \in Conn : Settled(c, {"activate", "rotate", "resume"}) =>
        \A users \in Held : {g \in Gen : <<c, g>> \in users} = {conn[c].generation}

(* Once the job that closes a connection is completed, no engine holds any *)
(* generation of it, unless a run that the suspension cancelled reopened   *)
(* it or the archived connection never had an active credential.           *)
CutOffWhenSettled ==
    \A c \in Conn :
        \/ Settled(c, {"suspend"}) /\ conn[c].suspended
        \/ Settled(c, {"revoke"}) /\ (conn[c].activated \/ conn[c].generation > 1)
        => \A users \in Held, g \in Gen : <<c, g>> \notin users

(* Archiving is final: nothing reopens the connection or its credentials   *)
(* later, not even a run that had been claimed before.                     *)
ArchivedIsFinal ==
    [][\A c \in Conn : conn[c].status = "archived" =>
          conn'[c] = conn[c] /\ cred'[c] = cred[c]]_vars

(* Every open job is closed in the end, by its own run or by a later one.  *)
JobsSettle == \A c \in Conn : Open(c) ~> ~Open(c)

(* The owner's view of the same state: ConnectionAccess, implemented.      *)
Door(c) == IF conn[c].status = "absent" THEN "none"
           ELSE IF conn[c].archived THEN "gone"
           ELSE IF Serving(c) THEN "open" ELSE "closed"

Access == INSTANCE ConnectionAccess
            WITH door <- [c \in Conn |-> Door(c)],
                 edition <- [c \in Conn |-> conn[c].generation]

(* Every behaviour of the outbox, its retries, its late runs and its       *)
(* crashes is one of ConnectionAccess: no step opens an archived           *)
(* connection, reopens a replaced edition or issues one to a closed door.  *)
ImplementsAccess == Access!AccessSpec

(* docs/ARCHITECTURE.md: while a suspension is carried out, the link and   *)
(* Hysteria auth stay blocked in SQLite.                                   *)
ClosedWhileSuspending ==
    \A c \in Conn : Open(c) /\ job[c].kind = "suspend" => ~Serving(c)

(* docs/SECURITY.md: an archive is completed only after the engines have   *)
(* been cleaned.                                                           *)
ArchiveCleansEngines ==
    \A c \in Conn : conn[c].status = "archived" =>
        \A g \in Gen : <<c, g>> \notin live \cup file \cup opt
=============================================================================
