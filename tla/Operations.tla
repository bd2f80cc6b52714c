------------------------------- MODULE Operations -------------------------------
(***************************************************************************)
(* The operations an owner or a program confirms before they are done:     *)
(* starting, stopping and restarting services, reading the configuration   *)
(* of Nginx again, rotating a connection and exporting a backup, from      *)
(* their preview to the last event of the journal, with the root agent     *)
(* that does them and the files an export goes through.                    *)
(*                                                                         *)
(* The panel gives up on an answer after thirty seconds while the agent    *)
(* goes on, either process may die, and nothing stops two exports of one   *)
(* name.  engine.update and update.apply are EngineInstall's and           *)
(* AppUpdate's.                                                            *)
(***************************************************************************)
EXTENDS Integers, Sequences, FiniteSets

CONSTANTS Name,               \* names of backups, as their caller chooses them
          MaxConfirmations,   \* bound: previews
          MaxOperationFaults  \* bound: deaths, timeouts and failed writes

ASSUME OperationsAssumption == {MaxConfirmations, MaxOperationFaults} \subseteq Nat

VARIABLES
    confirmations,  \* the table of that name
    operations,     \* the table of that name, with the events of the journal
                    \* that carry the operation's id, and as a history whether
                    \* its end was written to the table and not to the journal
    jobs,           \* what the agent does for each operation
    backups,        \* the files of the backups' directory
    connection,     \* the status of the connection that may be rotated
    operationFaults

operationsVars ==
    <<confirmations, operations, jobs, backups, connection, operationFaults>>

-----------------------------------------------------------------------------
(* Requests.  A passphrase of twelve to two hundred characters may be       *)
(* longer than two hundred bytes: "wide".                                   *)

Asks(action, of, passphrase) ==
    [action |-> action, of |-> of, passphrase |-> passphrase]

Export(name, passphrase) == Asks("backup.export", name, passphrase)

Requests ==
    {Asks("service.restart", service, "none") : service \in {"outpost", "engine"}}
    \cup {Asks("service.stop", service, "none") : service \in {"outpost", "engine"}}
    \cup {Asks("service.start", service, "none") : service \in {"engine", "uninstalled"}}
    \cup {Asks("nginx.reload", "nginx", "none"),
          Asks("connection.rotate", "connection", "none")}
    \cup {Export(name, passphrase) : name \in Name,
                                     passphrase \in {"none", "good", "short", "wide"}}

(* OperationService.validate().                                             *)
Valid(request) ==
    CASE request.action = "service.restart"   -> TRUE
      [] request.action = "service.stop"      -> request.of = "engine"
      [] request.action = "service.start"     -> request.of # "uninstalled"
      [] request.action = "nginx.reload"      -> TRUE
      [] request.action = "connection.rotate" -> connection = "active"
      [] request.action = "backup.export"     -> request.passphrase # "short"

(* policy.Validate(): it counts the bytes of a passphrase.                  *)
Admitted(request) ==
    CASE request.action = "service.stop"  -> request.of = "engine"
      [] request.action = "backup.export" -> request.passphrase \in {"none", "good"}
      [] OTHER                            -> TRUE

-----------------------------------------------------------------------------
(* The files of a backup.  A file remembers who opened it for writing and   *)
(* who has written all of his; "sound" says that an encrypted one was made  *)
(* from a whole archive.                                                    *)

NoFile == [by |-> {}, ended |-> {}, sound |-> FALSE]

File(o, sound) == [by |-> {o}, ended |-> {}, sound |-> sound]

Whole(file) == Cardinality(file.by) = 1 /\ file.ended = file.by /\ file.sound

Suffix == {"", ".tmp", ".plain", ".plain.tmp"}

(* backupDownload() serves what has this name and is not empty.             *)
Downloadable(name) == backups[name][""] # NoFile

OperationsInit ==
    /\ confirmations = <<>>
    /\ operations = <<>>
    /\ jobs = <<>>
    /\ backups = [name \in Name |-> [suffix \in Suffix |-> NoFile]]
    /\ connection = "active"
    /\ operationFaults = 0

OperationFault ==
    operationFaults < MaxOperationFaults /\ operationFaults' = operationFaults + 1

(* confirm() goes on to the call of the agent before anything else runs.    *)
PanelFree == \A o \in DOMAIN operations :
                ~ (operations[o].waits /\ operations[o].status = "queued")

-----------------------------------------------------------------------------
(* OperationService                                                         *)

Preview(request) ==
    /\ PanelFree /\ Len(confirmations) < MaxConfirmations
    /\ Valid(request)
    /\ confirmations' = Append(confirmations,
                            [request |-> request, used |-> FALSE, expired |-> FALSE])
    /\ UNCHANGED <<operations, jobs, backups, connection, operationFaults>>

(* Ten minutes have passed.                                                 *)
ConfirmationExpires(c) ==
    /\ ~ confirmations[c].expired /\ ~ confirmations[c].used
    /\ confirmations' = [confirmations EXCEPT ![c].expired = TRUE]
    /\ UNCHANGED <<operations, jobs, backups, connection, operationFaults>>

MayConfirm(c, request) ==
    /\ ~ confirmations[c].used /\ ~ confirmations[c].expired
    /\ confirmations[c].request = request
    /\ Valid(request)

(* The confirmation is spent, the operation entered and its beginning told  *)
(* to the journal in one transaction.                                       *)
Confirm(c, request) ==
    /\ PanelFree
    /\ Len(operations) <= MaxConfirmations
    /\ MayConfirm(c, request)
    /\ confirmations' = [confirmations EXCEPT ![c].used = TRUE]
    /\ operations' = Append(operations,
           [request |-> request, confirmation |-> c, status |-> "queued",
            waits |-> TRUE, events |-> <<"started">>, untold |-> FALSE])
    /\ jobs' = Append(jobs, [at |-> "none", shared |-> FALSE])
    /\ UNCHANGED <<backups, connection, operationFaults>>

(* Both of an operation's sides.                                            *)
Sharing(o) ==
    {p \in DOMAIN jobs : /\ operations[p].request.action = "backup.export"
                         /\ operations[p].request.of = operations[o].request.of
                         /\ jobs[p].at \notin {"none", "done", "failed", "killed"}}

(* execute(), to the call of the agent; rotate() changes the connection     *)
(* before it is waited for.                                                 *)
Execute(o) ==
    LET sharing == IF operations[o].request.action = "backup.export"
                   THEN Sharing(o) ELSE {}
        rotates == operations[o].request.action = "connection.rotate"
    IN /\ operations[o].status = "queued" /\ operations[o].waits
       /\ operations' = [operations EXCEPT ![o].status = "running"]
       /\ jobs' = [p \in DOMAIN jobs |->
             CASE p = o -> [at     |-> CASE ~ rotates -> "sent"
                                         [] rotates /\ connection = "active" -> "done"
                                         [] rotates /\ connection # "active" -> "failed",
                            shared |-> sharing # {}]
               [] p # o -> [jobs[p] EXCEPT !.shared = @ \/ p \in sharing]]
       /\ connection' = IF rotates /\ connection = "active" THEN "rotating" ELSE connection
       /\ UNCHANGED <<confirmations, backups, operationFaults>>

(* The row of an ended operation, and then its event: two transactions.     *)
Ends(o, status, events) ==
    /\ operations' = [operations EXCEPT ![o].status = status, ![o].waits = FALSE,
                                        ![o].events = @ \o events]
    /\ UNCHANGED <<confirmations, jobs, backups, connection>>

(* The first of the two alone: the process dies between them, and with it   *)
(* whatever else it waited for, or the event cannot be written either.      *)
EndsUntold(o, status) ==
    /\ \E dies \in BOOLEAN :
          operations' = [p \in DOMAIN operations |->
              IF p = o THEN [operations[p] EXCEPT !.status = status, !.waits = FALSE,
                                                  !.untold = TRUE]
              ELSE [operations[p] EXCEPT !.waits = @ /\ ~ dies]]
    /\ OperationFault
    /\ UNCHANGED <<confirmations, jobs, backups, connection>>

(* connection.rotate has no event for its end: what follows is              *)
(* connection-sync's.                                                       *)
EventsAtEnd(o) ==
    IF operations[o].request.action = "connection.rotate" THEN <<>> ELSE <<"completed">>

(* The agent has answered.  Whatever is thrown after the operation was      *)
(* marked completed makes it failed.                                        *)
AgentAnswers(o) ==
    /\ PanelFree /\ operations[o].waits /\ operations[o].status = "running"
    /\ \/ /\ jobs[o].at = "done"
          /\ \/ Ends(o, "completed", EventsAtEnd(o)) /\ UNCHANGED operationFaults
             \/ Ends(o, "failed", <<"failed">>) /\ OperationFault
             \/ EventsAtEnd(o) # <<>> /\ EndsUntold(o, "completed")
             \/ EndsUntold(o, "failed")
       \/ /\ jobs[o].at \in {"failed", "killed"}
          /\ \/ Ends(o, "failed", <<"failed">>) /\ UNCHANGED operationFaults
             \/ EndsUntold(o, "failed")

(* callAgent() stops waiting; a rotation does not call it.                  *)
AnswerTimesOut(o) ==
    /\ PanelFree /\ operations[o].waits /\ operations[o].status = "running"
    /\ jobs[o].at \notin {"done", "failed", "killed"}
    /\ \/ Ends(o, "failed", <<"failed">>) /\ OperationFault
       \/ EndsUntold(o, "failed")

(* What the panel was waiting for is forgotten; its rows stay as they are.  *)
Forgotten ==
    operations' = [o \in DOMAIN operations |-> [operations[o] EXCEPT !.waits = FALSE]]

OperationsPanelDies ==
    /\ Forgotten
    /\ OperationFault
    /\ UNCHANGED <<confirmations, jobs, backups, connection>>

(* The other modules' connection: it is archived, or active once more.      *)
ConnectionMoves ==
    /\ PanelFree
    /\ \/ connection = "rotating" /\ connection' \in {"active", "archived"}
       \/ connection = "active" /\ connection' = "archived"
    /\ UNCHANGED <<confirmations, operations, jobs, backups, operationFaults>>

-----------------------------------------------------------------------------
(* The root agent: handle() and execute()                                   *)

JobAt(o, at) == jobs' = [jobs EXCEPT ![o].at = at]

(* systemctl and nginx.  The restart of the panel's own service ends the    *)
(* process that waits for it.                                               *)
RunsCommand(o) ==
    LET request == operations[o].request
    IN /\ jobs[o].at = "sent"
       /\ request.action # "backup.export" /\ Admitted(request)
       /\ JobAt(o, "done")
       /\ IF request.action = "service.restart" /\ request.of = "outpost"
          THEN Forgotten ELSE UNCHANGED operations
       /\ UNCHANGED <<confirmations, backups, connection, operationFaults>>

(* Where export-backup-plain writes for this operation.                     *)
PlainOutput(o) == IF operations[o].request.passphrase = "none" THEN "" ELSE ".plain"

(* Mutant of Temporary: tar writes under the name the archive will have.    *)
InPlace(suffix) == suffix

Temporary(suffix) == IF suffix = "" THEN ".tmp" ELSE ".plain.tmp"

Of(o) == operations[o].request.of

Puts(o, suffix, file) == backups' = [backups EXCEPT ![Of(o)][suffix] = file]

(* What exportBackup() removes whenever it ends.                            *)
Discards(o) ==
    IF PlainOutput(o) = ".plain" THEN Puts(o, ".plain", NoFile) ELSE UNCHANGED backups

(* The policy refuses the request, or a command fails: what tar has written *)
(* is left where it is.                                                     *)
CommandFails(o) ==
    /\ jobs[o].at \in {"sent", "tar"}
    /\ JobAt(o, "failed")
    /\ IF operations[o].request.action = "backup.export" /\ Admitted(operations[o].request)
       THEN Discards(o) ELSE UNCHANGED backups
    /\ UNCHANGED <<confirmations, operations, connection, operationFaults>>

(* The script's tar opens its file, or truncates the one that is there.     *)
TarOpens(o) ==
    LET suffix  == Temporary(PlainOutput(o))
        writing == {p \in backups[Of(o)][suffix].by : jobs[p].at \in {"tar", "sealing"}}
    IN /\ jobs[o].at = "sent"
       /\ operations[o].request.action = "backup.export"
       /\ Admitted(operations[o].request)
       /\ Puts(o, suffix, [File(o, TRUE) EXCEPT !.by = @ \cup writing])
       /\ JobAt(o, "tar")
       /\ UNCHANGED <<confirmations, operations, connection, operationFaults>>

(* tar has written everything, wherever its file has been moved.            *)
Written(o) ==
    backups' = [name \in Name |-> [suffix \in Suffix |->
                   IF o \in backups[name][suffix].by
                   THEN [backups[name][suffix] EXCEPT !.ended = @ \cup {o}]
                   ELSE backups[name][suffix]]]

TarEnds(o) ==
    /\ jobs[o].at = "tar"
    /\ Written(o)
    /\ JobAt(o, "tarred")
    /\ UNCHANGED <<confirmations, operations, connection, operationFaults>>

(* mv, and for an unencrypted backup the end.                               *)
TarMoves(o) ==
    LET output == PlainOutput(o)
        from   == Temporary(output)
        file   == backups[Of(o)][from]
    IN /\ jobs[o].at = "tarred"
       /\ IF file = NoFile
          THEN JobAt(o, "failed") /\ Discards(o)
          ELSE /\ JobAt(o, IF output = "" THEN "done" ELSE "plain")
               /\ backups' = [backups EXCEPT ![Of(o)] =
                     [[@ EXCEPT ![from] = NoFile] EXCEPT ![output] = file]]
       /\ UNCHANGED <<confirmations, operations, connection, operationFaults>>

(* exportBackup() opens the archive, and creates its own file only if there *)
(* is none; whatever happens, the archive is removed.                       *)
SealOpens(o) ==
    LET files == backups[Of(o)]
    IN /\ jobs[o].at = "plain"
       /\ \/ /\ files[".plain"] # NoFile /\ files[".tmp"] = NoFile
             /\ Puts(o, ".tmp", File(o, Whole(files[".plain"])))
             /\ JobAt(o, "sealing")
          \/ /\ files[".plain"] = NoFile \/ files[".tmp"] # NoFile
             /\ Discards(o)
             /\ JobAt(o, "failed")
       /\ UNCHANGED <<confirmations, operations, connection, operationFaults>>

(* The encrypted file is complete and takes its name, or the export fails   *)
(* and its file is removed.                                                 *)
SealEnds(o) ==
    LET files == backups[Of(o)]
    IN /\ jobs[o].at = "sealing"
       /\ \/ /\ files[".tmp"] # NoFile
             /\ backups' = [backups EXCEPT ![Of(o)] =
                   [[[@ EXCEPT ![".tmp"] = NoFile] EXCEPT ![".plain"] = NoFile]
                       EXCEPT ![""] = [files[".tmp"] EXCEPT !.ended = @ \cup {o}]]]
             /\ JobAt(o, "done")
          \/ /\ backups' = [backups EXCEPT ![Of(o)] =
                   [[@ EXCEPT ![".tmp"] = NoFile] EXCEPT ![".plain"] = NoFile]]
             /\ JobAt(o, "failed")
       /\ UNCHANGED <<confirmations, operations, connection, operationFaults>>

(* The agent and its scripts are killed: files stay as they are.            *)
OperationsAgentDies ==
    /\ OperationFault
    /\ \E o \in DOMAIN jobs : jobs[o].at \notin {"none", "done", "failed", "killed"}
    /\ jobs' = [o \in DOMAIN jobs |->
                  IF jobs[o].at \in {"none", "done", "failed"} THEN jobs[o]
                  ELSE [jobs[o] EXCEPT !.at = "killed"]]
    /\ UNCHANGED <<confirmations, operations, backups, connection>>

-----------------------------------------------------------------------------
PanelNext ==
    \/ \E request \in Requests :
          \/ Preview(request)
          \/ \E c \in DOMAIN confirmations : Confirm(c, request)
    \/ \E c \in DOMAIN confirmations : ConfirmationExpires(c)
    \/ \E o \in DOMAIN operations : Execute(o) \/ AgentAnswers(o) \/ AnswerTimesOut(o)
    \/ OperationsPanelDies
    \/ ConnectionMoves

AgentNext ==
    \/ \E o \in DOMAIN operations :
          \/ RunsCommand(o) \/ CommandFails(o)
          \/ TarOpens(o) \/ TarEnds(o) \/ TarMoves(o)
          \/ SealOpens(o) \/ SealEnds(o)
    \/ OperationsAgentDies

OperationsNext == PanelNext \/ AgentNext

-----------------------------------------------------------------------------
(* Every operation is of a confirmation of its own, of what was previewed;  *)
(* the journal tells its beginning once and its end at most once, never     *)
(* another end than the operation's row, and never none unless the panel    *)
(* was killed, or the journal failed, between the row and its event; what   *)
(* is called completed was done by the agent, although it may have been     *)
(* done and be called failed; and one that is never ended lost the panel    *)
(* that waited for it (confirm, execute).                                   *)
ToldOnce ==
    /\ \A o, p \in DOMAIN operations :
          o # p => operations[o].confirmation # operations[p].confirmation
    /\ \A o \in DOMAIN operations :
          LET operation == operations[o]
              ended     == Tail(operation.events)
              told(end) == ended = IF operation.untold THEN <<>> ELSE end
          IN /\ confirmations[operation.confirmation].request = operation.request
             /\ Head(operation.events) = "started"
             /\ operation.status = "completed" =>
                   jobs[o].at = "done" /\ told(EventsAtEnd(o))
             /\ operation.status = "failed" => told(<<"failed">>)
             /\ operation.untold => operationFaults > 0
             /\ operation.status \in {"queued", "running"} =>
                   ended = <<>> /\ (operation.waits \/ operationFaults > 0
                                    \/ \E p \in DOMAIN operations :
                                          /\ operations[p].request.of = "outpost"
                                          /\ jobs[p].at = "done")

(* And what a backup's own name stands for is a whole archive, also while   *)
(* another export of that name is under way or after one was killed, unless *)
(* two exports of it ran at the same time; a completed export has its file; *)
(* and the unencrypted archive of an encrypted one is gone when its export  *)
(* has ended, unless the agent was killed (exportBackup,                    *)
(* export-backup-plain, backupDownload).                                    *)
CompletedIsDone ==
    /\ ToldOnce
    /\ \A name \in Name :
          LET exports == {o \in DOMAIN operations :
                            /\ operations[o].request.action = "backup.export"
                            /\ operations[o].request.of = name}
          IN ~ (\E o \in exports : jobs[o].shared) =>
               /\ Downloadable(name) => Whole(backups[name][""])
               /\ \A o \in exports : operations[o].status = "completed" =>
                                        Downloadable(name)
               /\ (\A o \in exports : jobs[o].at \in {"none", "done", "failed"}) =>
                     backups[name][".plain"] = NoFile
=============================================================================
