-------------------------------- MODULE Restore --------------------------------
(***************************************************************************)
(* Restoring a backup on a server without an owner: SetupService.restore(), *)
(* the check by the root agent, and restore-backup, which systemd starts a *)
(* second after the answer and which replaces what the server keeps, part  *)
(* by part, while the control plane is stopped.                            *)
(*                                                                         *)
(* A part is as the installation left it, or as in the backup; the         *)
(* database may also hold the owner who has registered meanwhile.          *)
(***************************************************************************)
EXTENDS Naturals, Sequences

CONSTANTS MaxRequests,   \* bound: requests, each with its own archive
          MaxRestoreFaults

ASSUME RestoreAssumption == {MaxRequests, MaxRestoreFaults} \subseteq Nat

VARIABLES
    disk,       \* each part of the installation
    plane,      \* the control plane is running
    restoring,  \* SetupService.restoring
    script,     \* of each request: where restore-backup is, and its snapshot
    spoiled,    \* history: killed when armed, or a command of a rollback failed
    restoreFaults

restoreVars == <<disk, plane, restoring, script, spoiled, restoreFaults>>

Request == 1..MaxRequests

Part   == {"engine", "db", "key", "env", "config", "nginx"}
PartState  == {"installed", "owned", "restored"}
Disks  == [Part -> PartState]
Untouched == [p \in Part |-> "installed"]
Restored  == [p \in Part |-> "restored"]

(* The order in which the script installs, and in which cleanup() goes back. *)
Order     == <<"engine", "db", "key", "env", "config", "nginx">>
BackOrder == <<"db", "key", "env", "config", "engine", "nginx">>

Steps == {"none", "check", "scheduled", "validate", "snapshot", "apply",
          "start", "health", "back", "done"}

NoScript == [at |-> "none", next |-> 1, snap |-> Untouched, active |-> FALSE]

RestoreTypeOK ==
    /\ disk \in Disks /\ {plane, restoring, spoiled} \subseteq BOOLEAN
    /\ script \in [Request -> [at : Steps, next : 1..7, snap : Disks, active : BOOLEAN]]
    /\ restoreFaults \in 0..MaxRestoreFaults

-----------------------------------------------------------------------------
ScriptAt(r, step) == script[r].at = step
To(r, step) == script' = [script EXCEPT ![r].at = step, ![r].next = 1]
Ended(r)    == script' = [script EXCEPT ![r] = [NoScript EXCEPT !.at = "done"]]

(* restore.lock, which --check takes as well.                               *)
RestoreLocked == \E r \in Request : script[r].at \notin {"none", "scheduled", "done"}

Owner == disk["db"] # "installed"

Fault   == restoreFaults < MaxRestoreFaults /\ restoreFaults' = restoreFaults + 1
NoFault == UNCHANGED restoreFaults

-----------------------------------------------------------------------------
(* restore(): the claim is valid as long as there is no owner; one request  *)
(* at a time is awaited.  The agent starts the check.                       *)
RequestRestore ==
    \E r \in Request :
        /\ plane /\ ~restoring /\ ~Owner /\ ~RestoreLocked
        /\ ScriptAt(r, "none") /\ \A q \in 1..(r - 1) : ~ScriptAt(q, "none")
        /\ restoring' = TRUE
        /\ To(r, "check")
        /\ UNCHANGED <<disk, plane, spoiled, restoreFaults>>

(* --check passes and the script is scheduled, or the request is refused.   *)
Checked ==
    \E r \in Request :
        /\ ScriptAt(r, "check")
        /\ \/ ~Owner /\ To(r, "scheduled") /\ NoFault
           \/ Owner /\ Ended(r) /\ NoFault
           \/ Ended(r) /\ Fault
        /\ restoring' = FALSE
        /\ UNCHANGED <<disk, plane, spoiled>>

(* The owner registers with the same claim.                                 *)
OwnerRegisters ==
    /\ plane /\ ~Owner
    /\ disk' = [disk EXCEPT !["db"] = "owned"]
    /\ UNCHANGED <<plane, restoring, script, spoiled, restoreFaults>>

(* The control plane gives up on the agent, or dies and is started again.   *)
AnswerLost ==
    /\ plane /\ restoring /\ Fault
    /\ restoring' = FALSE
    /\ UNCHANGED <<disk, plane, script, spoiled>>

-----------------------------------------------------------------------------
(* restore-backup --consume *)

BeginRestore ==
    \E r \in Request :
        /\ ScriptAt(r, "scheduled")
        /\ IF RestoreLocked \/ Owner THEN Ended(r) ELSE To(r, "validate")
        /\ UNCHANGED <<disk, plane, restoring, spoiled, restoreFaults>>

Validated ==
    \E r \in Request :
        /\ ScriptAt(r, "validate")
        /\ \/ To(r, "snapshot") /\ NoFault
           \/ Ended(r) /\ Fault
        /\ UNCHANGED <<disk, plane, restoring, spoiled>>

(* Everything is copied aside while the control plane may still run ...     *)
SnapshotTaken ==
    \E r \in Request :
        /\ ScriptAt(r, "snapshot")
        /\ \/ /\ script' = [script EXCEPT ![r] =
                    [at |-> "apply", next |-> 1, snap |-> disk, active |-> plane]]
              /\ NoFault
           \/ Ended(r) /\ Fault
        /\ UNCHANGED <<disk, plane, restoring, spoiled>>

(* ... until the services are stopped, the first thing done when armed.     *)
Stopped ==
    \E r \in Request :
        /\ ScriptAt(r, "apply") /\ plane /\ script[r].next = 1
        /\ plane' = FALSE /\ restoring' = FALSE
        /\ \/ UNCHANGED script /\ NoFault
           \/ To(r, "back") /\ Fault
        /\ UNCHANGED <<disk, spoiled>>

(* The missing engines, then file after file.                               *)
PartInstalled ==
    \E r \in Request :
        /\ ScriptAt(r, "apply") /\ ~plane /\ script[r].next <= Len(Order)
        /\ \/ /\ disk' = [disk EXCEPT ![Order[script[r].next]] = "restored"]
              /\ script' = [script EXCEPT ![r].next = @ + 1]
              /\ NoFault
           \/ To(r, "back") /\ UNCHANGED disk /\ Fault
        /\ UNCHANGED <<plane, restoring, spoiled>>

(* The schema is migrated, the runtime reconciled, the services are started. *)
ServicesStarted ==
    \E r \in Request :
        /\ ScriptAt(r, "apply") /\ script[r].next > Len(Order)
        /\ \/ plane' = TRUE /\ To(r, "health") /\ NoFault
           \/ UNCHANGED plane /\ To(r, "back") /\ Fault
        /\ UNCHANGED <<disk, restoring, spoiled>>

HealthConfirmed ==
    \E r \in Request :
        /\ ScriptAt(r, "health")
        /\ \/ Ended(r) /\ UNCHANGED plane /\ NoFault
           \/ To(r, "back") /\ plane' = FALSE /\ Fault
        /\ UNCHANGED <<disk, restoring, spoiled>>

(* Mutant of Back: a master key that was not there stays.                   *)
BackButKey(r) ==
    LET p == BackOrder[script[r].next] IN
    IF p = "key" THEN disk ELSE [disk EXCEPT ![p] = script[r].snap[p]]

Back(r) ==
    LET p == BackOrder[script[r].next] IN [disk EXCEPT ![p] = script[r].snap[p]]

(* cleanup() of an armed script: part after part from the snapshot; a       *)
(* command that fails does not keep it from the next one.                   *)
PartRolledBack ==
    \E r \in Request :
        /\ ScriptAt(r, "back") /\ script[r].next <= Len(BackOrder)
        /\ \/ disk' = Back(r) /\ NoFault /\ UNCHANGED spoiled
           \/ UNCHANGED disk /\ Fault /\ spoiled' = TRUE
        /\ script' = [script EXCEPT ![r].next = @ + 1]
        /\ UNCHANGED <<plane, restoring>>

RolledBack ==
    \E r \in Request :
        /\ ScriptAt(r, "back") /\ script[r].next > Len(BackOrder)
        /\ plane' = script[r].active
        /\ Ended(r)
        /\ UNCHANGED <<disk, restoring, spoiled, restoreFaults>>

(* The machine goes down over the script; no trap runs.                     *)
Killed ==
    \E r \in Request :
        /\ script[r].at \notin {"none", "done"}
        /\ Fault
        /\ script' = [q \in Request |-> IF ScriptAt(q, "none") THEN script[q]
                                        ELSE [NoScript EXCEPT !.at = "done"]]
        /\ spoiled' = (spoiled \/ \E q \in Request : script[q].at \in {"apply", "health", "back"})
        /\ plane' = TRUE /\ restoring' = FALSE
        /\ UNCHANGED disk

-----------------------------------------------------------------------------
RestoreInit ==
    /\ disk = Untouched /\ plane = TRUE /\ restoring = FALSE
    /\ script = [r \in Request |-> NoScript]
    /\ spoiled = FALSE /\ restoreFaults = 0

RestoreNext ==
    \/ RequestRestore \/ Checked \/ OwnerRegisters \/ AnswerLost
    \/ BeginRestore \/ Validated \/ SnapshotTaken \/ Stopped
    \/ PartInstalled \/ ServicesStarted \/ HealthConfirmed
    \/ PartRolledBack \/ RolledBack \/ Killed

RestoreSpec == RestoreInit /\ [][RestoreNext]_restoreVars

-----------------------------------------------------------------------------
(* Properties. *)

(* When no restore is under way the installation is all of the backup or    *)
(* none of it, and the control plane runs, wherever the script has failed;  *)
(* unless it was killed when armed or its rollback failed as well.          *)
RestoreIsWhole ==
    ~RestoreLocked /\ ~spoiled =>
        /\ plane
        /\ disk = Restored \/ \A p \in Part : disk[p] # "restored"
=============================================================================
