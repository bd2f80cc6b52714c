--------------------------------- MODULE Setup ---------------------------------
(***************************************************************************)
(* The first configuration of a server: SetupService.finalize() in the     *)
(* control plane, which waits for at most three minutes, and the script    *)
(* finalize-domain, which the root agent starts as a unit of its own and   *)
(* which outlives both.                                                    *)
(*                                                                         *)
(* A file is abstracted to the domain it was written for; NoDomain is what *)
(* the installer left.                                                     *)
(***************************************************************************)
EXTENDS Naturals

CONSTANTS Domain, NoDomain,
          MaxScripts,        \* bound: scripts started
          MaxSetupFaults     \* bound: commands that fail, crashes, timeouts

ASSUME SetupAssumption == NoDomain \notin Domain /\ {MaxScripts, MaxSetupFaults} \subseteq Nat

VARIABLES
    files,       \* nginx site, outpost.env, hysteria.yaml, xray.json
    serving,     \* the site nginx has loaded
    engines,     \* Xray and Hysteria enabled and started
    plane,       \* the outpost.env the control plane has read; its request
    restartDue,  \* the restart finalize-domain has scheduled
    finalizer,   \* each script: its next command, its domain, the files it kept
    blurred,     \* history: a script was cut off, failed in its rollback or had
                 \* passed its check before another one was through; or the
                 \* control plane read a file that may be taken back
    setupFaults

setupVars == <<files, serving, engines, plane, restartDue, finalizer, blurred,
               setupFaults>>

SetupFile == {"nginx", "env", "hysteria", "xray"}
Finalizer == 1..MaxScripts

Untouched == [f \in SetupFile |-> NoDomain]
NoScript == [at |-> "none", domain |-> NoDomain, kept |-> Untouched]
NoWait   == [at |-> "none", domain |-> NoDomain, for |-> 0]

Armed(s) == finalizer[s].at \in {"nginx", "env", "hysteria", "xray", "reload", "enable",
                                 "schedule", "disable", "back", "reloadBack"}

Blurs(condition) == blurred' = (blurred \/ condition)

SetupFault == setupFaults < MaxSetupFaults /\ setupFaults' = setupFaults + 1

Goes(s, step) == finalizer' = [finalizer EXCEPT ![s].at = step]

-----------------------------------------------------------------------------
(* The control plane *)

(* finalize(): one at a time in a process, and only before the setup.       *)
Finalize ==
    /\ plane.env = NoDomain /\ plane.wait.at = "none"
    /\ \E d \in Domain :
           plane' = [plane EXCEPT !.wait = [at |-> "resolving", domain |-> d, for |-> 0]]
    /\ UNCHANGED <<files, serving, engines, restartDue, finalizer, blurred, setupFaults>>

(* The domain points elsewhere, or does not resolve.                        *)
NotResolved ==
    /\ plane.wait.at = "resolving" /\ SetupFault
    /\ plane' = [plane EXCEPT !.wait = NoWait]
    /\ UNCHANGED <<files, serving, engines, restartDue, finalizer, blurred>>

(* A claim is issued and the agent starts the script.                       *)
Resolved ==
    /\ plane.wait.at = "resolving"
    /\ \E s \in Finalizer :
           /\ finalizer[s].at = "none" /\ \A r \in 1..(s - 1) : finalizer[r].at # "none"
           /\ finalizer' = [finalizer EXCEPT ![s] =
                  [NoScript EXCEPT !.at = "check", !.domain = plane.wait.domain]]
           /\ plane' = [plane EXCEPT !.wait.at = "waiting", !.wait.for = s]
    /\ UNCHANGED <<files, serving, engines, restartDue, blurred, setupFaults>>

Answered ==
    /\ plane.wait.at = "waiting" /\ finalizer[plane.wait.for].at \in {"done", "failed"}
    /\ plane' = [plane EXCEPT !.wait = NoWait]
    /\ UNCHANGED <<files, serving, engines, restartDue, finalizer, blurred, setupFaults>>

(* callAgent() gives up after three minutes, the script does not.           *)
SetupTimesOut ==
    /\ plane.wait.at = "waiting" /\ finalizer[plane.wait.for].at \notin {"done", "failed"}
    /\ SetupFault
    /\ plane' = [plane EXCEPT !.wait = NoWait]
    /\ UNCHANGED <<files, serving, engines, restartDue, finalizer, blurred>>

PlaneReads == plane' = [env |-> files["env"], wait |-> NoWait]

(* Restart=always; the request and whoever waited for it are gone.          *)
PlaneCrashes ==
    /\ SetupFault /\ PlaneReads
    /\ Blurs(\E s \in Finalizer : Armed(s) /\ files["env"] # plane.env)
    /\ UNCHANGED <<files, serving, engines, restartDue, finalizer>>

ScheduledRestart ==
    /\ restartDue /\ restartDue' = FALSE
    /\ PlaneReads
    /\ Blurs(\E s \in Finalizer : Armed(s))
    /\ UNCHANGED <<files, serving, engines, finalizer, setupFaults>>

(* Power is lost: units that are enabled start again, nothing else resumes. *)
MachineReboots ==
    /\ SetupFault
    /\ finalizer' = [s \in Finalizer |-> IF finalizer[s].at = "none" THEN NoScript
                                         ELSE [finalizer[s] EXCEPT !.at = "failed"]]
    /\ serving' = files["nginx"] /\ PlaneReads /\ restartDue' = FALSE
    /\ Blurs(\E s \in Finalizer : Armed(s))
    /\ UNCHANGED <<files, engines>>

-----------------------------------------------------------------------------
(* finalize-domain, one command after another. *)

(* OUTPOST_SETUP=1 and the DNS record.                                      *)
Check(s) ==
    /\ finalizer[s].at = "check"
    /\ IF files["env"] = NoDomain THEN Goes(s, "certbot") ELSE Goes(s, "failed")
    /\ UNCHANGED <<files, serving, engines, plane, restartDue, blurred, setupFaults>>

(* Certbot lets only one of its processes run.                              *)
Certbot(s) ==
    /\ finalizer[s].at = "certbot"
    /\ \/ Goes(s, "certifying") /\ \A r \in Finalizer : finalizer[r].at # "certifying"
       \/ Goes(s, "failed") /\ \E r \in Finalizer : finalizer[r].at = "certifying"
    /\ UNCHANGED <<files, serving, engines, plane, restartDue, blurred, setupFaults>>

Certified(s) ==
    /\ finalizer[s].at = "certifying"
    /\ \/ Goes(s, "keep") /\ UNCHANGED setupFaults
       \/ Goes(s, "failed") /\ SetupFault
    /\ UNCHANGED <<files, serving, engines, plane, restartDue, blurred>>

(* The previous files, the trap, and the new files rendered in a stage.     *)
KeepFiles(s) ==
    /\ finalizer[s].at = "keep"
    /\ finalizer' = [finalizer EXCEPT ![s].at = "nginx", ![s].kept = files]
    /\ Blurs(files["env"] # NoDomain \/ \E r \in Finalizer : Armed(r))
    /\ UNCHANGED <<files, serving, engines, plane, restartDue, setupFaults>>

FileInstalled(s, f, next) ==
    /\ finalizer[s].at = f
    /\ \/ /\ files' = [files EXCEPT ![f] = finalizer[s].domain]
          /\ Goes(s, next) /\ UNCHANGED setupFaults
       \/ Goes(s, "disable") /\ SetupFault /\ UNCHANGED files
    /\ UNCHANGED <<serving, engines, plane, restartDue, blurred>>

InstallFiles(s) ==
    \/ FileInstalled(s, "nginx", "env") \/ FileInstalled(s, "env", "hysteria")
    \/ FileInstalled(s, "hysteria", "xray") \/ FileInstalled(s, "xray", "reload")

(* nginx -t and reload.                                                     *)
ReloadNginx(s) ==
    /\ finalizer[s].at = "reload"
    /\ \/ serving' = files["nginx"] /\ Goes(s, "enable") /\ UNCHANGED setupFaults
       \/ Goes(s, "disable") /\ SetupFault /\ UNCHANGED serving
    /\ UNCHANGED <<files, engines, plane, restartDue, blurred>>

EnableEngines(s) ==
    /\ finalizer[s].at = "enable"
    /\ engines' = TRUE
    /\ \/ Goes(s, "schedule") /\ UNCHANGED setupFaults
       \/ Goes(s, "disable") /\ SetupFault
    /\ UNCHANGED <<files, serving, plane, restartDue, blurred>>

ScheduleRestart(s) ==
    /\ finalizer[s].at = "schedule"
    /\ \/ restartDue' = TRUE /\ Goes(s, "done") /\ UNCHANGED setupFaults
       \/ Goes(s, "disable") /\ SetupFault /\ UNCHANGED restartDue
    /\ UNCHANGED <<files, serving, engines, plane, blurred>>

(* rollback(): every command is tried, whatever the others do.              *)
DisableEngines(s) ==
    /\ finalizer[s].at = "disable"
    /\ engines' = FALSE /\ Goes(s, "back")
    /\ UNCHANGED <<files, serving, plane, restartDue, blurred, setupFaults>>

(* Mutant of FilesBack: the environment keeps the new domain.               *)
FilesBackButEnv(s) == [finalizer[s].kept EXCEPT !["env"] = files["env"]]

FilesBack(s) == finalizer[s].kept

RestoreFiles(s) ==
    /\ finalizer[s].at = "back"
    /\ \/ files' = FilesBack(s) /\ UNCHANGED <<blurred, setupFaults>>
       \/ /\ SetupFault /\ blurred' = TRUE
          /\ \E f \in SetupFile : files' = [FilesBack(s) EXCEPT ![f] = files[f]]
    /\ Goes(s, "reloadBack")
    /\ UNCHANGED <<serving, engines, plane, restartDue>>

ReloadBack(s) ==
    /\ finalizer[s].at = "reloadBack"
    /\ \/ serving' = files["nginx"] /\ UNCHANGED <<blurred, setupFaults>>
       \/ SetupFault /\ blurred' = TRUE /\ UNCHANGED serving
    /\ Goes(s, "failed")
    /\ UNCHANGED <<files, engines, plane, restartDue>>

FinalizeDomain(s) ==
    \/ Check(s) \/ Certbot(s) \/ Certified(s) \/ KeepFiles(s)
    \/ InstallFiles(s) \/ ReloadNginx(s) \/ EnableEngines(s) \/ ScheduleRestart(s)
    \/ DisableEngines(s) \/ RestoreFiles(s) \/ ReloadBack(s)

-----------------------------------------------------------------------------
SetupInit ==
    /\ files = Untouched /\ serving = NoDomain /\ engines = FALSE
    /\ plane = [env |-> NoDomain, wait |-> NoWait] /\ restartDue = FALSE
    /\ finalizer = [s \in Finalizer |-> NoScript]
    /\ blurred = FALSE /\ setupFaults = 0

SetupNext ==
    \/ Finalize \/ NotResolved \/ Resolved \/ Answered \/ SetupTimesOut
    \/ PlaneCrashes \/ ScheduledRestart \/ MachineReboots
    \/ \E s \in Finalizer : FinalizeDomain(s)

SetupSpec == SetupInit /\ [][SetupNext]_setupVars

-----------------------------------------------------------------------------
(* Properties. *)

(* Once no script is between its first and its last change, the site, the   *)
(* environment and the configuration of the engines are those of one domain *)
(* or of none, nginx has loaded the site, the engines run exactly for a     *)
(* domain, and the control plane has read its environment or is about to.   *)
(* Excepted are scripts that were cut off, that failed on the way back or    *)
(* that had passed the check before another one had finished.               *)
SetupIsWhole ==
    ~blurred /\ (\A s \in Finalizer : ~Armed(s)) =>
        \E d \in Domain \cup {NoDomain} :
            /\ files = [f \in SetupFile |-> d] /\ serving = d
            /\ engines = (d # NoDomain)
            /\ plane.env = d \/ restartDue
=============================================================================
