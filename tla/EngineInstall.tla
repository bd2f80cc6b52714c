----------------------------- MODULE EngineInstall -----------------------------
(***************************************************************************)
(* Installation and update of one optional engine:  the operation          *)
(* engine.update of OperationService, the installed version that           *)
(* EngineInventory keeps in SQLite, and update-engine, which the root      *)
(* agent starts: a directory per version, the link "current", the unit.    *)
(*                                                                         *)
(* The operation holds the lock of the connections until it has ended or   *)
(* callAgent() has given up; the script goes on then.                      *)
(***************************************************************************)
EXTENDS Naturals

CONSTANTS MaxVersion,     \* bound: versions 1 .. MaxVersion, newest last
          MaxInstallFaults

ASSUME EngineInstallAssumption ==
    MaxVersion \in Nat \ {0} /\ MaxInstallFaults \in Nat

VARIABLES
    root,       \* the directory /opt/outpost/engines/<engine> is there
    dirs,       \* version directories in it
    link,       \* current: a version, 0 when there is none, or Current
    runs,       \* the version of the running engine, 0 when it is stopped
    recorded,   \* engine_versions.installed_version, 0 for NULL
    offered,    \* the version an operation may install
    install,    \* the operation: phase and version
    updater,    \* the update-engine of each slot
    apart,      \* history: an installation ended unanswered, or two overlapped
    overlapped, \* history: one began while the script of another went on
    installFaults

machineVars == <<root, dirs, link, runs>>
historyVars == <<apart, overlapped>>
installVars == <<machineVars, recorded, offered, install, updater,
                 historyVars, installFaults>>

EngineVersion == 1..MaxVersion
Updater == 1..2

(* The path of the link itself, which is neither a version nor empty (0).   *)
Current == MaxVersion + 1
Paths   == 0..MaxVersion + 1

(* The version a path names, 0 when it names none.                          *)
Named(path) == IF path \in EngineVersion THEN path ELSE 0

NoUpdater == [at |-> "none", version |-> 0, previous |-> 0, active |-> FALSE,
              awaited |-> FALSE, ok |-> FALSE]
UpdaterSteps == {"none", "verify", "place", "switch", "validate", "restart",
                 "health", "enable", "unlink", "revive", "remove", "done"}

EngineInstallTypeOK ==
    /\ root \in BOOLEAN /\ dirs \subseteq EngineVersion
    /\ link \in Paths /\ runs \in 0..MaxVersion
    /\ recorded \in 0..MaxVersion /\ offered \in EngineVersion
    /\ install \in [phase : {"idle", "prepare", "asked", "completed", "failed",
                             "orphaned"}, version : 0..MaxVersion]
    /\ \A s \in Updater : updater[s].at \in UpdaterSteps /\ updater[s].previous \in Paths
    /\ {apart, overlapped} \subseteq BOOLEAN /\ installFaults \in 0..MaxInstallFaults

-----------------------------------------------------------------------------
Mishap == installFaults < MaxInstallFaults /\ installFaults' = installFaults + 1
NoMishap == UNCHANGED installFaults

InstallLocked == install.phase \in {"prepare", "asked"}
Working(s) == updater[s].at \notin {"none", "done"}

InstallPhase(p) == install' = [install EXCEPT !.phase = p]

(* checkReleases(): a newer version is offered.                             *)
Discover ==
    /\ offered < MaxVersion /\ offered' = offered + 1
    /\ UNCHANGED <<machineVars, recorded, install, updater, historyVars, installFaults>>

(* preview() and confirm(): only the version offered, and only when it is   *)
(* newer than the recorded one; then execute() waits for the lock.          *)
ConfirmInstall ==
    /\ ~InstallLocked /\ offered > recorded
    /\ install' = [phase |-> "prepare", version |-> offered]
    /\ UNCHANGED <<machineVars, recorded, offered, updater, historyVars, installFaults>>

(* prepareEngine() renders the configuration, then the agent is asked.      *)
EnginePrepared ==
    /\ install.phase = "prepare"
    /\ \E s \in Updater :
           /\ updater[s].at = "none"
           /\ \A r \in Updater : updater[r].at = "none" => s <= r
           /\ updater' = [updater EXCEPT ![s] =
                 [NoUpdater EXCEPT !.at = "verify", !.version = install.version,
                                   !.awaited = TRUE]]
    /\ overlapped' = (overlapped \/ \E s \in Updater : Working(s))
    /\ apart' = (apart \/ overlapped')
    /\ InstallPhase("asked")
    /\ UNCHANGED <<machineVars, recorded, offered, installFaults>>

PreparationFails ==
    /\ install.phase = "prepare" /\ Mishap
    /\ InstallPhase("failed")
    /\ UNCHANGED <<machineVars, recorded, offered, updater, historyVars>>

(* recordInstallation() after the agent's answer.                           *)
Recorded ==
    \E s \in Updater :
        /\ install.phase = "asked"
        /\ updater[s].at = "done" /\ updater[s].ok
        /\ recorded' = install.version
        /\ apart' = (apart /\ (overlapped \/ recorded' # link))
        /\ InstallPhase("completed")
        /\ updater' = [updater EXCEPT ![s] = NoUpdater]
        /\ UNCHANGED <<machineVars, offered, installFaults, overlapped>>

InstallRejected ==
    \E s \in Updater :
        /\ install.phase = "asked"
        /\ updater[s].at = "done" /\ ~updater[s].ok
        /\ InstallPhase("failed")
        /\ updater' = [updater EXCEPT ![s] = NoUpdater]
        /\ UNCHANGED <<machineVars, recorded, offered, historyVars, installFaults>>

(* callAgent() gives up after 240 seconds: the script goes on.              *)
GivesUp ==
    \E s \in Updater :
        /\ install.phase = "asked" /\ Working(s) /\ updater[s].awaited
        /\ Mishap
        /\ InstallPhase("failed")
        /\ updater' = [updater EXCEPT ![s].awaited = FALSE]
        /\ apart' = TRUE
        /\ UNCHANGED <<machineVars, recorded, offered, overlapped>>

(* The control plane dies and starts again: nothing closes an operation of  *)
(* this kind; reconcilePins() forgets a version whose binary is not there.  *)
PlaneRestarts ==
    /\ Mishap
    /\ IF InstallLocked THEN InstallPhase("orphaned") ELSE UNCHANGED install
    /\ updater' = [s \in Updater |->
          IF updater[s].at = "done" THEN NoUpdater
          ELSE [updater[s] EXCEPT !.awaited = FALSE]]
    /\ recorded' = IF link \in dirs THEN recorded ELSE 0
    /\ apart' = (apart \/ install.phase = "asked")
    /\ UNCHANGED <<machineVars, offered, overlapped>>

(* What is started through the link: nothing when it leads nowhere.         *)
Started == IF link \in dirs THEN link ELSE 0

(* The agent is restarted with its scripts, or the machine: systemd starts  *)
(* what is enabled.                                                         *)
ScriptsKilled ==
    /\ \E s \in Updater : Working(s)
    /\ Mishap
    /\ updater' = [s \in Updater |-> NoUpdater]
    /\ IF install.phase = "asked" THEN InstallPhase("failed") ELSE UNCHANGED install
    /\ apart' = TRUE
    /\ runs' \in {runs, Started}
    /\ root' \in {root, root \/ \E s \in Updater : updater[s].at = "place"}
    /\ UNCHANGED <<dirs, link, recorded, offered, overlapped>>

-----------------------------------------------------------------------------
(* update-engine *)

UpdaterAt(s, step) == updater[s].at = step
UpdaterTo(s, step) == updater' = [updater EXCEPT ![s].at = step]
(* Mutant of UpdaterEnds: a script that fails closes no request.                   *)
UpdaterEndsSilently(s, ok) ==
    updater' = [updater EXCEPT ![s] =
        IF updater[s].awaited /\ ok THEN [@ EXCEPT !.at = "done", !.ok = ok]
        ELSE NoUpdater]

UpdaterEnds(s, ok) ==
    updater' = [updater EXCEPT ![s] =
        IF updater[s].awaited THEN [@ EXCEPT !.at = "done", !.ok = ok] ELSE NoUpdater]

(* readlink -f: the directory the link leads to, there or not.  Without a   *)
(* link it is the link's own path when the root is there, which an earlier  *)
(* attempt may have left, and nothing when it is not; nor is it anything    *)
(* when the link leads to itself.                                           *)
LinkRead ==
    IF link \in EngineVersion THEN link
    ELSE IF link = 0 /\ root THEN Current ELSE 0

(* test -d                                                                  *)
IsDirectory(path) == path \in dirs \/ (path = Current /\ link \in dirs)

(* A version directory is never overwritten; release, checksum and          *)
(* signature are verified before anything is installed.                     *)
Verify(s) ==
    /\ UpdaterAt(s, "verify")
    /\ \/ /\ updater[s].version \notin dirs
          /\ updater' = [updater EXCEPT ![s].at = "place", ![s].previous = LinkRead,
                                        ![s].active = (runs # 0)]
          /\ NoMishap
       \/ updater[s].version \in dirs /\ UpdaterEnds(s, FALSE) /\ NoMishap
       \/ UpdaterEnds(s, FALSE) /\ Mishap
    /\ UNCHANGED <<machineVars, recorded, offered, install, historyVars>>

(* The root is made, and the staged directory moved into it; from then on   *)
(* an error rolls back.                                                     *)
Place(s) ==
    /\ UpdaterAt(s, "place")
    /\ root' = TRUE
    /\ \/ dirs' = dirs \cup {updater[s].version} /\ UpdaterTo(s, "switch") /\ NoMishap
       \/ UNCHANGED dirs /\ UpdaterEnds(s, FALSE) /\ Mishap
    /\ UNCHANGED <<link, runs, recorded, offered, install, historyVars>>

Switch(s) ==
    /\ UpdaterAt(s, "switch")
    /\ link' = updater[s].version
    /\ UpdaterTo(s, "validate")
    /\ UNCHANGED <<root, dirs, runs, recorded, offered, install, historyVars,
                   installFaults>>

(* What both tests of the previous version take for a first installation.   *)
(* They are made with the new link in place: its own path leads to the new  *)
(* version then, so an attempt after a failed one does not pass for first.  *)
FirstInstallation(s) == ~IsDirectory(updater[s].previous)

(* The new binary checks the configuration; only a running engine, or one   *)
(* that passes for never installed, is restarted.                           *)
Validate(s) ==
    /\ UpdaterAt(s, "validate")
    /\ \/ UpdaterTo(s, IF updater[s].active \/ FirstInstallation(s) THEN "restart"
                  ELSE "enable") /\ NoMishap
       \/ UpdaterTo(s, "unlink") /\ Mishap
    /\ UNCHANGED <<machineVars, recorded, offered, install, historyVars>>

Restart(s) ==
    /\ UpdaterAt(s, "restart")
    /\ \/ link \in dirs /\ runs' = link /\ UpdaterTo(s, "health") /\ NoMishap
       \/ link \notin dirs /\ runs' = 0 /\ UpdaterTo(s, "unlink") /\ NoMishap
       \/ runs' = 0 /\ UpdaterTo(s, "unlink") /\ Mishap
    /\ UNCHANGED <<root, dirs, link, recorded, offered, install, historyVars>>

EngineHealthChecked(s) ==
    /\ UpdaterAt(s, "health")
    /\ \/ runs # 0 /\ UpdaterTo(s, "enable") /\ NoMishap
       \/ runs = 0 /\ UpdaterTo(s, "unlink") /\ NoMishap
       \/ UpdaterTo(s, "unlink") /\ Mishap
    /\ UNCHANGED <<machineVars, recorded, offered, install, historyVars>>

(* Firewall and enable, the last commands under the trap.                   *)
Enable(s) ==
    /\ UpdaterAt(s, "enable")
    /\ \/ UpdaterEnds(s, TRUE) /\ NoMishap
       \/ UpdaterTo(s, "unlink") /\ Mishap
    /\ UNCHANGED <<machineVars, recorded, offered, install, historyVars>>

(* Mutant of Unlink: the new version stays linked.                          *)
UnlinkNothing(s) ==
    /\ UpdaterAt(s, "unlink")
    /\ IF FirstInstallation(s)
       THEN runs' = 0 /\ UpdaterTo(s, "remove")
       ELSE /\ UNCHANGED runs
            /\ UpdaterTo(s, IF updater[s].active THEN "revive" ELSE "remove")
    /\ UNCHANGED <<root, dirs, link, recorded, offered, install, historyVars,
                   installFaults>>

(* rollback(): the previous version, or no engine at all; the link's own    *)
(* path is linked like a version, and the link leads to itself.             *)
Unlink(s) ==
    /\ UpdaterAt(s, "unlink")
    /\ IF FirstInstallation(s)
       THEN link' = 0 /\ runs' = 0 /\ UpdaterTo(s, "remove")
       ELSE /\ link' = updater[s].previous /\ UNCHANGED runs
            /\ UpdaterTo(s, IF updater[s].active THEN "revive" ELSE "remove")
    /\ UNCHANGED <<root, dirs, recorded, offered, install, historyVars, installFaults>>

RestartPrevious(s) ==
    /\ UpdaterAt(s, "revive")
    /\ UpdaterTo(s, "remove")
    /\ \/ runs' = Started /\ NoMishap
       \/ runs' = 0 /\ Mishap
    /\ UNCHANGED <<root, dirs, link, recorded, offered, install, historyVars>>

RemoveVersion(s) ==
    /\ UpdaterAt(s, "remove")
    /\ dirs' = dirs \ {updater[s].version}
    /\ UpdaterEnds(s, FALSE)
    /\ UNCHANGED <<root, link, runs, recorded, offered, install, historyVars,
                   installFaults>>

UpdateEngine(s) ==
    \/ Verify(s) \/ Place(s) \/ Switch(s) \/ Validate(s) \/ Restart(s)
    \/ EngineHealthChecked(s) \/ Enable(s) \/ Unlink(s) \/ RestartPrevious(s) \/ RemoveVersion(s)

(* service.stop and service.start by the owner.                             *)
OwnerStops ==
    /\ runs # 0 /\ runs' = 0
    /\ UNCHANGED <<root, dirs, link, recorded, offered, install, updater, historyVars,
                   installFaults>>

OwnerStarts ==
    /\ runs = 0 /\ recorded # 0 /\ link \in dirs /\ runs' = link
    /\ UNCHANGED <<root, dirs, link, recorded, offered, install, updater, historyVars,
                   installFaults>>

-----------------------------------------------------------------------------
EngineInstallInit ==
    /\ \/ root = FALSE /\ dirs = {} /\ link = 0 /\ runs = 0 /\ recorded = 0
       \/ root = TRUE /\ dirs = {1} /\ link = 1 /\ runs \in {0, 1} /\ recorded = 1
    /\ offered = 1
    /\ install = [phase |-> "idle", version |-> 0]
    /\ updater = [s \in Updater |-> NoUpdater]
    /\ apart = FALSE /\ overlapped = FALSE /\ installFaults = 0

EngineInstallNext ==
    \/ Discover \/ ConfirmInstall \/ EnginePrepared \/ PreparationFails
    \/ Recorded \/ InstallRejected \/ GivesUp \/ PlaneRestarts \/ ScriptsKilled
    \/ \E s \in Updater : UpdateEngine(s)
    \/ OwnerStops \/ OwnerStarts

(* A script in progress goes on, and an operation ends with its answer or   *)
(* its timeout.                                                             *)
EngineInstallFairness ==
    /\ WF_installVars(EnginePrepared) /\ WF_installVars(Recorded)
    /\ WF_installVars(InstallRejected)
    /\ \A s \in Updater : WF_installVars(UpdateEngine(s))

EngineInstallSpec == EngineInstallInit /\ [][EngineInstallNext]_installVars

-----------------------------------------------------------------------------
(* Properties. *)

(* Once no installation is under way, and none ended unanswered or beside   *)
(* another one, the version SQLite knows is the one the link names and its  *)
(* files are there; a stopped or a failed installation changed nothing of   *)
(* that.  And wherever a script is killed, and whichever of its commands    *)
(* fail, the link never names a version whose directory is gone, as long as *)
(* no installation began while the script of another one, given up, went    *)
(* on.  A link to itself names none: a first installation that fails after  *)
(* an earlier attempt leaves one, and SQLite knows no version then.         *)
RecordIsLinked ==
    /\ ~apart /\ ~InstallLocked => /\ recorded = Named(link)
                                   /\ {recorded} \ {0} \subseteq dirs
    /\ ~overlapped => {Named(link)} \ {0} \subseteq dirs

(* Every operation that was confirmed ends as completed or failed, unless   *)
(* the control plane died over it; the lock it holds is released then.      *)
InstallationsEnd ==
    install.phase = "prepare"
        ~> install.phase \in {"completed", "failed", "orphaned"}
=============================================================================
