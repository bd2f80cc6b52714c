------------------------------ MODULE Jobs_proofs ------------------------------
(***************************************************************************)
(* Theorems about the scripts and tasks that go on beside the control      *)
(* plane: update-engine (EngineInstall), restore-backup (Restore), the     *)
(* diagnostics (Diagnostics) and the preparation of a release (Releases).  *)
(*                                                                         *)
(* Each of them is started by a request that may be answered, given up or  *)
(* lost while the job goes on; the invariants say for every step of the    *)
(* job what it has left behind so far.                                     *)
(***************************************************************************)
EXTENDS EngineInstall, Restore, Diagnostics, Releases, FiniteSetTheorems,
        WellFoundedInduction, TLAPS

(***************************************************************************)
(* The installation of an engine.                                          *)
(***************************************************************************)
UpdaterRecord ==
    [at : UpdaterSteps, version : 0..MaxVersion, previous : Paths,
     active : BOOLEAN, awaited : BOOLEAN, ok : BOOLEAN]

InstallTyped ==
    /\ root \in BOOLEAN /\ dirs \subseteq EngineVersion /\ link \in Paths
    /\ recorded \in 0..MaxVersion /\ offered \in EngineVersion
    /\ install \in [phase : {"idle", "prepare", "asked", "completed", "failed",
                             "orphaned"}, version : 0..MaxVersion]
    /\ InstallLocked => install.version \in EngineVersion
    /\ updater \in [Updater -> UpdaterRecord]
    /\ \A s \in Updater : updater[s].at # "none" => updater[s].version \in EngineVersion
    /\ {apart, overlapped} \subseteq BOOLEAN /\ installFaults \in 0..MaxInstallFaults

(* The operation awaits one script, and only while it is asked.            *)
Awaits ==
    \A s \in Updater :
        /\ updater[s].awaited => /\ install.phase = "asked"
                                 /\ updater[s].at # "none"
                                 /\ updater[s].version = install.version
                                 /\ \A r \in Updater : updater[r].awaited => r = s
        /\ updater[s].at = "done" => updater[s].awaited

Alone == \A r, s \in Updater : updater[r].at # "none" /\ updater[s].at # "none" => r = s

LinkThere == {Named(link)} \ {0} \subseteq dirs

(* What a script that is alone has linked, and what it will link again.    *)
Linked(s) ==
    /\ updater[s].at \notin {"none", "done", "verify"} =>
         /\ {Named(updater[s].previous)} \ {0} \subseteq dirs
         /\ Named(updater[s].previous) # updater[s].version
    /\ updater[s].at \in {"place", "switch", "revive", "remove"} =>
         Named(link) = Named(updater[s].previous)
    /\ updater[s].at = "switch" => updater[s].version \in dirs
    /\ updater[s].at \in {"validate", "restart", "health", "enable", "unlink"} =>
         link = updater[s].version /\ link \in dirs

(* What SQLite will say when the script has ended.                         *)
Told(s) ==
    /\ updater[s].at # "none" => updater[s].awaited
    /\ updater[s].at = "verify" => Named(link) = recorded
    /\ updater[s].at \notin {"none", "verify", "done"} =>
         Named(updater[s].previous) = recorded
    /\ updater[s].at = "done" =>
         Named(link) = IF updater[s].ok THEN updater[s].version ELSE recorded

InstallInv ==
    /\ InstallTyped
    /\ Awaits
    /\ overlapped => apart
    /\ ~overlapped => Alone /\ LinkThere /\ \A s \in Updater : Linked(s)
    /\ ~apart => \A s \in Updater : Told(s)
    /\ ~apart /\ install.phase # "asked" => recorded = Named(link)

-----------------------------------------------------------------------------
(* What the paths name.                                                     *)
LEMMA NamedPaths ==
    /\ \A v \in EngineVersion : v \in Paths /\ Named(v) = v /\ v # 0 /\ v # Current
    /\ 0 \in Paths /\ Named(0) = 0
    /\ Current \in Paths /\ Named(Current) = 0
    /\ \A x \in Paths : Named(x) \in 0..MaxVersion /\ (x \in EngineVersion \/ Named(x) = 0)
BY EngineInstallAssumption DEF Named, Paths, Current, EngineVersion

(* The link is read as a path that names what the link names.               *)
LEMMA ReadNames ==
    ASSUME link \in Paths
    PROVE  LinkRead \in Paths /\ Named(LinkRead) = Named(link)
BY NamedPaths DEF LinkRead, Named

-----------------------------------------------------------------------------
(* One step of a script: its own slot moves, and what the operation awaits  *)
(* stays awaited, with the version it was asked for.                        *)
Moves(s) ==
    /\ updater' = [updater EXCEPT ![s] = updater'[s]]
    /\ updater'[s] \in UpdaterRecord
    /\ updater'[s].awaited = updater[s].awaited
    /\ updater'[s].at = "done" => updater[s].awaited
    /\ updater[s].awaited => updater'[s].at # "none"
    /\ updater'[s].at # "none" => updater'[s].version = updater[s].version

(* The rest of the model: neither the operation nor SQLite has changed.     *)
Beside ==
    /\ UNCHANGED <<recorded, offered, install, historyVars>>
    /\ installFaults' \in 0..MaxInstallFaults
    /\ root' \in BOOLEAN /\ dirs' \subseteq EngineVersion /\ link' \in Paths

(* A fault more, or none, stays within the bound.                           *)
LEMMA InstallFaultBound ==
    ASSUME installFaults \in 0..MaxInstallFaults, Mishap \/ NoMishap
    PROVE  installFaults' \in 0..MaxInstallFaults
BY EngineInstallAssumption DEF Mishap, NoMishap

(* A step of a script keeps the invariant when it keeps what is known of    *)
(* this script: no other script is there unless two have overlapped.        *)
LEMMA StepKeeps ==
    ASSUME InstallInv, NEW s \in Updater, Working(s), Moves(s), Beside,
           ~overlapped => LinkThere' /\ Linked(s)',
           ~apart => Told(s)'
    PROVE  InstallInv'
<1>1. /\ updater \in [Updater -> UpdaterRecord]
      /\ \A r \in Updater : r # s => updater'[r] = updater[r]
  BY DEF InstallInv, InstallTyped, Moves
<1>2. InstallTyped'
  <2>1. updater' \in [Updater -> UpdaterRecord]
    BY <1>1 DEF Moves
  <2>2. \A r \in Updater : updater'[r].at # "none" => updater'[r].version \in EngineVersion
    BY <1>1 DEF InstallInv, InstallTyped, Moves, Working
  <2> QED BY <2>1, <2>2 DEF InstallInv, InstallTyped, Beside, historyVars, InstallLocked
<1>3. Awaits'
  BY <1>1 DEF InstallInv, Awaits, Beside, Moves, historyVars, Working
<1>4. (overlapped => apart)'
  BY DEF InstallInv, Beside, historyVars
<1>5. ASSUME ~overlapped PROVE Alone' /\ \A r \in Updater : Linked(r)'
  <2>1. \A r \in Updater : r # s => updater[r].at = "none"
    BY <1>5 DEF InstallInv, Alone, Working
  <2>2. \A r \in Updater : r # s => updater'[r].at = "none"
    BY <2>1, <1>1
  <2>3. Alone'
    BY <2>2 DEF Alone
  <2>4. \A r \in Updater : r # s => Linked(r)'
    BY <2>2 DEF Linked
  <2> QED BY <2>3, <2>4, <1>5
<1>6. ASSUME ~apart PROVE \A r \in Updater : Told(r)'
  <2>1. \A r \in Updater : r # s => updater[r].at = "none"
    BY <1>6 DEF InstallInv, Alone, Working
  <2>2. \A r \in Updater : r # s => updater'[r].at = "none"
    BY <2>1, <1>1
  <2>3. \A r \in Updater : r # s => Told(r)'
    BY <2>2 DEF Told
  <2> QED BY <2>3, <1>6
<1>7. ~apart => install.phase = "asked"
  BY DEF InstallInv, Told, Awaits, Working
<1>8. UNCHANGED <<install, apart, overlapped>>
  BY DEF Beside, historyVars
<1> QED BY <1>2, <1>3, <1>4, <1>5, <1>6, <1>7, <1>8 DEF InstallInv

(* A script that ends answers the operation that awaits it, or leaves an    *)
(* empty slot.                                                              *)
LEMMA EndsMoves ==
    ASSUME InstallTyped, NEW s \in Updater, NEW ok \in BOOLEAN,
           Working(s), UpdaterEnds(s, ok)
    PROVE  /\ Moves(s)
           /\ updater[s].awaited => /\ updater'[s].at = "done"
                                    /\ updater'[s].ok = ok
                                    /\ updater'[s].version = updater[s].version
           /\ ~updater[s].awaited => updater'[s] = NoUpdater
<1>1. updater[s] \in UpdaterRecord
  BY DEF InstallTyped
<1>2. CASE updater[s].awaited
  <2> DEFINE w == [updater[s] EXCEPT !.at = "done", !.ok = ok]
  <2>1. /\ w \in UpdaterRecord /\ w.at = "done" /\ w.ok = ok
        /\ w.version = updater[s].version /\ w.awaited = updater[s].awaited
    BY <1>1 DEF UpdaterRecord, UpdaterSteps
  <2>2. updater' = [updater EXCEPT ![s] = w]
    BY <1>2 DEF UpdaterEnds
  <2> HIDE DEF w
  <2>3. updater'[s] = w
    BY <2>2 DEF InstallTyped
  <2> QED BY <2>1, <2>2, <2>3, <1>2 DEF Moves
<1>3. CASE ~updater[s].awaited
  <2>1. /\ NoUpdater \in UpdaterRecord /\ NoUpdater.at = "none"
        /\ NoUpdater.awaited = FALSE
    BY EngineInstallAssumption, NamedPaths DEF NoUpdater, UpdaterRecord, UpdaterSteps
  <2>2. updater' = [updater EXCEPT ![s] = NoUpdater]
    BY <1>3 DEF UpdaterEnds
  <2>3. updater'[s] = NoUpdater
    BY <2>2 DEF InstallTyped
  <2>4. updater[s].awaited = FALSE
    BY <1>1, <1>3 DEF UpdaterRecord
  <2> QED BY <2>1, <2>2, <2>3, <2>4, <1>3 DEF Moves
<1> QED BY <1>2, <1>3

(* A script that goes on to its next command moves nothing but its place.   *)
LEMMA ToMoves ==
    ASSUME InstallTyped, NEW s \in Updater, NEW step \in UpdaterSteps \ {"none", "done"},
           UpdaterTo(s, step)
    PROVE  /\ Moves(s)
           /\ updater'[s].at = step
           /\ updater'[s].version = updater[s].version
           /\ updater'[s].previous = updater[s].previous
<1>1. updater[s] \in UpdaterRecord
  BY DEF InstallTyped
<1> DEFINE w == [updater[s] EXCEPT !.at = step]
<1>2. /\ w \in UpdaterRecord /\ w.at = step /\ w.previous = updater[s].previous
      /\ w.version = updater[s].version /\ w.awaited = updater[s].awaited
  BY <1>1 DEF UpdaterRecord
<1>3. updater' = [updater EXCEPT ![s] = w]
  BY DEF UpdaterTo
<1> HIDE DEF w
<1>4. updater'[s] = w
  BY <1>3 DEF InstallTyped
<1> QED BY <1>2, <1>3, <1>4 DEF Moves

-----------------------------------------------------------------------------
(* The commands of update-engine, one lemma each.                           *)

(* What every command finds: the invariant's parts about this script.       *)
LEMMA WhatWasFound ==
    ASSUME InstallInv, NEW s \in Updater
    PROVE  /\ InstallTyped /\ updater[s] \in UpdaterRecord
           /\ ~overlapped => LinkThere /\ Linked(s)
           /\ ~apart => ~overlapped /\ Told(s)
BY DEF InstallInv, InstallTyped

(* Nothing is installed before it is verified: the link is remembered.      *)
LEMMA VerifyStep ==
    ASSUME InstallInv, NEW s \in Updater, Verify(s)
    PROVE  InstallInv'
<1>1. /\ InstallTyped /\ updater[s] \in UpdaterRecord
      /\ ~overlapped => LinkThere /\ Linked(s)
      /\ ~apart => ~overlapped /\ Told(s)
  BY WhatWasFound
<1>2. /\ updater[s].at = "verify" /\ Working(s)
      /\ UNCHANGED <<root, dirs, link, recorded, apart, overlapped>>
  BY DEF Verify, UpdaterAt, Working, machineVars, historyVars
<1>3. Beside
  BY <1>1, InstallFaultBound DEF Verify, Beside, InstallTyped, machineVars
<1>4. CASE /\ updater[s].version \notin dirs
           /\ updater' = [updater EXCEPT ![s].at = "place", ![s].previous = LinkRead,
                                         ![s].active = (runs # 0)]
  <2> DEFINE w == [updater[s] EXCEPT !.at = "place", !.previous = LinkRead,
                                     !.active = (runs # 0)]
  <2>1. updater' = [updater EXCEPT ![s] = w]
    BY <1>4
  <2>2. /\ w \in UpdaterRecord /\ w.at = "place" /\ Named(w.previous) = Named(link)
        /\ w.version = updater[s].version /\ w.awaited = updater[s].awaited
    <3>1. LinkRead \in Paths /\ Named(LinkRead) = Named(link)
      BY <1>1, ReadNames DEF InstallTyped
    <3> QED BY <3>1, <1>1 DEF UpdaterRecord, UpdaterSteps, InstallTyped
  <2> HIDE DEF w
  <2>3. updater'[s] = w
    BY <2>1, <1>1 DEF InstallTyped
  <2>4. Moves(s)
    BY <2>1, <2>2, <2>3 DEF Moves
  <2>5. ~overlapped => LinkThere' /\ Linked(s)'
    <3>1. (Named(link) = Named(link)') /\ UNCHANGED dirs BY <1>2
    <3>2. ~overlapped => Named(link) # updater[s].version
      <4>1. updater[s].version \in EngineVersion /\ updater[s].version \notin dirs
        BY <1>1, <1>2, <1>4 DEF InstallTyped
      <4>2. updater[s].version # 0 BY <4>1, NamedPaths
      <4> QED BY <1>1, <4>1, <4>2 DEF LinkThere
    <3> QED BY <2>2, <2>3, <1>1, <3>1, <3>2 DEF LinkThere, Linked
  <2>6. ~apart => Told(s)'
    BY <2>2, <2>3, <1>1, <1>2 DEF Told
  <2> QED BY <2>4, <2>5, <2>6, <1>2, <1>3, StepKeeps
<1>5. CASE UpdaterEnds(s, FALSE)
  <2>1. /\ Moves(s)
        /\ updater[s].awaited => updater'[s].at = "done" /\ updater'[s].ok = FALSE
        /\ ~updater[s].awaited => updater'[s] = NoUpdater
    BY <1>1, <1>2, <1>5, EndsMoves
  <2>2. ~overlapped => LinkThere' /\ Linked(s)'
    BY <2>1, <1>1, <1>2 DEF LinkThere, Linked, NoUpdater
  <2>3. ~apart => Told(s)'
    BY <2>1, <1>1, <1>2 DEF Told, Moves
  <2> QED BY <2>1, <2>2, <2>3, <1>2, <1>3, StepKeeps
<1> QED BY <1>4, <1>5 DEF Verify
(* The new directory is beside the others; the link is the previous one.    *)
LEMMA PlaceStep ==
    ASSUME InstallInv, NEW s \in Updater, Place(s)
    PROVE  InstallInv'
<1>1. /\ InstallTyped /\ updater[s] \in UpdaterRecord
      /\ ~overlapped => LinkThere /\ Linked(s)
      /\ ~apart => ~overlapped /\ Told(s)
  BY WhatWasFound
<1>2. /\ updater[s].at = "place" /\ Working(s) /\ root' = TRUE
      /\ UNCHANGED <<link, recorded, offered, install, historyVars, apart, overlapped>>
  BY DEF Place, UpdaterAt, Working, historyVars
<1>3. Named(link)' = Named(link) BY <1>2 DEF Named
<1>4. CASE dirs' = dirs \cup {updater[s].version} /\ UpdaterTo(s, "switch") /\ NoMishap
  <2>1. /\ Moves(s) /\ updater'[s].at = "switch"
        /\ updater'[s].version = updater[s].version
        /\ updater'[s].previous = updater[s].previous
    BY <1>1, <1>4, ToMoves DEF UpdaterSteps
  <2>2. Beside
    BY <1>1, <1>2, <1>4, InstallFaultBound DEF Beside, InstallTyped
  <2>3. ~overlapped => LinkThere' /\ Linked(s)'
    BY <1>1, <1>2, <1>3, <1>4, <2>1 DEF LinkThere, Linked
  <2>4. ~apart => Told(s)'
    BY <1>1, <1>2, <1>3, <2>1 DEF Told, Moves
  <2> QED BY <1>2, <2>1, <2>2, <2>3, <2>4, StepKeeps
<1>5. CASE UNCHANGED dirs /\ UpdaterEnds(s, FALSE) /\ Mishap
  <2>1. /\ Moves(s)
        /\ updater[s].awaited => updater'[s].at = "done" /\ updater'[s].ok = FALSE
        /\ ~updater[s].awaited => updater'[s] = NoUpdater
    BY <1>1, <1>2, <1>5, EndsMoves
  <2>2. Beside
    BY <1>1, <1>2, <1>5, InstallFaultBound DEF Beside, InstallTyped
  <2>3. ~overlapped => LinkThere' /\ Linked(s)'
    BY <1>1, <1>2, <1>3, <1>5, <2>1 DEF LinkThere, Linked, NoUpdater
  <2>4. ~apart => Told(s)'
    BY <1>1, <1>2, <1>3, <2>1 DEF Told, Linked, Moves
  <2> QED BY <1>2, <2>1, <2>2, <2>3, <2>4, StepKeeps
<1> QED BY <1>4, <1>5 DEF Place

(* The link names the version whose directory was just placed.              *)
LEMMA SwitchStep ==
    ASSUME InstallInv, NEW s \in Updater, Switch(s)
    PROVE  InstallInv'
<1>1. /\ InstallTyped /\ updater[s] \in UpdaterRecord
      /\ ~overlapped => LinkThere /\ Linked(s)
      /\ ~apart => ~overlapped /\ Told(s)
  BY WhatWasFound
<1>2. /\ updater[s].at = "switch" /\ Working(s)
      /\ UNCHANGED <<root, dirs, recorded, apart, overlapped>>
      /\ link' = updater[s].version
  BY DEF Switch, UpdaterAt, Working, historyVars
<1>3. /\ Moves(s) /\ updater'[s].at = "validate"
      /\ updater'[s].version = updater[s].version
      /\ updater'[s].previous = updater[s].previous
  BY <1>1, ToMoves DEF Switch, UpdaterSteps
<1>4. Beside
  <2>1. updater[s].version \in EngineVersion BY <1>1, <1>2 DEF InstallTyped
  <2> QED BY <1>1, <1>2, <2>1, NamedPaths DEF Switch, Beside, InstallTyped, historyVars
<1>5. ~overlapped => LinkThere' /\ Linked(s)'
  <2>1. updater[s].version \in EngineVersion BY <1>1, <1>2 DEF InstallTyped
  <2>2. Named(link)' = updater[s].version BY <1>2, <2>1, NamedPaths DEF Named
  <2> QED BY <1>1, <1>2, <1>3, <2>2 DEF LinkThere, Linked
<1>6. ~apart => Told(s)'
  BY <1>1, <1>2, <1>3 DEF Told, Moves
<1> QED BY <1>2, <1>3, <1>4, <1>5, <1>6, StepKeeps

(* The commands that try the new version: they leave the directories and    *)
(* the link alone, and go on to another of them or to the rollback.         *)
LEMMA TryStep ==
    ASSUME InstallInv, NEW s \in Updater,
           updater[s].at \in {"validate", "restart", "health", "enable"},
           UNCHANGED <<root, dirs, link, recorded, offered, install, historyVars>>,
           Mishap \/ NoMishap,
           NEW step \in {"restart", "health", "enable", "unlink"}, UpdaterTo(s, step)
    PROVE  InstallInv'
<1>1. /\ InstallTyped /\ updater[s] \in UpdaterRecord
      /\ ~overlapped => LinkThere /\ Linked(s)
      /\ ~apart => ~overlapped /\ Told(s)
  BY WhatWasFound
<1>2. Working(s) /\ UNCHANGED <<apart, overlapped>>
  BY DEF Working, historyVars
<1>3. /\ Moves(s) /\ updater'[s].at = step
      /\ updater'[s].version = updater[s].version
      /\ updater'[s].previous = updater[s].previous
  BY <1>1, ToMoves DEF UpdaterSteps
<1>4. Beside
  BY <1>1, InstallFaultBound DEF Beside, InstallTyped
<1>5. ~overlapped => LinkThere' /\ Linked(s)'
  BY <1>1, <1>2, <1>3 DEF LinkThere, Linked
<1>6. ~apart => Told(s)'
  BY <1>1, <1>2, <1>3 DEF Told, Moves
<1> QED BY <1>2, <1>3, <1>4, <1>5, <1>6, StepKeeps

(* The new binary is asked whether it accepts the configuration.            *)
LEMMA ValidateStep ==
    ASSUME InstallInv, NEW s \in Updater, Validate(s)
    PROVE  InstallInv'
<1>1. /\ updater[s].at = "validate" /\ (Mishap \/ NoMishap)
      /\ UNCHANGED <<root, dirs, link, recorded, offered, install, historyVars>>
  BY DEF Validate, UpdaterAt, machineVars
<1>2. UpdaterTo(s, "restart") \/ UpdaterTo(s, "enable") \/ UpdaterTo(s, "unlink")
  BY DEF Validate
<1> QED BY <1>1, <1>2, TryStep

(* The engine is restarted, or the restart fails.                           *)
LEMMA RestartStep ==
    ASSUME InstallInv, NEW s \in Updater, Restart(s)
    PROVE  InstallInv'
<1>1. /\ updater[s].at = "restart" /\ (Mishap \/ NoMishap)
      /\ UNCHANGED <<root, dirs, link, recorded, offered, install, historyVars>>
  BY DEF Restart, UpdaterAt
<1>2. UpdaterTo(s, "health") \/ UpdaterTo(s, "unlink")
  BY DEF Restart
<1> QED BY <1>1, <1>2, TryStep

(* The engine is found healthy, or not.                                     *)
LEMMA HealthStep ==
    ASSUME InstallInv, NEW s \in Updater, EngineHealthChecked(s)
    PROVE  InstallInv'
<1>1. /\ updater[s].at = "health" /\ (Mishap \/ NoMishap)
      /\ UNCHANGED <<root, dirs, link, recorded, offered, install, historyVars>>
  BY DEF EngineHealthChecked, UpdaterAt, machineVars
<1>2. UpdaterTo(s, "enable") \/ UpdaterTo(s, "unlink")
  BY DEF EngineHealthChecked
<1> QED BY <1>1, <1>2, TryStep

(* A script that ends well leaves the version it was asked for linked.      *)
LEMMA EnableStep ==
    ASSUME InstallInv, NEW s \in Updater, Enable(s)
    PROVE  InstallInv'
<1>1. /\ InstallTyped /\ updater[s] \in UpdaterRecord
      /\ ~overlapped => LinkThere /\ Linked(s)
      /\ ~apart => ~overlapped /\ Told(s)
  BY WhatWasFound
<1>2. /\ updater[s].at = "enable" /\ Working(s) /\ (Mishap \/ NoMishap)
      /\ UNCHANGED <<root, dirs, link, recorded, offered, install, historyVars, apart, overlapped>>
  BY DEF Enable, UpdaterAt, Working, machineVars, historyVars
<1>3. CASE UpdaterEnds(s, TRUE)
  <2>1. /\ Moves(s)
        /\ updater[s].awaited => /\ updater'[s].at = "done" /\ updater'[s].ok = TRUE
                                 /\ updater'[s].version = updater[s].version
        /\ ~updater[s].awaited => updater'[s] = NoUpdater
    BY <1>1, <1>2, <1>3, EndsMoves
  <2>2. Beside
    BY <1>1, <1>2, InstallFaultBound DEF Beside, InstallTyped
  <2>3. ~overlapped => LinkThere' /\ Linked(s)'
    BY <2>1, <1>1, <1>2 DEF LinkThere, Linked, NoUpdater
  <2>4. ~apart => Told(s)'
    <3>1. updater[s].version \in EngineVersion BY <1>1, <1>2 DEF InstallTyped
    <3>2. ~apart => Named(link) = updater[s].version
      BY <1>1, <1>2, <3>1, NamedPaths DEF Linked
    <3> QED BY <2>1, <1>1, <1>2, <3>2 DEF Told, Moves, Named
  <2> QED BY <2>1, <2>2, <2>3, <2>4, <1>2, StepKeeps
<1>4. CASE UpdaterTo(s, "unlink")
  BY <1>2, <1>4, TryStep
<1> QED BY <1>3, <1>4 DEF Enable

(* The rollback links what was linked before, or nothing.                   *)
LEMMA UnlinkStep ==
    ASSUME InstallInv, NEW s \in Updater, Unlink(s)
    PROVE  InstallInv'
<1>1. /\ InstallTyped /\ updater[s] \in UpdaterRecord
      /\ ~overlapped => LinkThere /\ Linked(s)
      /\ ~apart => ~overlapped /\ Told(s)
  BY WhatWasFound
<1>2. /\ updater[s].at = "unlink" /\ Working(s)
      /\ UNCHANGED <<root, dirs, recorded, apart, overlapped>>
      /\ UpdaterTo(s, "remove") \/ UpdaterTo(s, "revive")
      /\ IF FirstInstallation(s) THEN link' = 0 ELSE link' = updater[s].previous
  BY DEF Unlink, UpdaterAt, Working, historyVars
<1>3. /\ Moves(s) /\ updater'[s].at \in {"remove", "revive"}
      /\ updater'[s].version = updater[s].version
      /\ updater'[s].previous = updater[s].previous
  BY <1>1, <1>2, ToMoves DEF UpdaterSteps
<1>4. Beside
  BY <1>1, <1>2, NamedPaths, EngineInstallAssumption
  DEF Unlink, Beside, InstallTyped, UpdaterRecord, historyVars
<1>5. ~overlapped => LinkThere' /\ Linked(s)'
  <2> SUFFICES ASSUME ~overlapped PROVE LinkThere' /\ Linked(s)' OBVIOUS
  <2>1. /\ {Named(updater[s].previous)} \ {0} \subseteq dirs
        /\ Named(updater[s].previous) # updater[s].version /\ link \in dirs
    BY <1>1, <1>2 DEF Linked
  <2>2. FirstInstallation(s) => Named(updater[s].previous) = 0
    BY <2>1, NamedPaths DEF FirstInstallation, IsDirectory, Named
  <2>3. Named(link)' = Named(updater[s].previous)
    BY <1>2, <2>2, NamedPaths DEF Named
  <2> QED BY <1>2, <1>3, <2>1, <2>3 DEF LinkThere, Linked
<1>6. ~apart => Told(s)'
  BY <1>1, <1>2, <1>3 DEF Told, Moves
<1> QED BY <1>2, <1>3, <1>4, <1>5, <1>6, StepKeeps

(* The previous engine is started again.                                    *)
LEMMA ReviveStep ==
    ASSUME InstallInv, NEW s \in Updater, RestartPrevious(s)
    PROVE  InstallInv'
<1>1. /\ InstallTyped /\ updater[s] \in UpdaterRecord
      /\ ~overlapped => LinkThere /\ Linked(s)
      /\ ~apart => ~overlapped /\ Told(s)
  BY WhatWasFound
<1>2. /\ updater[s].at = "revive" /\ Working(s) /\ UpdaterTo(s, "remove")
      /\ UNCHANGED <<root, dirs, link, recorded, offered, install, historyVars, apart, overlapped>>
      /\ Mishap \/ NoMishap
  BY DEF RestartPrevious, UpdaterAt, Working, historyVars
<1>3. /\ Moves(s) /\ updater'[s].at = "remove"
      /\ updater'[s].version = updater[s].version
      /\ updater'[s].previous = updater[s].previous
  BY <1>1, <1>2, ToMoves DEF UpdaterSteps
<1>4. Beside
  BY <1>1, <1>2, InstallFaultBound DEF Beside, InstallTyped
<1>5. ~overlapped => LinkThere' /\ Linked(s)'
  BY <1>1, <1>2, <1>3 DEF LinkThere, Linked
<1>6. ~apart => Told(s)'
  BY <1>1, <1>2, <1>3 DEF Told, Moves
<1> QED BY <1>2, <1>3, <1>4, <1>5, <1>6, StepKeeps

(* The directory that is removed is not the one that is linked again.       *)
LEMMA RemoveStep ==
    ASSUME InstallInv, NEW s \in Updater, RemoveVersion(s)
    PROVE  InstallInv'
<1>1. /\ InstallTyped /\ updater[s] \in UpdaterRecord
      /\ ~overlapped => LinkThere /\ Linked(s)
      /\ ~apart => ~overlapped /\ Told(s)
  BY WhatWasFound
<1>2. /\ updater[s].at = "remove" /\ Working(s)
      /\ dirs' = dirs \ {updater[s].version}
      /\ UNCHANGED <<root, link, recorded, apart, overlapped>>
  BY DEF RemoveVersion, UpdaterAt, Working, historyVars
<1>3. /\ Moves(s)
      /\ updater[s].awaited => updater'[s].at = "done" /\ updater'[s].ok = FALSE
      /\ ~updater[s].awaited => updater'[s] = NoUpdater
  BY <1>1, <1>2, EndsMoves DEF RemoveVersion
<1>4. Beside
  BY <1>1, <1>2 DEF RemoveVersion, Beside, InstallTyped, historyVars
<1>5. ~overlapped => LinkThere' /\ Linked(s)'
  BY <1>1, <1>2, <1>3 DEF LinkThere, Linked, NoUpdater
<1>6. ~apart => Told(s)'
  BY <1>1, <1>2, <1>3 DEF Told, Linked, Moves
<1> QED BY <1>2, <1>3, <1>4, <1>5, <1>6, StepKeeps
-----------------------------------------------------------------------------
(* The operation, the control plane and the owner.                          *)

(* update-engine is started: beside one that was given up, the two overlap. *)
LEMMA PreparedStep ==
    ASSUME InstallInv, EnginePrepared
    PROVE  InstallInv'
<1>1. PICK s \in Updater :
          /\ updater[s].at = "none"
          /\ \A r \in Updater : updater[r].at = "none" => s <= r
          /\ updater' = [updater EXCEPT ![s] =
                [NoUpdater EXCEPT !.at = "verify", !.version = install.version,
                                  !.awaited = TRUE]]
  BY DEF EnginePrepared
<1> DEFINE w == [NoUpdater EXCEPT !.at = "verify", !.version = install.version,
                                  !.awaited = TRUE]
<1>2. /\ InstallTyped /\ install.phase = "prepare" /\ install.version \in EngineVersion
      /\ UNCHANGED <<root, dirs, link, recorded, offered, installFaults>>
  BY DEF EnginePrepared, InstallInv, InstallTyped, InstallLocked, machineVars
<1>3. /\ w \in UpdaterRecord /\ w.at = "verify" /\ w.awaited = TRUE
      /\ w.version = install.version
  <2>1. NoUpdater \in UpdaterRecord
    BY EngineInstallAssumption, NamedPaths DEF NoUpdater, UpdaterRecord, UpdaterSteps
  <2>2. install.version \in 0..MaxVersion
    BY <1>2 DEF InstallTyped
  <2> QED BY <2>1, <2>2 DEF UpdaterRecord, UpdaterSteps
<1>4. updater' = [updater EXCEPT ![s] = w]
  BY <1>1
<1> HIDE DEF w
<1>5. /\ updater'[s] = w /\ updater' \in [Updater -> UpdaterRecord]
      /\ \A r \in Updater : r # s => updater'[r] = updater[r]
  BY <1>2, <1>3, <1>4 DEF InstallTyped
<1>6. /\ install'.phase = "asked" /\ install'.version = install.version
      /\ install' \in [phase : {"idle", "prepare", "asked", "completed", "failed",
                                "orphaned"}, version : 0..MaxVersion]
  BY <1>2 DEF EnginePrepared, InstallPhase, InstallTyped
<1>7. \A r \in Updater : ~updater[r].awaited /\ updater[r].at # "done"
  BY <1>2 DEF InstallInv, Awaits
<1>8. overlapped' = (overlapped \/ \E r \in Updater : Working(r))
  BY DEF EnginePrepared
<1>9. apart' = (apart \/ overlapped')
  BY DEF EnginePrepared
<1>10. overlapped' \in BOOLEAN /\ apart' \in BOOLEAN
  BY <1>8, <1>9, <1>2 DEF InstallTyped
<1>11. InstallTyped'
  <2>1. \A r \in Updater : updater'[r].at # "none" => updater'[r].version \in EngineVersion
    BY <1>2, <1>3, <1>5 DEF InstallTyped
  <2> QED BY <2>1, <1>2, <1>5, <1>6, <1>10 DEF InstallTyped, InstallLocked
<1>12. Awaits'
  BY <1>3, <1>5, <1>6, <1>7 DEF Awaits
<1>13. ASSUME ~overlapped'
       PROVE  /\ ~overlapped
              /\ \A r \in Updater : r # s => updater[r].at = "none" /\ updater'[r].at = "none"
  <2>1. ~overlapped /\ \A r \in Updater : ~Working(r)
    BY <1>8, <1>13
  <2>2. \A r \in Updater : updater[r].at = "none"
    BY <2>1, <1>7 DEF Working
  <2> QED BY <2>1, <2>2, <1>5
<1>14. ASSUME ~overlapped'
       PROVE  Alone' /\ LinkThere' /\ \A r \in Updater : Linked(r)'
  <2>1. Alone'
    BY <1>13, <1>14 DEF Alone
  <2>2. LinkThere'
    BY <1>13, <1>14, <1>2 DEF LinkThere, InstallInv
  <2>3. \A r \in Updater : updater'[r].at \in {"none", "verify"}
    BY <1>13, <1>14, <1>3, <1>5
  <2>4. \A r \in Updater : Linked(r)'
    BY <2>3 DEF Linked
  <2> QED BY <2>1, <2>2, <2>4
<1>15. ASSUME ~apart' PROVE \A r \in Updater : Told(r)'
  <2>1. ~overlapped' /\ ~apart
    BY <1>15, <1>9
  <2>2. recorded = Named(link)
    BY <2>1, <1>2 DEF InstallInv
  <2>3. \A r \in Updater : r # s => updater'[r].at = "none"
    BY <2>1, <1>13
  <2>4. \A r \in Updater : r # s => Told(r)'
    BY <2>3 DEF Told
  <2>5. Told(s)'
    BY <2>2, <1>2, <1>3, <1>5 DEF Told
  <2> QED BY <2>4, <2>5
<1> QED BY <1>6, <1>9, <1>11, <1>12, <1>14, <1>15 DEF InstallInv

(* The answer is read: the slot is empty again, and SQLite says what the    *)
(* script has linked.                                                       *)
LEMMA AnswerStep ==
    ASSUME InstallInv, Recorded \/ InstallRejected
    PROVE  InstallInv'
<1>1. PICK s \in Updater :
          /\ install.phase = "asked" /\ updater[s].at = "done"
          /\ updater' = [updater EXCEPT ![s] = NoUpdater]
          /\ UNCHANGED <<root, dirs, link, offered, installFaults, overlapped>>
          /\ \/ /\ updater[s].ok /\ recorded' = install.version
                /\ apart' = (apart /\ (overlapped \/ recorded' # link))
                /\ InstallPhase("completed")
             \/ /\ ~updater[s].ok /\ UNCHANGED <<recorded, apart>>
                /\ InstallPhase("failed")
  BY DEF Recorded, InstallRejected, machineVars, historyVars
<1>2. /\ InstallTyped /\ install.version \in EngineVersion
      /\ updater[s].awaited /\ updater[s].version = install.version
      /\ \A r \in Updater : updater[r].awaited => r = s
  BY <1>1 DEF InstallInv, InstallTyped, InstallLocked, Awaits
<1>3. /\ NoUpdater \in UpdaterRecord /\ NoUpdater.at = "none"
      /\ NoUpdater.awaited = FALSE
  BY EngineInstallAssumption, NamedPaths DEF NoUpdater, UpdaterRecord, UpdaterSteps
<1>4. /\ updater'[s] = NoUpdater /\ updater' \in [Updater -> UpdaterRecord]
      /\ \A r \in Updater : r # s => updater'[r] = updater[r]
  BY <1>1, <1>2, <1>3 DEF InstallTyped
<1>5. /\ install'.phase \in {"completed", "failed"}
      /\ install' \in [phase : {"idle", "prepare", "asked", "completed", "failed",
                                "orphaned"}, version : 0..MaxVersion]
  BY <1>1, <1>2 DEF InstallPhase, InstallTyped
<1>6. apart' \in BOOLEAN /\ recorded' \in 0..MaxVersion
  BY <1>1, <1>2 DEF InstallTyped, EngineVersion
<1>7. InstallTyped'
  <2>1. \A r \in Updater : updater'[r].at # "none" => updater'[r].version \in EngineVersion
    BY <1>2, <1>3, <1>4 DEF InstallTyped
  <2> QED BY <2>1, <1>1, <1>2, <1>4, <1>5, <1>6 DEF InstallTyped, InstallLocked
<1>8. \A r \in Updater : ~updater'[r].awaited
  BY <1>2, <1>3, <1>4
<1>9. Awaits'
  <2>1. \A r \in Updater : updater'[r].at # "done"
    BY <1>2, <1>3, <1>4 DEF InstallInv, Awaits
  <2> QED BY <2>1, <1>8 DEF Awaits
<1>10. ASSUME ~overlapped
       PROVE  LinkThere' /\ \A r \in Updater : updater'[r].at = "none"
  BY <1>10, <1>1, <1>3, <1>4 DEF InstallInv, Alone, LinkThere
<1>11. ~overlapped' => Alone' /\ LinkThere' /\ \A r \in Updater : Linked(r)'
  BY <1>1, <1>10 DEF Alone, Linked
<1>12. overlapped' => apart'
  BY <1>1 DEF InstallInv
<1>13. ~apart' => ~overlapped
  BY <1>1 DEF InstallInv
<1>14. ~apart' => \A r \in Updater : Told(r)'
  BY <1>10, <1>13 DEF Told
<1>15. ~apart' => recorded' = Named(link)'
  <2>1. CASE /\ updater[s].ok /\ recorded' = install.version
             /\ apart' = (apart /\ (overlapped \/ recorded' # link))
    <3>1. UNCHANGED link /\ apart \in BOOLEAN BY <1>1, <1>2 DEF InstallTyped
    <3>2. CASE ~apart BY <2>1, <3>1, <3>2, <1>1, <1>2 DEF InstallInv, Told, Named
    <3>3. CASE recorded' = link
      <4>1. Named(link) = link BY <3>3, <2>1, <1>2, NamedPaths
      <4> QED BY <3>1, <3>3, <4>1 DEF Named
    <3> QED BY <2>1, <3>1, <3>2, <3>3
  <2>2. CASE ~updater[s].ok /\ UNCHANGED <<recorded, apart>>
    BY <2>2, <1>1 DEF InstallInv, Told
  <2> QED BY <2>1, <2>2, <1>1
<1> QED BY <1>7, <1>9, <1>11, <1>12, <1>14, <1>15 DEF InstallInv

(* The answer is no longer waited for: the script goes on unawaited.        *)
LEMMA GivesUpStep ==
    ASSUME InstallInv, GivesUp
    PROVE  InstallInv'
<1>1. PICK s \in Updater :
          /\ Working(s)
          /\ updater' = [updater EXCEPT ![s].awaited = FALSE]
          /\ updater[s].awaited
  BY DEF GivesUp
<1> DEFINE w == [updater[s] EXCEPT !.awaited = FALSE]
<1>2. /\ InstallTyped /\ Mishap /\ InstallPhase("failed") /\ apart' = TRUE
      /\ UNCHANGED <<root, dirs, link, recorded, offered, overlapped>>
  BY DEF GivesUp, InstallInv, machineVars
<1>3. /\ w \in UpdaterRecord /\ w.at = updater[s].at /\ w.awaited = FALSE
      /\ w.version = updater[s].version /\ w.previous = updater[s].previous
  BY <1>2 DEF InstallTyped, UpdaterRecord
<1>4. updater' = [updater EXCEPT ![s] = w]
  BY <1>1
<1> HIDE DEF w
<1>5. /\ updater'[s] = w /\ updater' \in [Updater -> UpdaterRecord]
      /\ \A r \in Updater : r # s => updater'[r] = updater[r]
  BY <1>2, <1>3, <1>4 DEF InstallTyped
<1>6. \A r \in Updater : /\ updater'[r].at = updater[r].at
                          /\ updater'[r].version = updater[r].version
                          /\ updater'[r].previous = updater[r].previous
  BY <1>3, <1>5
<1>7. /\ install'.phase = "failed"
      /\ install' \in [phase : {"idle", "prepare", "asked", "completed", "failed",
                                "orphaned"}, version : 0..MaxVersion]
  BY <1>2 DEF InstallPhase, InstallTyped
<1>8. installFaults' \in 0..MaxInstallFaults
  BY <1>2, InstallFaultBound DEF InstallTyped
<1>9. InstallTyped'
  BY <1>2, <1>5, <1>6, <1>7, <1>8 DEF InstallTyped, InstallLocked
<1>10. Awaits'
  <2>1. \A r \in Updater : ~updater'[r].awaited
    BY <1>1, <1>3, <1>5 DEF InstallInv, Awaits
  <2>2. \A r \in Updater : updater[r].at # "done"
    BY <1>1 DEF InstallInv, Awaits, Working
  <2> QED BY <2>1, <2>2, <1>6 DEF Awaits
<1>11. ~overlapped' => Alone' /\ LinkThere' /\ \A r \in Updater : Linked(r)'
  <2> SUFFICES ASSUME ~overlapped
               PROVE  Alone' /\ LinkThere' /\ \A r \in Updater : Linked(r)'
    BY <1>2
  <2>1. Alone'
    BY <1>6 DEF InstallInv, Alone
  <2>2. LinkThere'
    BY <1>2 DEF InstallInv, LinkThere
  <2>3. \A r \in Updater : Linked(r)'
    BY <1>2, <1>6 DEF InstallInv, Linked
  <2> QED BY <2>1, <2>2, <2>3
<1> QED BY <1>2, <1>9, <1>10, <1>11 DEF InstallInv
(* The control plane is gone: no script is awaited any more.                *)
LEMMA PlaneRestartStep ==
    ASSUME InstallInv, PlaneRestarts
    PROVE  InstallInv'
<1>1. /\ InstallTyped /\ Mishap
      /\ IF InstallLocked THEN InstallPhase("orphaned") ELSE UNCHANGED install
      /\ recorded' = IF link \in dirs THEN recorded ELSE 0
      /\ apart' = (apart \/ install.phase = "asked")
      /\ UNCHANGED <<root, dirs, link, offered, overlapped>>
  BY DEF PlaneRestarts, InstallInv, machineVars
<1>2. \A r \in Updater :
         /\ updater'[r] \in UpdaterRecord /\ ~updater'[r].awaited
         /\ updater'[r].at # "done"
         /\ \/ updater'[r].at = "none"
            \/ /\ updater'[r].at = updater[r].at
               /\ updater'[r].version = updater[r].version
               /\ updater'[r].previous = updater[r].previous
  <2> SUFFICES ASSUME NEW r \in Updater
               PROVE  /\ updater'[r] \in UpdaterRecord /\ ~updater'[r].awaited
                      /\ updater'[r].at # "done"
                      /\ \/ updater'[r].at = "none"
                         \/ /\ updater'[r].at = updater[r].at
                            /\ updater'[r].version = updater[r].version
                            /\ updater'[r].previous = updater[r].previous
    OBVIOUS
  <2>1. updater[r] \in UpdaterRecord
    BY <1>1 DEF InstallTyped
  <2>2. CASE updater[r].at = "done"
    <3>1. updater'[r] = NoUpdater
      BY <2>2 DEF PlaneRestarts
    <3> QED BY <3>1, EngineInstallAssumption, NamedPaths DEF NoUpdater, UpdaterRecord, UpdaterSteps
  <2>3. CASE updater[r].at # "done"
    <3>1. updater'[r] = [updater[r] EXCEPT !.awaited = FALSE]
      BY <2>3 DEF PlaneRestarts
    <3> QED BY <3>1, <2>1, <2>3 DEF UpdaterRecord
  <2> QED BY <2>2, <2>3
<1>3. updater' \in [Updater -> UpdaterRecord]
  BY <1>2 DEF PlaneRestarts
<1>4. /\ install'.phase \notin {"prepare", "asked"}
      /\ install' \in [phase : {"idle", "prepare", "asked", "completed", "failed",
                                "orphaned"}, version : 0..MaxVersion]
      /\ install.phase # "asked" => install'.phase # "asked"
  BY <1>1 DEF InstallPhase, InstallTyped, InstallLocked
<1>5. /\ installFaults' \in 0..MaxInstallFaults
      /\ recorded' \in 0..MaxVersion /\ apart' \in BOOLEAN
  BY <1>1, InstallFaultBound, EngineInstallAssumption DEF InstallTyped
<1>6. InstallTyped'
  <2>1. \A r \in Updater : updater'[r].at # "none" => updater'[r].version \in EngineVersion
    BY <1>1, <1>2 DEF InstallTyped
  <2> QED BY <2>1, <1>1, <1>3, <1>4, <1>5 DEF InstallTyped, InstallLocked
<1>7. Awaits'
  BY <1>2 DEF Awaits
<1>8. ~overlapped' => Alone' /\ LinkThere' /\ \A r \in Updater : Linked(r)'
  <2> SUFFICES ASSUME ~overlapped
               PROVE  Alone' /\ LinkThere' /\ \A r \in Updater : Linked(r)'
    BY <1>1
  <2>1. Alone'
    BY <1>2 DEF InstallInv, Alone
  <2>2. LinkThere'
    BY <1>1 DEF InstallInv, LinkThere
  <2>3. \A r \in Updater : Linked(r)'
    BY <1>1, <1>2 DEF InstallInv, Linked
  <2> QED BY <2>1, <2>2, <2>3
<1>9. ASSUME ~apart'
      PROVE  (\A r \in Updater : Told(r)') /\ recorded' = Named(link)'
  <2>1. ~apart /\ install.phase # "asked"
    BY <1>1, <1>9
  <2>2. recorded = Named(link) /\ LinkThere
    BY <2>1 DEF InstallInv
  <2>3. \A r \in Updater : updater[r].at = "none"
    BY <2>1 DEF InstallInv, Told, Awaits
  <2>4. \A r \in Updater : Told(r)'
    BY <2>3, <1>2 DEF Told
  <2>5. recorded' = Named(link)'
    <3>1. 0 \notin dirs /\ link \in Paths BY <1>1, NamedPaths DEF InstallTyped
    <3>2. recorded' = recorded
      BY <2>2, <1>1, <3>1, NamedPaths DEF LinkThere
    <3> QED BY <3>2, <2>2, <1>1
  <2> QED BY <2>4, <2>5
<1> QED BY <1>1, <1>6, <1>7, <1>8, <1>9 DEF InstallInv

(* Every script is gone, wherever it was: what was linked stays linked.     *)
LEMMA KilledStep ==
    ASSUME InstallInv, ScriptsKilled
    PROVE  InstallInv'
<1>1. /\ InstallTyped /\ Mishap /\ apart' = TRUE
      /\ updater' = [r \in Updater |-> NoUpdater]
      /\ IF install.phase = "asked" THEN InstallPhase("failed") ELSE UNCHANGED install
      /\ UNCHANGED <<dirs, link, recorded, offered, overlapped>>
  BY DEF ScriptsKilled, InstallInv
<1>2. /\ NoUpdater \in UpdaterRecord /\ NoUpdater.at = "none"
      /\ NoUpdater.awaited = FALSE
  BY EngineInstallAssumption, NamedPaths DEF NoUpdater, UpdaterRecord, UpdaterSteps
<1>3. \A r \in Updater : updater'[r].at = "none" /\ updater'[r].awaited = FALSE
  BY <1>1, <1>2
<1>4. /\ install' \in [phase : {"idle", "prepare", "asked", "completed", "failed",
                                "orphaned"}, version : 0..MaxVersion]
      /\ InstallLocked' => install'.version \in EngineVersion
  BY <1>1 DEF InstallPhase, InstallTyped, InstallLocked
<1>5. installFaults' \in 0..MaxInstallFaults
  BY <1>1, InstallFaultBound DEF InstallTyped
<1>6. InstallTyped'
  <2>1. root' \in BOOLEAN BY <1>1 DEF ScriptsKilled, InstallTyped
  <2> QED BY <1>1, <1>2, <1>3, <1>4, <1>5, <2>1 DEF InstallTyped
<1>7. Awaits'
  BY <1>3 DEF Awaits
<1>8. ~overlapped' => Alone' /\ LinkThere' /\ \A r \in Updater : Linked(r)'
  BY <1>1, <1>3 DEF InstallInv, Alone, LinkThere, Linked
<1> QED BY <1>1, <1>6, <1>7, <1>8 DEF InstallInv

(* Before an update is asked for, and beside it: neither the directories,   *)
(* the link nor a script changes.                                           *)
LEMMA BesideScriptStep ==
    ASSUME InstallInv, UNCHANGED <<root, dirs, link, updater, recorded, historyVars>>,
           offered' \in EngineVersion, installFaults' \in 0..MaxInstallFaults,
           install' \in [phase : {"idle", "prepare", "asked", "completed", "failed",
                                  "orphaned"}, version : 0..MaxVersion],
           InstallLocked' => install'.version \in EngineVersion,
           \/ install' = install
           \/ install.phase # "asked" /\ install'.phase # "asked"
    PROVE  InstallInv'
<1>1. InstallTyped'
  BY DEF InstallInv, InstallTyped, historyVars
<1>2. \A s \in Updater : install.phase # "asked" => ~updater[s].awaited
  BY DEF InstallInv, Awaits
<1>3. Awaits'
  BY <1>2 DEF InstallInv, Awaits
<1>4. Alone' = Alone /\ LinkThere' = LinkThere
  BY DEF Alone, LinkThere
<1>5. \A s \in Updater : (Linked(s) => Linked(s)') /\ (Told(s) => Told(s)')
  BY DEF Linked, Told
<1> QED BY <1>1, <1>3, <1>4, <1>5 DEF InstallInv, historyVars

(* The invariant holds at first ...                                         *)
LEMMA InstallInvInit ==
    ASSUME EngineInstallInit
    PROVE  InstallInv
<1>1. /\ NoUpdater \in UpdaterRecord /\ NoUpdater.at = "none"
      /\ NoUpdater.awaited = FALSE
  BY EngineInstallAssumption, NamedPaths DEF NoUpdater, UpdaterRecord, UpdaterSteps
<1>2. /\ updater \in [Updater -> UpdaterRecord]
      /\ \A s \in Updater : updater[s].at = "none" /\ updater[s].awaited = FALSE
  BY <1>1 DEF EngineInstallInit
<1>3. InstallTyped
  <2>1. 1 \in EngineVersion /\ {0, 1} \subseteq 0..MaxVersion /\ 0 \in 0..MaxInstallFaults
    BY EngineInstallAssumption DEF EngineVersion
  <2> QED BY <2>1, <1>2, NamedPaths DEF EngineInstallInit, InstallTyped, InstallLocked
<1>4. Named(0) = 0 /\ Named(1) = 1
  BY NamedPaths, EngineInstallAssumption DEF EngineVersion
<1> QED BY <1>2, <1>3, <1>4
    DEF EngineInstallInit, InstallInv, Awaits, Alone, LinkThere, Linked, Told

(* ... and every step keeps it.                                             *)
LEMMA InstallInvNext ==
    ASSUME InstallInv, [EngineInstallNext]_installVars
    PROVE  InstallInv'
<1>1. CASE Discover
  <2>1. offered' \in EngineVersion
    BY <1>1, EngineInstallAssumption DEF Discover, InstallInv, InstallTyped, EngineVersion
  <2> QED BY <1>1, <2>1, BesideScriptStep
      DEF Discover, machineVars, InstallInv, InstallTyped, InstallLocked
<1>2. CASE ConfirmInstall
  <2>1. /\ install' = [phase |-> "prepare", version |-> offered]
        /\ install.phase # "asked" /\ offered \in EngineVersion
        /\ offered \in 0..MaxVersion
    BY <1>2, EngineInstallAssumption
    DEF ConfirmInstall, InstallLocked, InstallInv, InstallTyped, EngineVersion
  <2> QED BY <1>2, <2>1, BesideScriptStep
      DEF ConfirmInstall, machineVars, InstallInv, InstallTyped, InstallLocked
<1>3. CASE PreparationFails
  <2>1. /\ install'.phase = "failed" /\ install.phase # "asked"
        /\ install' \in [phase : {"idle", "prepare", "asked", "completed", "failed",
                                  "orphaned"}, version : 0..MaxVersion]
    BY <1>3 DEF PreparationFails, InstallPhase, InstallInv, InstallTyped
  <2>2. installFaults' \in 0..MaxInstallFaults
    BY <1>3, InstallFaultBound DEF PreparationFails, InstallInv, InstallTyped
  <2> QED BY <1>3, <2>1, <2>2, BesideScriptStep
      DEF PreparationFails, machineVars, InstallInv, InstallTyped, InstallLocked
<1>4. CASE OwnerStops \/ OwnerStarts \/ UNCHANGED installVars
  BY <1>4, BesideScriptStep
  DEF OwnerStops, OwnerStarts, installVars, machineVars, InstallInv, InstallTyped,
      InstallLocked
<1>5. CASE \E s \in Updater : UpdateEngine(s)
  BY <1>5, VerifyStep, PlaceStep, SwitchStep, ValidateStep, RestartStep, HealthStep,
     EnableStep, UnlinkStep, ReviveStep, RemoveStep DEF UpdateEngine
<1>6. CASE EnginePrepared \/ Recorded \/ InstallRejected \/ GivesUp
  BY <1>6, PreparedStep, AnswerStep, GivesUpStep
<1>7. CASE PlaneRestarts \/ ScriptsKilled
  BY <1>7, PlaneRestartStep, KilledStep
<1> QED BY <1>1, <1>2, <1>3, <1>4, <1>5, <1>6, <1>7 DEF EngineInstallNext
(* Whatever is answered, given up or lost, and wherever a script is killed, *)
(* the invariant of the installation holds.                                 *)
THEOREM InstallationCorrect == EngineInstallSpec => []InstallInv
<1>1. InstallInv /\ [EngineInstallNext]_installVars => InstallInv'
  BY InstallInvNext
<1>2. EngineInstallInit => InstallInv
  BY InstallInvInit
<1> QED BY <1>1, <1>2, PTL DEF EngineInstallSpec

(* With no installation under way, and none that ended unanswered or beside *)
(* another, SQLite knows the version the link names, and its files are      *)
(* there; the link names no version whose directory is gone, and where it   *)
(* leads to itself, as a failed attempt after another leaves it, SQLite     *)
(* knows no version.                                                        *)
THEOREM EngineRecorded == EngineInstallSpec => []RecordIsLinked
<1>1. InstallInv => RecordIsLinked
  <2> SUFFICES ASSUME InstallInv PROVE RecordIsLinked
    OBVIOUS
  <2>1. ~overlapped => {Named(link)} \ {0} \subseteq dirs
    BY DEF InstallInv, LinkThere
  <2>2. ~apart /\ ~InstallLocked => recorded = Named(link)
    BY DEF InstallInv, InstallLocked
  <2>3. ~apart => ~overlapped
    BY DEF InstallInv
  <2> QED BY <2>1, <2>2, <2>3 DEF RecordIsLinked
<1> QED BY <1>1, InstallationCorrect, PTL
(***************************************************************************)
(* The restore.                                                            *)
(***************************************************************************)
ScriptRecord == [at : Steps, next : 1..7, snap : Disks, active : BOOLEAN]

Holding(r) == script[r].at \notin {"none", "scheduled", "done"}
Armed(r)   == script[r].at \in {"apply", "health", "back"}
NoneRestored(d) == \A p \in Part : d[p] # "restored"

OneRestore == \A r, q \in Request : Holding(r) /\ Holding(q) => r = q

(* What each command of the script leaves behind: nothing before it is      *)
(* armed, then part after part, and on the way back no part that the        *)
(* rollback has been through is from the backup.                            *)
LeavesBehind(r) ==
    /\ script[r].at \in {"validate", "snapshot"} => NoneRestored(disk)
    /\ Armed(r) => script[r].active /\ NoneRestored(script[r].snap)
    /\ script[r].at = "apply" =>
         /\ plane => script[r].next = 1
         /\ \A i \in 1..6 : disk[Order[i]] = "restored" <=> i < script[r].next
    /\ script[r].at = "health" => plane /\ disk = Restored
    /\ script[r].at = "back" =>
         /\ ~plane
         /\ \A i \in 1..6 : i < script[r].next => disk[BackOrder[i]] # "restored"

Whole == plane /\ (disk = Restored \/ NoneRestored(disk))

RestoreInv ==
    /\ RestoreTypeOK
    /\ OneRestore
    /\ ~spoiled => /\ \A r \in Request : LeavesBehind(r)
                   /\ (\A r \in Request : ~Armed(r)) => Whole

-----------------------------------------------------------------------------
(* The parts, in either order, are all the parts, each of them once.        *)
LEMMA Orders ==
    /\ Len(Order) = 6 /\ Len(BackOrder) = 6
    /\ \A i \in 1..6 : Order[i] \in Part /\ BackOrder[i] \in Part
    /\ \A i, j \in 1..6 : Order[i] = Order[j] => i = j
    /\ \A p \in Part : /\ \E i \in 1..6 : Order[i] = p
                       /\ \E i \in 1..6 : BackOrder[i] = p
<1>1. /\ Order[1] = "engine" /\ Order[2] = "db" /\ Order[3] = "key"
      /\ Order[4] = "env" /\ Order[5] = "config" /\ Order[6] = "nginx"
      /\ Len(Order) = 6
  BY DEF Order
<1>2. /\ BackOrder[1] = "db" /\ BackOrder[2] = "key" /\ BackOrder[3] = "env"
      /\ BackOrder[4] = "config" /\ BackOrder[5] = "engine" /\ BackOrder[6] = "nginx"
      /\ Len(BackOrder) = 6
  BY DEF BackOrder
<1>3. \A i \in 1..6 : i = 1 \/ i = 2 \/ i = 3 \/ i = 4 \/ i = 5 \/ i = 6
  OBVIOUS
<1>4. \A i \in 1..6 : Order[i] \in Part /\ BackOrder[i] \in Part
  BY <1>1, <1>2, <1>3 DEF Part
<1>5. \A i, j \in 1..6 : Order[i] = Order[j] => i = j
  BY <1>1, <1>3
<1>6. \A p \in Part : /\ \E i \in 1..6 : Order[i] = p
                      /\ \E i \in 1..6 : BackOrder[i] = p
  BY <1>1, <1>2 DEF Part
<1> QED BY <1>1, <1>2, <1>4, <1>5, <1>6

(* A fault more, or none, stays within the bound.                           *)
LEMMA RestoreFaultBound ==
    ASSUME restoreFaults \in 0..MaxRestoreFaults, Fault \/ NoFault
    PROVE  restoreFaults' \in 0..MaxRestoreFaults
BY RestoreAssumption DEF Fault, NoFault

(* The scripts are well-typed, the empty and the ended one as well.         *)
LEMMA ScriptRecords ==
    /\ RestoreTypeOK => script \in [Request -> ScriptRecord]
    /\ NoScript \in ScriptRecord
    /\ [NoScript EXCEPT !.at = "done"] \in ScriptRecord
    /\ [NoScript EXCEPT !.at = "done"].at = "done"
<1>1. Untouched \in Disks
  BY DEF Untouched, Disks, PartState
<1>2. NoScript \in ScriptRecord
  BY <1>1 DEF NoScript, ScriptRecord, Steps
<1>3. /\ [NoScript EXCEPT !.at = "done"] \in ScriptRecord
      /\ [NoScript EXCEPT !.at = "done"].at = "done"
  BY <1>2 DEF ScriptRecord, Steps
<1> QED BY <1>2, <1>3 DEF RestoreTypeOK, ScriptRecord

(* When only r can hold the lock and it is not armed, the server is whole.  *)
LEMMA WholeUnarmed ==
    ASSUME RestoreInv, ~spoiled, NEW r \in Request, ~Armed(r),
           \A q \in Request : Holding(q) => q = r
    PROVE  Whole
<1>1. \A q \in Request : ~Armed(q)
  BY DEF Armed, Holding
<1> QED BY <1>1 DEF RestoreInv

(* A step of the script that has the lock, or takes it, keeps the invariant *)
(* when it leaves behind what it should.                                    *)
LEMMA HolderSteps ==
    ASSUME RestoreInv, NEW r \in Request, NEW w \in ScriptRecord,
           \A q \in Request : Holding(q) => q = r,
           script' = [script EXCEPT ![r] = w],
           disk' \in Disks, plane' \in BOOLEAN, restoring' \in BOOLEAN,
           spoiled' \in BOOLEAN, Fault \/ NoFault,
           ~spoiled' => LeavesBehind(r)' /\ (~Armed(r)' => Whole')
    PROVE  RestoreInv'
<1>1. /\ script \in [Request -> ScriptRecord]
      /\ script' \in [Request -> ScriptRecord] /\ script'[r] = w
      /\ \A q \in Request : q # r => script'[q] = script[q]
  BY ScriptRecords DEF RestoreInv
<1>2. RestoreTypeOK'
  BY <1>1, RestoreFaultBound DEF RestoreInv, RestoreTypeOK, ScriptRecord
<1>3. \A q \in Request : q # r => ~Holding(q)'
  BY <1>1 DEF Holding
<1>4. OneRestore'
  BY <1>3 DEF OneRestore
<1>5. \A q \in Request : q # r => LeavesBehind(q)' /\ ~Armed(q)'
  BY <1>3 DEF LeavesBehind, Holding, Armed
<1>6. ~spoiled' => /\ \A q \in Request : LeavesBehind(q)'
                   /\ (\A q \in Request : ~Armed(q)') => Whole'
  BY <1>5
<1> QED BY <1>2, <1>4, <1>6 DEF RestoreInv

(* A script that did not have the lock ends, and touches nothing.           *)
LEMMA UnheldEnds ==
    ASSUME RestoreInv, NEW r \in Request, ~Holding(r), Ended(r), NoFault,
           UNCHANGED <<disk, plane, restoring, spoiled>>
    PROVE  RestoreInv'
<1> DEFINE w == [NoScript EXCEPT !.at = "done"]
<1>1. w \in ScriptRecord /\ w.at = "done" /\ script' = [script EXCEPT ![r] = w]
  BY ScriptRecords DEF Ended
<1> HIDE DEF w
<1>2. /\ script \in [Request -> ScriptRecord]
      /\ script' \in [Request -> ScriptRecord] /\ script'[r] = w
      /\ \A q \in Request : q # r => script'[q] = script[q]
  BY <1>1, ScriptRecords DEF RestoreInv
<1>3. RestoreTypeOK'
  BY <1>2, RestoreFaultBound DEF RestoreInv, RestoreTypeOK, ScriptRecord
<1>4. ~Holding(r)' /\ ~Armed(r)' /\ LeavesBehind(r)' /\ ~Armed(r)
  BY <1>1, <1>2 DEF Holding, Armed, LeavesBehind
<1>5. \A q \in Request : q # r => /\ Holding(q)' = Holding(q)
                                  /\ Armed(q)' = Armed(q)
                                  /\ LeavesBehind(q)' = LeavesBehind(q)
  BY <1>2 DEF Holding, Armed, LeavesBehind, NoneRestored
<1>6. OneRestore'
  BY <1>4, <1>5 DEF RestoreInv, OneRestore
<1>7. Whole' = Whole
  BY DEF Whole, NoneRestored
<1>8. ~spoiled => \A q \in Request : LeavesBehind(q)'
  BY <1>4, <1>5 DEF RestoreInv
<1>9. ~spoiled => ((\A q \in Request : ~Armed(q)') => Whole')
  BY <1>4, <1>5, <1>7 DEF RestoreInv
<1> QED BY <1>3, <1>6, <1>8, <1>9 DEF RestoreInv-----------------------------------------------------------------------------
(* The record of a script that goes on to the first command of a step.      *)
LEMMA ToRecord ==
    ASSUME RestoreTypeOK, NEW r \in Request, NEW step \in Steps, To(r, step)
    PROVE  \E w \in ScriptRecord :
              /\ script' = [script EXCEPT ![r] = w] /\ script'[r] = w
              /\ w.at = step /\ w.next = 1 /\ w.snap = script[r].snap
              /\ w.active = script[r].active
<1> DEFINE w == [script[r] EXCEPT !.at = step, !.next = 1]
<1>1. script[r] \in ScriptRecord
  BY ScriptRecords
<1>2. /\ w \in ScriptRecord /\ w.at = step /\ w.next = 1 /\ w.snap = script[r].snap
      /\ w.active = script[r].active
  <2>1. 1 \in 1..7
    OBVIOUS
  <2> QED BY <1>1, <2>1 DEF ScriptRecord
<1>3. script' = [script EXCEPT ![r] = w]
  BY DEF To
<1> HIDE DEF w
<1>4. script'[r] = w
  BY <1>3, ScriptRecords
<1> QED BY <1>2, <1>3, <1>4

(* The record of a script that goes on to the next part.                    *)
LEMMA NextRecord ==
    ASSUME RestoreTypeOK, NEW r \in Request, script[r].next <= 6,
           script' = [script EXCEPT ![r].next = @ + 1]
    PROVE  \E w \in ScriptRecord :
              /\ script' = [script EXCEPT ![r] = w] /\ script'[r] = w
              /\ w.at = script[r].at /\ w.next = script[r].next + 1
              /\ w.snap = script[r].snap /\ w.active = script[r].active
<1> DEFINE w == [script[r] EXCEPT !.next = @ + 1]
<1>1. script[r] \in ScriptRecord
  BY ScriptRecords
<1>2. /\ w \in ScriptRecord /\ w.at = script[r].at /\ w.next = script[r].next + 1
      /\ w.snap = script[r].snap /\ w.active = script[r].active
  <2>1. script[r].next + 1 \in 1..7
    BY <1>1 DEF ScriptRecord
  <2> QED BY <1>1, <2>1 DEF ScriptRecord
<1>3. script' = [script EXCEPT ![r] = w]
  OBVIOUS
<1> HIDE DEF w
<1>4. script'[r] = w
  BY <1>3, ScriptRecords
<1> QED BY <1>2, <1>3, <1>4

(* The record of a script that has ended.                                   *)
LEMMA EndedRecord ==
    ASSUME RestoreTypeOK, NEW r \in Request, Ended(r)
    PROVE  \E w \in ScriptRecord :
              /\ script' = [script EXCEPT ![r] = w] /\ script'[r] = w /\ w.at = "done"
<1> DEFINE w == [NoScript EXCEPT !.at = "done"]
<1>1. w \in ScriptRecord /\ w.at = "done" /\ script' = [script EXCEPT ![r] = w]
  BY ScriptRecords DEF Ended
<1> HIDE DEF w
<1> QED BY <1>1, ScriptRecords

(* Before it is armed a script that goes on, or ends, leaves the server     *)
(* whole as it was.                                                         *)
LEMMA UnarmedGoesOn ==
    ASSUME RestoreInv, NEW r \in Request, ~Armed(r),
           \A q \in Request : Holding(q) => q = r,
           \/ \E step \in {"check", "scheduled", "validate", "snapshot"} : To(r, step)
           \/ Ended(r),
           (To(r, "validate") \/ To(r, "snapshot")) => (~spoiled => NoneRestored(disk)),
           UNCHANGED <<disk, plane, spoiled>>, restoring' \in BOOLEAN, Fault \/ NoFault
    PROVE  RestoreInv'
<1>1. RestoreTypeOK
  BY DEF RestoreInv
<1>2. PICK w \in ScriptRecord :
          /\ script' = [script EXCEPT ![r] = w] /\ script'[r] = w
          /\ w.at \in {"check", "scheduled", "validate", "snapshot", "done"}
          /\ w.at \in {"validate", "snapshot"} => (~spoiled => NoneRestored(disk))
  <2>1. CASE Ended(r)
    BY <2>1, <1>1, EndedRecord
  <2>2. ASSUME NEW step \in {"check", "scheduled", "validate", "snapshot"}, To(r, step)
        PROVE  \E w \in ScriptRecord :
                  /\ script' = [script EXCEPT ![r] = w] /\ script'[r] = w
                  /\ w.at \in {"check", "scheduled", "validate", "snapshot", "done"}
                  /\ w.at \in {"validate", "snapshot"} => (~spoiled => NoneRestored(disk))
    <3>1. step \in Steps
      BY <2>2 DEF Steps
    <3>2. PICK w \in ScriptRecord :
             script' = [script EXCEPT ![r] = w] /\ script'[r] = w /\ w.at = step
      BY <1>1, <2>2, <3>1, ToRecord
    <3> QED BY <2>2, <3>2
  <2> QED BY <2>1, <2>2
<1>3. ~spoiled => Whole
  BY WholeUnarmed
<1>4. ~spoiled' => LeavesBehind(r)' /\ (~Armed(r)' => Whole')
  BY <1>2, <1>3 DEF LeavesBehind, Armed, Whole, NoneRestored
<1>5. disk' \in Disks /\ plane' \in BOOLEAN /\ spoiled' \in BOOLEAN
  BY <1>1 DEF RestoreTypeOK
<1> QED BY <1>2, <1>4, <1>5, HolderSteps

(* An armed script, or one that becomes armed, has the lock to itself.      *)
LEMMA OnlyHolder ==
    ASSUME RestoreInv, NEW r \in Request, Holding(r)
    PROVE  \A q \in Request : Holding(q) => q = r
BY DEF RestoreInv, OneRestore

(* Without an owner nothing of the server is from the backup.               *)
LEMMA OwnerlessUntouched ==
    ASSUME Whole, ~Owner
    PROVE  NoneRestored(disk)
BY DEF Whole, Owner, Restored, NoneRestored, Part-----------------------------------------------------------------------------
(* The request is made, or checked.                                         *)
LEMMA RequestStep ==
    ASSUME RestoreInv, RequestRestore
    PROVE  RestoreInv'
<1>1. PICK r \in Request : /\ ScriptAt(r, "none") /\ ~RestoreLocked /\ To(r, "check")
                           /\ UNCHANGED <<disk, plane, spoiled, restoreFaults>>
                           /\ restoring' = TRUE
  BY DEF RequestRestore
<1>2. ~Armed(r) /\ \A q \in Request : ~Holding(q)
  BY <1>1 DEF Armed, ScriptAt, RestoreLocked, Holding
<1>3. PICK w \in ScriptRecord :
         script' = [script EXCEPT ![r] = w] /\ script'[r] = w /\ w.at = "check"
  BY <1>1, ToRecord DEF RestoreInv, Steps
<1>4. ~To(r, "validate") /\ ~To(r, "snapshot")
  <2>1. ASSUME NEW step \in Steps, To(r, step) PROVE script'[r].at = step
    BY <2>1, ToRecord DEF RestoreInv
  <2> QED BY <2>1, <1>3 DEF Steps
<1> QED BY <1>1, <1>2, <1>4, UnarmedGoesOn DEF NoFault

(* --check takes the lock and gives it back.                                *)
LEMMA CheckedStep ==
    ASSUME RestoreInv, Checked
    PROVE  RestoreInv'
<1>1. PICK r \in Request : /\ ScriptAt(r, "check") /\ (Fault \/ NoFault)
                           /\ (To(r, "scheduled") \/ Ended(r))
                           /\ UNCHANGED <<disk, plane, spoiled>>
                           /\ restoring' = FALSE
  BY DEF Checked
<1>2. ~Armed(r) /\ Holding(r)
  BY <1>1 DEF Armed, ScriptAt, Holding
<1>3. script'[r].at \in {"scheduled", "done"}
  BY <1>1, ToRecord, EndedRecord DEF RestoreInv, Steps
<1>4. ~To(r, "validate") /\ ~To(r, "snapshot")
  <2>1. ASSUME NEW step \in Steps, To(r, step) PROVE script'[r].at = step
    BY <2>1, ToRecord DEF RestoreInv
  <2> QED BY <2>1, <1>3 DEF Steps
<1> QED BY <1>1, <1>2, <1>4, OnlyHolder, UnarmedGoesOn

(* The script takes the lock, unless another has it or there is an owner.   *)
LEMMA BeginStep ==
    ASSUME RestoreInv, BeginRestore
    PROVE  RestoreInv'
<1>1. PICK r \in Request :
         /\ ScriptAt(r, "scheduled")
         /\ IF RestoreLocked \/ Owner THEN Ended(r) ELSE To(r, "validate")
         /\ UNCHANGED <<disk, plane, restoring, spoiled, restoreFaults>>
  BY DEF BeginRestore
<1>2. ~Armed(r) /\ ~Holding(r)
  BY <1>1 DEF Armed, ScriptAt, Holding
<1>3. CASE Ended(r)
  BY <1>1, <1>2, <1>3, UnheldEnds DEF NoFault
<1>4. CASE ~RestoreLocked /\ ~Owner /\ To(r, "validate")
  <2>1. \A q \in Request : ~Holding(q)
    BY <1>4 DEF RestoreLocked, Holding
  <2>2. ~spoiled => NoneRestored(disk)
    BY <2>1, <1>2, <1>4, WholeUnarmed, OwnerlessUntouched
  <2>3. restoring' \in BOOLEAN
    BY <1>1 DEF RestoreInv, RestoreTypeOK
  <2> QED BY <1>1, <1>2, <1>4, <2>1, <2>2, <2>3, UnarmedGoesOn DEF NoFault
<1> QED BY <1>1, <1>3, <1>4

(* The archive is validated.                                                *)
LEMMA ValidatedStep ==
    ASSUME RestoreInv, Validated
    PROVE  RestoreInv'
<1>1. PICK r \in Request : /\ ScriptAt(r, "validate") /\ (Fault \/ NoFault)
                           /\ (To(r, "snapshot") \/ Ended(r))
                           /\ UNCHANGED <<disk, plane, restoring, spoiled>>
  BY DEF Validated
<1>2. ~Armed(r) /\ Holding(r)
  BY <1>1 DEF Armed, ScriptAt, Holding
<1>3. ~spoiled => NoneRestored(disk)
  BY <1>1 DEF RestoreInv, LeavesBehind, ScriptAt
<1>4. restoring' \in BOOLEAN
  BY <1>1 DEF RestoreInv, RestoreTypeOK
<1> QED BY <1>1, <1>2, <1>3, <1>4, OnlyHolder, UnarmedGoesOn

(* The script is armed with a snapshot of a server that is running and of   *)
(* which nothing is from the backup.                                        *)
LEMMA SnapshotStep ==
    ASSUME RestoreInv, SnapshotTaken
    PROVE  RestoreInv'
<1>1. PICK r \in Request :
         /\ ScriptAt(r, "snapshot") /\ (Fault \/ NoFault)
         /\ \/ script' = [script EXCEPT ![r] =
                  [at |-> "apply", next |-> 1, snap |-> disk, active |-> plane]]
            \/ Ended(r)
         /\ UNCHANGED <<disk, plane, restoring, spoiled>>
  BY DEF SnapshotTaken
<1>2. ~Armed(r) /\ Holding(r)
  BY <1>1 DEF Armed, ScriptAt, Holding
<1>3. ~spoiled => NoneRestored(disk)
  BY <1>1 DEF RestoreInv, LeavesBehind, ScriptAt
<1>4. /\ \A q \in Request : Holding(q) => q = r
      /\ disk \in Disks /\ {plane, restoring, spoiled} \subseteq BOOLEAN
  BY <1>2, OnlyHolder DEF RestoreInv, RestoreTypeOK
<1>5. CASE Ended(r)
  BY <1>1, <1>2, <1>3, <1>4, <1>5, UnarmedGoesOn
<1>6. CASE script' = [script EXCEPT ![r] =
                  [at |-> "apply", next |-> 1, snap |-> disk, active |-> plane]]
  <2> DEFINE w == [at |-> "apply", next |-> 1, snap |-> disk, active |-> plane]
  <2>1. /\ w \in ScriptRecord /\ w.at = "apply" /\ w.next = 1 /\ w.snap = disk
        /\ w.active = plane
    BY <1>4 DEF ScriptRecord, Steps
  <2>2. script' = [script EXCEPT ![r] = w]
    BY <1>6
  <2> HIDE DEF w
  <2>3. script'[r] = w
    BY <2>2, ScriptRecords DEF RestoreInv
  <2>4. ~spoiled => Whole /\ NoneRestored(disk)
    BY <1>2, <1>3, <1>4, WholeUnarmed
  <2>5. ~spoiled' => LeavesBehind(r)'
    <3> SUFFICES ASSUME ~spoiled PROVE LeavesBehind(r)'
      BY <1>1
    <3>1. \A i \in 1..6 : disk'[Order[i]] # "restored" /\ ~(i < 1)
      BY <2>4, <1>1, Orders DEF NoneRestored
    <3>2. NoneRestored(script'[r].snap) /\ script'[r].active
      BY <2>1, <2>3, <2>4 DEF Whole
    <3> QED BY <3>1, <3>2, <2>1, <2>3 DEF LeavesBehind
  <2>6. Armed(r)'
    BY <2>1, <2>3 DEF Armed
  <2> QED BY <1>1, <1>4, <2>1, <2>2, <2>5, <2>6, HolderSteps
<1> QED BY <1>1, <1>5, <1>6-----------------------------------------------------------------------------
(* What an armed script finds: it is the only one, and knows a snapshot of  *)
(* which nothing is from the backup.                                        *)
LEMMA ArmedFinds ==
    ASSUME RestoreInv, NEW r \in Request, Armed(r)
    PROVE  /\ RestoreTypeOK /\ script[r] \in ScriptRecord
           /\ disk \in Disks /\ plane \in BOOLEAN /\ restoring \in BOOLEAN
           /\ spoiled \in BOOLEAN
           /\ \A q \in Request : Holding(q) => q = r
           /\ ~spoiled => LeavesBehind(r)
<1>1. Holding(r)
  BY DEF Armed, Holding
<1>2. script[r] \in ScriptRecord
  BY ScriptRecords DEF RestoreInv
<1> QED BY <1>1, <1>2, OnlyHolder DEF RestoreInv, RestoreTypeOK

(* The rollback begins: nothing has been gone through yet.                  *)
LEMMA TurnsBack ==
    ASSUME RestoreInv, NEW r \in Request, Armed(r), To(r, "back"), Fault \/ NoFault,
           ~spoiled => ~plane', UNCHANGED <<disk, spoiled>>, plane' \in BOOLEAN,
           restoring' \in BOOLEAN
    PROVE  RestoreInv'
<1>1. PICK w \in ScriptRecord :
         /\ script' = [script EXCEPT ![r] = w] /\ script'[r] = w
         /\ w.at = "back" /\ w.next = 1 /\ w.snap = script[r].snap
         /\ w.active = script[r].active
  BY ArmedFinds, ToRecord DEF Steps
<1>2. Armed(r)'
  BY <1>1 DEF Armed
<1>3. ~spoiled' => LeavesBehind(r)'
  BY <1>1, ArmedFinds DEF LeavesBehind, NoneRestored, Armed
<1>4. /\ disk' \in Disks /\ spoiled' \in BOOLEAN
      /\ \A q \in Request : Holding(q) => q = r
  BY ArmedFinds
<1> QED BY <1>1, <1>2, <1>3, <1>4, HolderSteps

(* The services are stopped, the first thing an armed script does.          *)
LEMMA StoppedStep ==
    ASSUME RestoreInv, Stopped
    PROVE  RestoreInv'
<1>1. PICK r \in Request :
         /\ ScriptAt(r, "apply") /\ plane /\ script[r].next = 1
         /\ plane' = FALSE /\ restoring' = FALSE
         /\ \/ UNCHANGED script /\ NoFault
            \/ To(r, "back") /\ Fault
         /\ UNCHANGED <<disk, spoiled>>
  BY DEF Stopped
<1>2. Armed(r)
  BY <1>1 DEF Armed, ScriptAt
<1>3. CASE To(r, "back") /\ Fault
  BY <1>1, <1>2, <1>3, TurnsBack
<1>4. CASE UNCHANGED script /\ NoFault
  <2>1. /\ script[r] \in ScriptRecord /\ disk' \in Disks /\ spoiled' \in BOOLEAN
        /\ \A q \in Request : Holding(q) => q = r
    BY <1>1, <1>2, ArmedFinds
  <2>2. script' = [script EXCEPT ![r] = script[r]]
    BY <1>4, ScriptRecords DEF RestoreInv
  <2>3. ~spoiled' => LeavesBehind(r)'
    BY <1>1, <1>2, <1>4, ArmedFinds DEF LeavesBehind, ScriptAt, Armed, NoneRestored
  <2>4. Armed(r)'
    BY <1>2, <1>4 DEF Armed
  <2> QED BY <1>1, <1>4, <2>1, <2>2, <2>3, <2>4, HolderSteps
<1> QED BY <1>1, <1>3, <1>4

(* The next part is installed.                                              *)
LEMMA PartStep ==
    ASSUME RestoreInv, PartInstalled
    PROVE  RestoreInv'
<1>1. PICK r \in Request :
         /\ ScriptAt(r, "apply") /\ ~plane /\ script[r].next <= Len(Order)
         /\ \/ /\ disk' = [disk EXCEPT ![Order[script[r].next]] = "restored"]
               /\ script' = [script EXCEPT ![r].next = @ + 1]
               /\ NoFault
            \/ To(r, "back") /\ UNCHANGED disk /\ Fault
         /\ UNCHANGED <<plane, restoring, spoiled>>
  BY DEF PartInstalled
<1>2. Armed(r) /\ script[r].next <= 6
  BY <1>1, Orders DEF Armed, ScriptAt
<1>3. CASE To(r, "back") /\ UNCHANGED disk /\ Fault
  BY <1>1, <1>2, <1>3, ArmedFinds, TurnsBack
<1>4. CASE /\ disk' = [disk EXCEPT ![Order[script[r].next]] = "restored"]
           /\ script' = [script EXCEPT ![r].next = @ + 1]
           /\ NoFault
  <2> DEFINE n == script[r].next
  <2>1. /\ RestoreTypeOK /\ script[r] \in ScriptRecord /\ disk \in Disks
        /\ plane' \in BOOLEAN /\ restoring' \in BOOLEAN /\ spoiled' \in BOOLEAN
        /\ \A q \in Request : Holding(q) => q = r
    BY <1>1, <1>2, ArmedFinds
  <2>2. PICK w \in ScriptRecord :
           /\ script' = [script EXCEPT ![r] = w] /\ script'[r] = w
           /\ w.at = script[r].at /\ w.next = n + 1
           /\ w.snap = script[r].snap /\ w.active = script[r].active
    BY <1>2, <1>4, <2>1, NextRecord
  <2>3. n \in 1..6 /\ Order[n] \in Part
    BY <1>2, <2>1, Orders DEF ScriptRecord
  <2>4. disk' = [disk EXCEPT ![Order[n]] = "restored"]
    BY <1>4
  <2> HIDE DEF n
  <2>5. /\ disk' \in Disks /\ disk'[Order[n]] = "restored"
        /\ \A p \in Part : p # Order[n] => disk'[p] = disk[p]
    BY <2>1, <2>3, <2>4 DEF Disks, PartState
  <2>6. Armed(r)' /\ script'[r].at = "apply"
    BY <1>1, <2>2 DEF Armed, ScriptAt
  <2>7. ~spoiled' => LeavesBehind(r)'
    <3> SUFFICES ASSUME ~spoiled PROVE LeavesBehind(r)'
      BY <1>1
    <3>1. \A i \in 1..6 : disk[Order[i]] = "restored" <=> i < n
      BY <1>1, <1>2, ArmedFinds DEF LeavesBehind, ScriptAt, n
    <3>2. \A i \in 1..6 : disk'[Order[i]] = "restored" <=> i < n + 1
      <4> TAKE i \in 1..6
      <4>1. Order[i] \in Part /\ (Order[i] = Order[n] => i = n)
        BY <2>3, Orders
      <4>2. CASE i = n
        BY <4>2, <2>5, <2>3
      <4>3. CASE i # n
        <5>1. disk'[Order[i]] = disk[Order[i]]
          BY <4>1, <4>3, <2>5
        <5> QED BY <5>1, <4>3, <3>1, <2>3
      <4> QED BY <4>2, <4>3
    <3>3. script[r].active /\ NoneRestored(script[r].snap)
      BY <1>2, ArmedFinds DEF LeavesBehind
    <3>4. NoneRestored(script'[r].snap) /\ script'[r].active
      BY <3>3, <2>2
    <3>5. ~plane'
      BY <1>1
    <3> QED BY <3>2, <3>4, <3>5, <2>2, <2>6 DEF LeavesBehind
  <2>8. Fault \/ NoFault
    BY <1>4
  <2> QED BY <2>1, <2>2, <2>5, <2>6, <2>7, <2>8, HolderSteps
<1> QED BY <1>1, <1>3, <1>4

(* With every part installed all of the server is from the backup.          *)
LEMMA AllRestored ==
    ASSUME disk \in Disks, \A i \in 1..6 : disk[Order[i]] = "restored"
    PROVE  disk = Restored
<1>1. \A p \in Part : disk[p] = "restored"
  BY Orders
<1> QED BY <1>1 DEF Disks, Restored

(* The services are started on the restored server, or it turns back.       *)
LEMMA ServicesStep ==
    ASSUME RestoreInv, ServicesStarted
    PROVE  RestoreInv'
<1>1. PICK r \in Request :
         /\ ScriptAt(r, "apply") /\ script[r].next > Len(Order)
         /\ \/ plane' = TRUE /\ To(r, "health") /\ NoFault
            \/ UNCHANGED plane /\ To(r, "back") /\ Fault
         /\ UNCHANGED <<disk, restoring, spoiled>>
  BY DEF ServicesStarted
<1>2. Armed(r) /\ script[r].next > 6
  BY <1>1, Orders DEF Armed, ScriptAt
<1>3. /\ RestoreTypeOK /\ disk \in Disks /\ restoring' \in BOOLEAN /\ spoiled' \in BOOLEAN
      /\ plane \in BOOLEAN
      /\ \A q \in Request : Holding(q) => q = r
      /\ ~spoiled => LeavesBehind(r)
  BY <1>1, <1>2, ArmedFinds
<1>4. ~spoiled => ~plane /\ disk = Restored
  <2> SUFFICES ASSUME ~spoiled PROVE ~plane /\ disk = Restored
    OBVIOUS
  <2>1. \A i \in 1..6 : i < script[r].next
    BY <1>2, ArmedFinds DEF ScriptRecord
  <2>2. \A i \in 1..6 : disk[Order[i]] = "restored"
    BY <1>1, <1>3, <2>1 DEF LeavesBehind, ScriptAt
  <2>3. ~plane
    BY <1>1, <1>2, <1>3 DEF LeavesBehind, ScriptAt
  <2> QED BY <1>3, <2>2, <2>3, AllRestored
<1>5. CASE UNCHANGED plane /\ To(r, "back") /\ Fault
  BY <1>1, <1>2, <1>3, <1>4, <1>5, TurnsBack
<1>6. CASE plane' = TRUE /\ To(r, "health") /\ NoFault
  <2>1. PICK w \in ScriptRecord :
           /\ script' = [script EXCEPT ![r] = w] /\ script'[r] = w
           /\ w.at = "health" /\ w.snap = script[r].snap
           /\ w.active = script[r].active
    BY <1>3, <1>6, ToRecord DEF Steps
  <2>2. Armed(r)'
    BY <2>1 DEF Armed
  <2>3. ~spoiled' => LeavesBehind(r)'
    BY <1>1, <1>2, <1>3, <1>4, <1>6, <2>1 DEF LeavesBehind, NoneRestored, Armed
  <2>4. disk' \in Disks /\ plane' \in BOOLEAN
    BY <1>1, <1>3, <1>6
  <2> QED BY <1>3, <1>6, <2>1, <2>2, <2>3, <2>4, HolderSteps
<1> QED BY <1>1, <1>5, <1>6

(* The script ends with a healthy server, or turns back.                    *)
LEMMA HealthConfirmedStep ==
    ASSUME RestoreInv, HealthConfirmed
    PROVE  RestoreInv'
<1>1. PICK r \in Request :
         /\ ScriptAt(r, "health")
         /\ \/ Ended(r) /\ UNCHANGED plane /\ NoFault
            \/ To(r, "back") /\ plane' = FALSE /\ Fault
         /\ UNCHANGED <<disk, restoring, spoiled>>
  BY DEF HealthConfirmed
<1>2. Armed(r)
  BY <1>1 DEF Armed, ScriptAt
<1>3. /\ RestoreTypeOK /\ disk \in Disks /\ restoring' \in BOOLEAN /\ spoiled' \in BOOLEAN
      /\ plane \in BOOLEAN
      /\ \A q \in Request : Holding(q) => q = r
      /\ ~spoiled => LeavesBehind(r)
  BY <1>1, <1>2, ArmedFinds
<1>4. CASE To(r, "back") /\ plane' = FALSE /\ Fault
  BY <1>1, <1>2, <1>3, <1>4, TurnsBack
<1>5. CASE Ended(r) /\ UNCHANGED plane /\ NoFault
  <2>1. PICK w \in ScriptRecord :
           script' = [script EXCEPT ![r] = w] /\ script'[r] = w /\ w.at = "done"
    BY <1>3, <1>5, EndedRecord
  <2>2. ~spoiled' => LeavesBehind(r)'
    BY <2>1 DEF LeavesBehind, Armed
  <2>3. ~spoiled' => Whole'
    BY <1>1, <1>3, <1>5 DEF LeavesBehind, ScriptAt, Whole
  <2>4. disk' \in Disks /\ plane' \in BOOLEAN
    BY <1>1, <1>3, <1>5
  <2> QED BY <1>3, <1>5, <2>1, <2>2, <2>3, <2>4, HolderSteps
<1> QED BY <1>1, <1>4, <1>5(* The next part is put back from the snapshot, or the rollback fails.      *)
LEMMA BackStep ==
    ASSUME RestoreInv, PartRolledBack
    PROVE  RestoreInv'
<1>1. PICK r \in Request :
         /\ ScriptAt(r, "back") /\ script[r].next <= Len(BackOrder)
         /\ \/ disk' = Back(r) /\ NoFault /\ UNCHANGED spoiled
            \/ UNCHANGED disk /\ Fault /\ spoiled' = TRUE
         /\ script' = [script EXCEPT ![r].next = @ + 1]
         /\ UNCHANGED <<plane, restoring>>
  BY DEF PartRolledBack
<1>2. Armed(r) /\ script[r].next <= 6
  BY <1>1, Orders DEF Armed, ScriptAt
<1>3. /\ RestoreTypeOK /\ script[r] \in ScriptRecord /\ disk \in Disks
      /\ plane' \in BOOLEAN /\ restoring' \in BOOLEAN /\ spoiled \in BOOLEAN
      /\ \A q \in Request : Holding(q) => q = r
      /\ ~spoiled => LeavesBehind(r)
  BY <1>1, <1>2, ArmedFinds
<1> DEFINE n == script[r].next
<1>4. PICK w \in ScriptRecord :
         /\ script' = [script EXCEPT ![r] = w] /\ script'[r] = w
         /\ w.at = script[r].at /\ w.next = n + 1
         /\ w.snap = script[r].snap /\ w.active = script[r].active
  BY <1>1, <1>2, <1>3, NextRecord
<1>5. n \in 1..6 /\ BackOrder[n] \in Part
  BY <1>2, <1>3, Orders DEF ScriptRecord
<1>6. disk' = [disk EXCEPT ![BackOrder[n]] = script[r].snap[BackOrder[n]]]
         \/ (UNCHANGED disk /\ spoiled' = TRUE)
  BY <1>1 DEF Back
<1>7. ~spoiled' => ~spoiled
  BY <1>1
<1>8. spoiled' \in BOOLEAN /\ (Fault \/ NoFault)
  BY <1>1, <1>3
<1>9. ~spoiled => /\ script[r].active /\ NoneRestored(script[r].snap) /\ ~plane
                  /\ \A i \in 1..6 : i < n => disk[BackOrder[i]] # "restored"
  BY <1>1, <1>2, <1>3 DEF LeavesBehind, ScriptAt
<1> HIDE DEF n
<1>10. disk' \in Disks
  <2>1. script[r].snap[BackOrder[n]] \in PartState
    BY <1>3, <1>5 DEF ScriptRecord, Disks
  <2> QED BY <2>1, <1>3, <1>6 DEF Disks
<1>11. Armed(r)' /\ script'[r].at = "back"
  BY <1>1, <1>4 DEF Armed, ScriptAt
<1>12. ~spoiled' => LeavesBehind(r)'
  <2> SUFFICES ASSUME ~spoiled' PROVE LeavesBehind(r)'
    OBVIOUS
  <2>1. /\ disk' = [disk EXCEPT ![BackOrder[n]] = script[r].snap[BackOrder[n]]]
        /\ ~spoiled
    BY <1>6, <1>7
  <2>2. disk'[BackOrder[n]] # "restored"
    BY <2>1, <1>3, <1>5, <1>9 DEF Disks, NoneRestored
  <2>3. \A i \in 1..6 : i < n + 1 => disk'[BackOrder[i]] # "restored"
    <3> SUFFICES ASSUME NEW i \in 1..6, i < n + 1 PROVE disk'[BackOrder[i]] # "restored"
      OBVIOUS
    <3>1. CASE BackOrder[i] = BackOrder[n]
      BY <3>1, <2>2
    <3>2. CASE BackOrder[i] # BackOrder[n]
      <4>1. i < n
        BY <3>2, <1>5
      <4>2. BackOrder[i] \in Part /\ disk[BackOrder[i]] # "restored"
        BY <4>1, <2>1, <1>9, Orders
      <4>3. disk'[BackOrder[i]] = disk[BackOrder[i]]
        BY <3>2, <4>2, <2>1, <1>3 DEF Disks
      <4> QED BY <4>2, <4>3
    <3> QED BY <3>1, <3>2
  <2>4. NoneRestored(script'[r].snap) /\ script'[r].active /\ ~plane'
    BY <2>1, <1>1, <1>4, <1>9
  <2> QED BY <2>3, <2>4, <1>4, <1>11 DEF LeavesBehind
<1> QED BY <1>3, <1>4, <1>8, <1>10, <1>11, <1>12, HolderSteps

(* The rollback is through: nothing of the server is from the backup, and   *)
(* the services that ran before run again.                                  *)
LEMMA RolledBackStep ==
    ASSUME RestoreInv, RolledBack
    PROVE  RestoreInv'
<1>1. PICK r \in Request :
         /\ ScriptAt(r, "back") /\ script[r].next > Len(BackOrder)
         /\ plane' = script[r].active
         /\ Ended(r)
         /\ UNCHANGED <<disk, restoring, spoiled, restoreFaults>>
  BY DEF RolledBack
<1>2. Armed(r) /\ script[r].next > 6
  BY <1>1, Orders DEF Armed, ScriptAt
<1>3. /\ RestoreTypeOK /\ script[r] \in ScriptRecord /\ disk \in Disks
      /\ restoring' \in BOOLEAN /\ spoiled' \in BOOLEAN
      /\ \A q \in Request : Holding(q) => q = r
      /\ ~spoiled => LeavesBehind(r)
  BY <1>1, <1>2, ArmedFinds
<1>4. PICK w \in ScriptRecord :
         script' = [script EXCEPT ![r] = w] /\ script'[r] = w /\ w.at = "done"
  BY <1>1, <1>3, EndedRecord
<1>5. ~spoiled' => Whole'
  <2> SUFFICES ASSUME ~spoiled PROVE Whole'
    BY <1>1
  <2>1. \A i \in 1..6 : i < script[r].next
    BY <1>2, <1>3 DEF ScriptRecord
  <2>2. \A i \in 1..6 : disk[BackOrder[i]] # "restored"
    BY <2>1, <1>1, <1>3 DEF LeavesBehind, ScriptAt
  <2>3. NoneRestored(disk)
    BY <2>2, Orders DEF NoneRestored
  <2>4. script[r].active
    BY <1>2, <1>3 DEF LeavesBehind
  <2> QED BY <2>3, <2>4, <1>1 DEF Whole, NoneRestored
<1>6. ~spoiled' => LeavesBehind(r)'
  BY <1>4 DEF LeavesBehind, Armed
<1>7. disk' \in Disks /\ plane' \in BOOLEAN /\ NoFault
  BY <1>1, <1>3 DEF ScriptRecord, NoFault
<1> QED BY <1>3, <1>4, <1>5, <1>6, <1>7, HolderSteps

(* The machine goes down: an armed script spoils the server, any other had  *)
(* changed nothing.                                                         *)
LEMMA MachineDownStep ==
    ASSUME RestoreInv, Killed
    PROVE  RestoreInv'
<1> DEFINE w == [NoScript EXCEPT !.at = "done"]
<1>1. /\ Fault
      /\ script' = [q \in Request |-> IF ScriptAt(q, "none") THEN script[q] ELSE w]
      /\ spoiled' = (spoiled \/ \E q \in Request : Armed(q))
      /\ plane' = TRUE /\ restoring' = FALSE
      /\ UNCHANGED disk
  BY DEF Killed, Armed
<1>2. w \in ScriptRecord /\ w.at = "done"
  BY ScriptRecords
<1> HIDE DEF w
<1>3. \A q \in Request : script'[q] = script[q] \/ script'[q] = w
  BY <1>1
<1>4. /\ script' \in [Request -> ScriptRecord]
      /\ \A q \in Request : script'[q].at \in {"none", "done"}
  BY <1>1, <1>2, ScriptRecords DEF RestoreInv, ScriptAt
<1>5. RestoreTypeOK'
  BY <1>1, <1>4, RestoreFaultBound DEF RestoreInv, RestoreTypeOK, ScriptRecord
<1>6. \A q \in Request : ~Holding(q)' /\ ~Armed(q)' /\ LeavesBehind(q)'
  BY <1>4 DEF Holding, Armed, LeavesBehind
<1>7. ~spoiled' => Whole'
  BY <1>1 DEF RestoreInv, Whole, NoneRestored
<1> QED BY <1>5, <1>6, <1>7 DEF RestoreInv, OneRestore

(* The owner registers beside a script that has not stopped the services.   *)
LEMMA RegisterStep ==
    ASSUME RestoreInv, OwnerRegisters
    PROVE  RestoreInv'
<1>1. /\ plane /\ disk["db"] = "installed"
      /\ disk' = [disk EXCEPT !["db"] = "owned"]
      /\ UNCHANGED <<plane, restoring, script, spoiled, restoreFaults>>
  BY DEF OwnerRegisters, Owner
<1>2. RestoreTypeOK /\ disk \in Disks
  BY DEF RestoreInv, RestoreTypeOK
<1>3. /\ disk' \in Disks
      /\ \A p \in Part : disk'[p] = "restored" <=> disk[p] = "restored"
  BY <1>1, <1>2 DEF Disks, PartState
<1>4. disk # Restored
  BY <1>1 DEF Restored, Part
<1>5. RestoreTypeOK'
  BY <1>1, <1>2, <1>3 DEF RestoreTypeOK
<1>6. \A r \in Request : LeavesBehind(r) => LeavesBehind(r)'
  BY <1>1, <1>3, <1>4, Orders DEF LeavesBehind, NoneRestored, Armed
<1>7. Whole => Whole'
  BY <1>1, <1>3, <1>4 DEF Whole, NoneRestored
<1>8. OneRestore'
  BY <1>1 DEF RestoreInv, OneRestore, Holding
<1>9. \A r \in Request : Armed(r)' = Armed(r)
  BY <1>1 DEF Armed
<1> QED BY <1>1, <1>5, <1>6, <1>7, <1>8, <1>9 DEF RestoreInv

(* The invariant holds at first ...                                         *)
LEMMA RestoreInvInit ==
    ASSUME RestoreInit
    PROVE  RestoreInv
<1>1. /\ script \in [Request -> ScriptRecord]
      /\ \A r \in Request : script[r].at = "none"
  BY ScriptRecords DEF RestoreInit, NoScript
<1>2. RestoreTypeOK
  <2>1. disk \in Disks
    BY DEF RestoreInit, Untouched, Disks, PartState
  <2>2. 0 \in 0..MaxRestoreFaults
    BY RestoreAssumption
  <2> QED BY <1>1, <2>1, <2>2 DEF RestoreInit, RestoreTypeOK, ScriptRecord
<1>3. Whole
  BY DEF RestoreInit, Whole, NoneRestored, Untouched
<1> QED BY <1>1, <1>2, <1>3
    DEF RestoreInv, OneRestore, Holding, Armed, LeavesBehind

(* ... and every step keeps it.                                             *)
LEMMA RestoreInvNext ==
    ASSUME RestoreInv, [RestoreNext]_restoreVars
    PROVE  RestoreInv'
<1>1. CASE AnswerLost \/ UNCHANGED restoreVars
  <2>1. /\ UNCHANGED <<disk, plane, script, spoiled>>
        /\ restoring' \in BOOLEAN /\ restoreFaults' \in 0..MaxRestoreFaults
    BY <1>1, RestoreFaultBound
    DEF AnswerLost, restoreVars, RestoreInv, RestoreTypeOK, NoFault
  <2>2. RestoreTypeOK'
    BY <2>1 DEF RestoreInv, RestoreTypeOK
  <2>3. OneRestore' /\ Whole' = Whole
    BY <2>1 DEF RestoreInv, OneRestore, Holding, Whole, NoneRestored
  <2>4. \A r \in Request : LeavesBehind(r)' = LeavesBehind(r) /\ Armed(r)' = Armed(r)
    BY <2>1 DEF LeavesBehind, Armed, NoneRestored
  <2> QED BY <2>1, <2>2, <2>3, <2>4 DEF RestoreInv
<1>2. CASE RequestRestore \/ Checked \/ BeginRestore \/ Validated \/ SnapshotTaken
  BY <1>2, RequestStep, CheckedStep, BeginStep, ValidatedStep, SnapshotStep
<1>3. CASE Stopped \/ PartInstalled \/ ServicesStarted \/ HealthConfirmed
  BY <1>3, StoppedStep, PartStep, ServicesStep, HealthConfirmedStep
<1>4. CASE PartRolledBack \/ RolledBack \/ Killed \/ OwnerRegisters
  BY <1>4, BackStep, RolledBackStep, MachineDownStep, RegisterStep
<1> QED BY <1>1, <1>2, <1>3, <1>4 DEF RestoreNext

(* Whatever fails, and whoever registers beside the script, the invariant   *)
(* of the restore holds.                                                    *)
THEOREM RestoreCorrect == RestoreSpec => []RestoreInv
<1>1. RestoreInv /\ [RestoreNext]_restoreVars => RestoreInv'
  BY RestoreInvNext
<1>2. RestoreInit => RestoreInv
  BY RestoreInvInit
<1> QED BY <1>1, <1>2, PTL DEF RestoreSpec

(* With no restore under way the server is all from the backup or not at    *)
(* all, and it runs, unless an armed script was killed or its rollback      *)
(* failed as well.                                                          *)
THEOREM RestoreAtomic == RestoreSpec => []RestoreIsWhole
<1>1. RestoreInv => RestoreIsWhole
  <2> SUFFICES ASSUME RestoreInv, ~RestoreLocked, ~spoiled
               PROVE  plane /\ (disk = Restored \/ \A p \in Part : disk[p] # "restored")
    BY DEF RestoreIsWhole
  <2>1. \A r \in Request : ~Armed(r)
    BY DEF RestoreLocked, Armed
  <2> QED BY <2>1 DEF RestoreInv, Whole, NoneRestored
<1> QED BY <1>1, RestoreCorrect, PTL
(***************************************************************************)
(* The diagnostics.                                                        *)
(***************************************************************************)
TaskRecord ==
    [at : {"none", "first", "probing", "stage", "waiting", "last"},
     timer : BOOLEAN, sampling : {"none", "task", "timer"}, aborted : BOOLEAN]

JobRecord ==
    [there : BOOLEAN, claimed : BOOLEAN, token : 0..MaxRunners,
     report : SUBSET Method, complete : BOOLEAN]

RunnerRecord ==
    [of : 0..MaxDiagnostics, at : {"idle", "working", "stopping"}, done : SUBSET Method]

(* A task whose signal is not aborted works on an operation that runs; what *)
(* is still on its way to a cancelled operation comes from an aborted task. *)
TaskAgrees(d) ==
    /\ task[d].at # "none" /\ ~task[d].aborted => Running(d)
    /\ task[d].at = "none" =>
         /\ ~task[d].timer
         /\ task[d].sampling # "none" =>
              task[d].aborted \/ status[d] \in {"completed", "failed"}
    /\ status[d] = "cancelled" =>
         task[d].aborted \/ (task[d].at = "none" /\ task[d].sampling = "none")
    /\ status[d] = "none" => task[d].at = "none" /\ task[d].sampling = "none"
    /\ task[d].at \in {"probing", "stage"} => vantage[d] = "server"

(* A complete report covers every method, and no runner can replace it.     *)
JobAgrees(d) ==
    /\ ~clients[d].there => clients[d] = NoClient
    /\ clients[d].there => vantage[d] = "client" /\ status[d] # "none"
    /\ clients[d].complete => clients[d].report = Method /\ clients[d].token = 0
    /\ ~clients[d].claimed => clients[d].token = 0 /\ ~clients[d].complete
    /\ task[d].at = "last" /\ ~task[d].aborted => clients[d].complete

Agrees(d) ==
    /\ TaskAgrees(d)
    /\ JobAgrees(d)
    /\ status[d] = "completed" /\ vantage[d] = "client" => evidence[d] = Method

DiagnosticsInv ==
    /\ DiagnosticsTypeOK
    /\ \A d \in Diagnostic : Agrees(d)
    /\ \A r \in Runner : runner[r].at # "idle" => runner[r].of \in Diagnostic

(* What a step may not do to a cancelled diagnostic.                        *)
Kept(d) ==
    status[d] = "cancelled" => status'[d] = "cancelled" /\ evidence'[d] = evidence[d]

(* A step moves one diagnostic; the others are as they were.                *)
OnlyOne(d) ==
    /\ status' = [status EXCEPT ![d] = status'[d]]
    /\ evidence' = [evidence EXCEPT ![d] = evidence'[d]]
    /\ vantage' = [vantage EXCEPT ![d] = vantage'[d]]
    /\ task' = [task EXCEPT ![d] = task'[d]]
    /\ clients' = [clients EXCEPT ![d] = clients'[d]]

RunnersKept ==
    /\ runner' \in [Runner -> RunnerRecord]
    /\ \A r \in Runner : runner'[r].at # "idle" => runner'[r].of \in Diagnostic

-----------------------------------------------------------------------------
(* What is known of one diagnostic at any time.                             *)
LEMMA DiagnosticTyped ==
    ASSUME DiagnosticsInv, NEW d \in Diagnostic
    PROVE  /\ status[d] \in {"none", "running", "completed", "failed", "cancelled"}
           /\ evidence[d] \in SUBSET Method /\ vantage[d] \in {"server", "client"}
           /\ task[d] \in TaskRecord /\ clients[d] \in JobRecord
           /\ Agrees(d)
BY DEF DiagnosticsInv, DiagnosticsTypeOK, TaskRecord, JobRecord

(* Runners that do nothing keep what is known of them.                      *)
LEMMA RunnersIdle ==
    ASSUME DiagnosticsInv, UNCHANGED runner
    PROVE  RunnersKept
BY DEF DiagnosticsInv, DiagnosticsTypeOK, RunnersKept, RunnerRecord

(* A step of one diagnostic keeps the invariant when it keeps its part.     *)
LEMMA OneSteps ==
    ASSUME DiagnosticsInv, NEW d \in Diagnostic, OnlyOne(d), RunnersKept,
           status'[d] \in {"none", "running", "completed", "failed", "cancelled"},
           evidence'[d] \in SUBSET Method, vantage'[d] \in {"server", "client"},
           task'[d] \in TaskRecord, clients'[d] \in JobRecord,
           Agrees(d)', Kept(d)
    PROVE  DiagnosticsInv' /\ \A e \in Diagnostic : Kept(e)
<1>1. /\ status \in [Diagnostic -> {"none", "running", "completed", "failed", "cancelled"}]
      /\ evidence \in [Diagnostic -> SUBSET Method]
      /\ vantage \in [Diagnostic -> {"server", "client"}]
      /\ task \in [Diagnostic -> TaskRecord] /\ clients \in [Diagnostic -> JobRecord]
  BY DEF DiagnosticsInv, DiagnosticsTypeOK, TaskRecord, JobRecord
<1>2. \A e \in Diagnostic : e # d =>
         /\ status'[e] = status[e] /\ evidence'[e] = evidence[e]
         /\ vantage'[e] = vantage[e] /\ task'[e] = task[e] /\ clients'[e] = clients[e]
  BY <1>1 DEF OnlyOne
<1>3. DiagnosticsTypeOK'
  <2>1. /\ status' \in [Diagnostic -> {"none", "running", "completed", "failed", "cancelled"}]
        /\ evidence' \in [Diagnostic -> SUBSET Method]
    BY <1>1 DEF OnlyOne
  <2>2. /\ vantage' \in [Diagnostic -> {"server", "client"}]
        /\ task' \in [Diagnostic -> TaskRecord] /\ clients' \in [Diagnostic -> JobRecord]
    BY <1>1 DEF OnlyOne
  <2>3. runner' \in [Runner -> RunnerRecord]
    BY DEF RunnersKept
  <2> QED BY <2>1, <2>2, <2>3 DEF DiagnosticsTypeOK, TaskRecord, JobRecord, RunnerRecord
<1>4. \A e \in Diagnostic : e # d => Agrees(e)' /\ Kept(e)
  <2> SUFFICES ASSUME NEW e \in Diagnostic, e # d PROVE Agrees(e)' /\ Kept(e)
    OBVIOUS
  <2>1. Agrees(e)
    BY DEF DiagnosticsInv
  <2> QED BY <2>1, <1>2 DEF Agrees, TaskAgrees, JobAgrees, Running, Kept
<1> QED BY <1>3, <1>4 DEF DiagnosticsInv, RunnersKept

(* The row and its result, with the signal looked at before.                *)
LEMMA ReportedRow ==
    ASSUME DiagnosticsInv, NEW d \in Diagnostic, Reported(d)
    PROVE  /\ status' = [status EXCEPT ![d] = status'[d]]
           /\ evidence' = [evidence EXCEPT ![d] = evidence'[d]]
           /\ evidence'[d] \in SUBSET Method
           /\ task[d].aborted => status'[d] = status[d] /\ evidence'[d] = evidence[d]
           /\ ~task[d].aborted => status'[d] = "running"
<1> DEFINE s == IF task[d].aborted THEN status[d] ELSE "running"
           v == IF task[d].aborted THEN evidence[d] ELSE Collected(d)
<1>1. status' = [status EXCEPT ![d] = s] /\ evidence' = [evidence EXCEPT ![d] = v]
  BY DEF Reported, Written
<1>2. Collected(d) \in SUBSET Method
  BY DiagnosticTyped DEF Collected, JobRecord
<1>3. v \in SUBSET Method
  BY <1>2, DiagnosticTyped
<1>4. /\ task[d].aborted => s = status[d] /\ v = evidence[d]
      /\ ~task[d].aborted => s = "running"
  OBVIOUS
<1> HIDE DEF s, v
<1>5. status'[d] = s /\ evidence'[d] = v
  BY <1>1 DEF DiagnosticsInv, DiagnosticsTypeOK
<1> QED BY <1>1, <1>3, <1>4, <1>5

(* A task that ends, with what it writes then.                              *)
LEMMA FinishedRow ==
    ASSUME DiagnosticsInv, NEW d \in Diagnostic, NEW s \in {"completed", "failed"},
           NEW stages \in SUBSET Method, Finished(d, s, stages)
    PROVE  /\ status' = [status EXCEPT ![d] = status'[d]]
           /\ evidence' = [evidence EXCEPT ![d] = evidence'[d]]
           /\ task' = [task EXCEPT ![d] = task'[d]] /\ clients' = [clients EXCEPT ![d] = clients'[d]]
           /\ evidence'[d] \in SUBSET Method
           /\ task[d].aborted => status'[d] = status[d] /\ evidence'[d] = evidence[d]
           /\ ~task[d].aborted => /\ status'[d] = s
                                  /\ s = "completed" => evidence'[d] = stages
           /\ task'[d] \in TaskRecord /\ task'[d].at = "none" /\ task'[d].timer = FALSE
           /\ task'[d].aborted = task[d].aborted /\ clients'[d] = NoClient
<1> DEFINE row == IF task[d].aborted THEN status[d] ELSE s
           v == IF s = "completed" /\ ~task[d].aborted THEN stages ELSE evidence[d]
           t == [task[d] EXCEPT !.at = "none", !.timer = FALSE,
                                !.sampling = IF @ = "timer" THEN @ ELSE "none"]
<1>1. /\ status' = [status EXCEPT ![d] = row] /\ evidence' = [evidence EXCEPT ![d] = v]
      /\ clients' = [clients EXCEPT ![d] = NoClient]
  BY DEF Finished, Written
<1>2. task' = [task EXCEPT ![d] = t]
  BY DEF Finished
<1>3. /\ task[d].aborted => row = status[d] /\ v = evidence[d]
      /\ ~task[d].aborted => row = s /\ (s = "completed" => v = stages)
      /\ v \in SUBSET Method
  BY DiagnosticTyped
<1>4. /\ t \in TaskRecord /\ t.at = "none" /\ t.timer = FALSE
      /\ t.aborted = task[d].aborted
  <2>1. task[d] \in TaskRecord
    BY DiagnosticTyped
  <2> QED BY <2>1 DEF TaskRecord
<1> HIDE DEF row, v, t
<1>5. status'[d] = row /\ evidence'[d] = v /\ clients'[d] = NoClient /\ task'[d] = t
  BY <1>1, <1>2 DEF DiagnosticsInv, DiagnosticsTypeOK
<1> QED BY <1>1, <1>2, <1>3, <1>4, <1>5

(* A job that is not there is well-typed.                                   *)
LEMMA NoJobTyped == NoClient \in JobRecord /\ ~NoClient.there /\ ~NoClient.complete
                      /\ ~NoClient.claimed /\ NoClient.token = 0
BY DiagnosticsAssumption DEF NoClient, JobRecord

-----------------------------------------------------------------------------
(* A task that ends keeps the invariant: completed only with every method,  *)
(* and nothing at all when its signal was aborted.                          *)
LEMMA FinishedSteps ==
    ASSUME DiagnosticsInv, NEW d \in Diagnostic, NEW s \in {"completed", "failed"},
           NEW stages \in SUBSET Method, Finished(d, s, stages),
           task[d].at # "none", UNCHANGED vantage, RunnersKept,
           s = "completed" /\ ~task[d].aborted /\ vantage[d] = "client" =>
               stages = Method
    PROVE  DiagnosticsInv' /\ \A e \in Diagnostic : Kept(e)
<1>1. /\ status' = [status EXCEPT ![d] = status'[d]]
      /\ evidence' = [evidence EXCEPT ![d] = evidence'[d]]
      /\ task' = [task EXCEPT ![d] = task'[d]] /\ clients' = [clients EXCEPT ![d] = clients'[d]]
      /\ evidence'[d] \in SUBSET Method
      /\ task[d].aborted => status'[d] = status[d] /\ evidence'[d] = evidence[d]
      /\ ~task[d].aborted => /\ status'[d] = s
                             /\ s = "completed" => evidence'[d] = stages
      /\ task'[d] \in TaskRecord /\ task'[d].at = "none" /\ task'[d].timer = FALSE
      /\ task'[d].aborted = task[d].aborted /\ clients'[d] = NoClient
  BY FinishedRow
<1>2. /\ status[d] \in {"none", "running", "completed", "failed", "cancelled"}
      /\ vantage[d] \in {"server", "client"} /\ Agrees(d)
      /\ vantage' = [vantage EXCEPT ![d] = vantage'[d]]
  BY DiagnosticTyped DEF DiagnosticsInv, DiagnosticsTypeOK
<1>3. OnlyOne(d)
  BY <1>1, <1>2 DEF OnlyOne
<1>4. status[d] # "none"
  BY <1>2 DEF Agrees, TaskAgrees
<1>5. TaskAgrees(d)'
  BY <1>1, <1>4 DEF TaskAgrees
<1>6. JobAgrees(d)'
  BY <1>1, NoJobTyped DEF JobAgrees
<1>7. status'[d] = "completed" /\ vantage'[d] = "client" => evidence'[d] = Method
  BY <1>1, <1>2 DEF Agrees
<1>8. Kept(d)
  BY <1>1, <1>2 DEF Kept, Agrees, TaskAgrees
<1>9. status'[d] \in {"none", "running", "completed", "failed", "cancelled"}
  BY <1>1, <1>2
<1>10. Agrees(d)'
  BY <1>5, <1>6, <1>7 DEF Agrees
<1> QED BY <1>1, <1>2, <1>3, <1>8, <1>9, <1>10, NoJobTyped, OneSteps

(* A task that publishes what it has: the operation runs again, unless the  *)
(* signal of the task was aborted.                                          *)
LEMMA ReportedSteps ==
    ASSUME DiagnosticsInv, NEW d \in Diagnostic, Reported(d), NEW t \in TaskRecord,
           task' = [task EXCEPT ![d] = t], t.aborted = task[d].aborted,
           task[d].at # "none" \/ task[d].sampling # "none",
           t.at = "none" => task[d].at = "none" /\ ~t.timer /\ t.sampling = "none",
           t.at \in {"probing", "stage"} => vantage[d] = "server",
           t.at = "last" => task[d].at = "last",
           UNCHANGED <<vantage, clients, runner>>
    PROVE  DiagnosticsInv' /\ \A e \in Diagnostic : Kept(e)
<1>1. /\ status' = [status EXCEPT ![d] = status'[d]]
      /\ evidence' = [evidence EXCEPT ![d] = evidence'[d]]
      /\ evidence'[d] \in SUBSET Method
      /\ task[d].aborted => status'[d] = status[d] /\ evidence'[d] = evidence[d]
      /\ ~task[d].aborted => status'[d] = "running"
  BY ReportedRow
<1>2. /\ status[d] \in {"none", "running", "completed", "failed", "cancelled"}
      /\ vantage[d] \in {"server", "client"} /\ clients[d] \in JobRecord /\ Agrees(d)
      /\ vantage' = [vantage EXCEPT ![d] = vantage'[d]]
      /\ clients' = [clients EXCEPT ![d] = clients'[d]]
      /\ task'[d] = t /\ task' = [task EXCEPT ![d] = task'[d]]
  BY DiagnosticTyped DEF DiagnosticsInv, DiagnosticsTypeOK
<1>3. OnlyOne(d)
  BY <1>1, <1>2 DEF OnlyOne
<1>4. status[d] # "none"
  BY <1>2 DEF Agrees, TaskAgrees
<1>5. status[d] = "cancelled" => task[d].aborted
  BY <1>2 DEF Agrees, TaskAgrees
<1>6. TaskAgrees(d)'
  BY <1>1, <1>2, <1>4, <1>5 DEF TaskAgrees, Agrees, Running
<1>7. JobAgrees(d)'
  BY <1>1, <1>2, <1>4 DEF JobAgrees, Agrees
<1>8. status'[d] = "completed" /\ vantage'[d] = "client" => evidence'[d] = Method
  BY <1>1, <1>2 DEF Agrees
<1>9. Kept(d)
  BY <1>1, <1>5 DEF Kept
<1>10. status'[d] \in {"none", "running", "completed", "failed", "cancelled"}
  BY <1>1, <1>2
<1>11. Agrees(d)'
  BY <1>6, <1>7, <1>8 DEF Agrees
<1> QED BY <1>1, <1>2, <1>3, <1>9, <1>10, <1>11, RunnersIdle, OneSteps

(* A task that goes on without writing.                                     *)
LEMMA TaskSteps ==
    ASSUME DiagnosticsInv, NEW d \in Diagnostic, NEW t \in TaskRecord,
           task' = [task EXCEPT ![d] = t], t.aborted = task[d].aborted,
           task[d].at # "none", t.at # "none",
           t.at \in {"probing", "stage"} => vantage[d] = "server",
           t.at = "last" /\ ~t.aborted => clients[d].complete,
           UNCHANGED <<status, evidence, vantage, clients, runner>>
    PROVE  DiagnosticsInv' /\ \A e \in Diagnostic : Kept(e)
<1>1. /\ status[d] \in {"none", "running", "completed", "failed", "cancelled"}
      /\ vantage[d] \in {"server", "client"} /\ clients[d] \in JobRecord /\ Agrees(d)
      /\ evidence[d] \in SUBSET Method
  BY DiagnosticTyped
<1>2. /\ vantage' = [vantage EXCEPT ![d] = vantage'[d]]
      /\ status' = [status EXCEPT ![d] = status'[d]]
      /\ evidence' = [evidence EXCEPT ![d] = evidence'[d]]
      /\ clients' = [clients EXCEPT ![d] = clients'[d]]
      /\ task'[d] = t /\ task' = [task EXCEPT ![d] = task'[d]]
  BY DEF DiagnosticsInv, DiagnosticsTypeOK
<1>3. OnlyOne(d)
  BY <1>2 DEF OnlyOne
<1>4. TaskAgrees(d)'
  BY <1>1, <1>2 DEF TaskAgrees, Agrees, Running
<1>5. JobAgrees(d)'
  BY <1>1, <1>2 DEF JobAgrees, Agrees
<1>6. Agrees(d)' /\ Kept(d)
  BY <1>1, <1>4, <1>5 DEF Agrees, Kept
<1> QED BY <1>1, <1>2, <1>3, <1>6, RunnersIdle, OneSteps

(* The operation is started, for the server or for a client's device.       *)
LEMMA RunStep ==
    ASSUME DiagnosticsInv, RunDiagnostic
    PROVE  DiagnosticsInv' /\ \A e \in Diagnostic : Kept(e)
<1>1. PICK d \in Diagnostic, v \in {"server", "client"} :
         /\ status[d] = "none"
         /\ status' = [status EXCEPT ![d] = "running"]
         /\ vantage' = [vantage EXCEPT ![d] = v]
         /\ task' = [task EXCEPT ![d] = [NoTask EXCEPT !.at = "first", !.sampling = "task"]]
         /\ clients' = [clients EXCEPT ![d].there = (v = "client")]
         /\ UNCHANGED <<evidence, runner>>
  BY DEF RunDiagnostic
<1> DEFINE t == [NoTask EXCEPT !.at = "first", !.sampling = "task"]
<1>2. /\ clients[d] \in JobRecord /\ Agrees(d) /\ evidence[d] \in SUBSET Method
  BY DiagnosticTyped
<1>3. clients[d] = NoClient
  BY <1>1, <1>2 DEF Agrees, JobAgrees
<1>4. /\ t \in TaskRecord /\ t.at = "first" /\ t.sampling = "task" /\ t.aborted = FALSE
  BY DEF NoTask, TaskRecord
<1>5. PICK j \in JobRecord :
         /\ clients' = [clients EXCEPT ![d] = j] /\ ~j.claimed /\ ~j.complete /\ j.token = 0
         /\ j = NoClient \/ (j.there /\ v = "client")
  <2>1. CASE v = "client"
    <3> DEFINE k == [NoClient EXCEPT !.there = TRUE]
    <3>1. /\ k \in JobRecord /\ k.there = TRUE /\ k.claimed = FALSE
          /\ k.complete = FALSE /\ k.token = 0
      BY NoJobTyped DEF JobRecord, NoClient
    <3>2. clients' = [clients EXCEPT ![d] = k]
      <4>1. (v = "client") = TRUE
        BY <2>1
      <4>2. clients' = [clients EXCEPT ![d] = [clients[d] EXCEPT !.there = (v = "client")]]
        BY <1>1
      <4> QED BY <4>1, <4>2, <1>3, Zenon
    <3> HIDE DEF k
    <3> QED BY <2>1, <3>1, <3>2
  <2>2. CASE v = "server"
    <3>1. [NoClient EXCEPT !.there = FALSE] = NoClient
      <4>1. NoClient \in JobRecord /\ NoClient.there = FALSE
        BY NoJobTyped DEF NoClient
      <4> QED BY <4>1 DEF JobRecord
    <3>2. clients' = [clients EXCEPT ![d] = NoClient]
      <4>1. (v = "client") = FALSE
        BY <2>2
      <4>2. clients' = [clients EXCEPT ![d] = [clients[d] EXCEPT !.there = (v = "client")]]
        BY <1>1
      <4> QED BY <4>1, <4>2, <3>1, <1>3, Zenon
    <3> QED BY <3>2, NoJobTyped
  <2> QED BY <2>1, <2>2
<1>6. task' = [task EXCEPT ![d] = t]
  BY <1>1
<1> HIDE DEF t
<1>7. /\ status'[d] = "running" /\ vantage'[d] = v /\ task'[d] = t /\ clients'[d] = j
      /\ evidence' = [evidence EXCEPT ![d] = evidence'[d]] /\ evidence'[d] = evidence[d]
  BY <1>1, <1>5, <1>6 DEF DiagnosticsInv, DiagnosticsTypeOK
<1>8. OnlyOne(d)
  BY <1>1, <1>5, <1>6, <1>7 DEF OnlyOne
<1>9. TaskAgrees(d)'
  BY <1>4, <1>7 DEF TaskAgrees, Running
<1>10. JobAgrees(d)'
  BY <1>4, <1>5, <1>7, NoJobTyped DEF JobAgrees
<1>11. Agrees(d)' /\ Kept(d)
  BY <1>1, <1>7, <1>9, <1>10 DEF Agrees, Kept
<1> QED BY <1>1, <1>2, <1>4, <1>5, <1>7, <1>8, <1>11, RunnersIdle, OneSteps

(* The first sample has come.                                               *)
LEMMA FirstSampledStep ==
    ASSUME DiagnosticsInv, FirstSampled
    PROVE  DiagnosticsInv' /\ \A e \in Diagnostic : Kept(e)
<1>1. PICK d \in Diagnostic :
        /\ task[d].at = "first"
        /\ \/ /\ task[d].aborted
              /\ Finished(d, "failed", {})
           \/ /\ ~task[d].aborted /\ ~clients[d].complete
              /\ task' = [task EXCEPT ![d].timer = TRUE, ![d].sampling = "none",
                    ![d].at = IF vantage[d] = "server" THEN "probing" ELSE "waiting"]
              /\ UNCHANGED <<status, evidence, clients>>
           \/ /\ ~task[d].aborted /\ clients[d].complete
              /\ LastSample(d)
              /\ UNCHANGED <<status, evidence, clients>>
        /\ UNCHANGED <<vantage, runner>>
  BY DEF FirstSampled
<1>2. task[d] \in TaskRecord /\ vantage[d] \in {"server", "client"}
  BY DiagnosticTyped
<1>3. CASE Finished(d, "failed", {})
  BY <1>1, <1>3, RunnersIdle, FinishedSteps
<1>4. CASE /\ task' = [task EXCEPT ![d].timer = TRUE, ![d].sampling = "none",
                 ![d].at = IF vantage[d] = "server" THEN "probing" ELSE "waiting"]
           /\ UNCHANGED <<status, evidence, clients>>
  <2> DEFINE at == IF vantage[d] = "server" THEN "probing" ELSE "waiting"
  <2> DEFINE t == [task[d] EXCEPT !.timer = TRUE, !.sampling = "none", !.at = at]
  <2>1. at \in {"probing", "waiting"} /\ (at = "probing" => vantage[d] = "server")
    OBVIOUS
  <2>2. task' = [task EXCEPT ![d] = t]
    BY <1>4
  <2> HIDE DEF at
  <2>3. t \in TaskRecord /\ t.at = at /\ t.aborted = task[d].aborted
    BY <1>2, <2>1 DEF TaskRecord
  <2> HIDE DEF t
  <2> QED BY <1>1, <1>4, <2>1, <2>2, <2>3, TaskSteps
<1>5. CASE /\ clients[d].complete /\ LastSample(d)
           /\ UNCHANGED <<status, evidence, clients>>
  <2> DEFINE t == [task[d] EXCEPT !.at = "last", !.timer = TRUE, !.sampling = "task"]
  <2>1. task' = [task EXCEPT ![d] = t]
    BY <1>5 DEF LastSample
  <2>2. t \in TaskRecord /\ t.at = "last" /\ t.aborted = task[d].aborted
    BY <1>2 DEF TaskRecord
  <2> HIDE DEF t
  <2> QED BY <1>1, <1>5, <2>1, <2>2, TaskSteps
<1> QED BY <1>1, <1>3, <1>4, <1>5

(* The timer, and the probes of the server: a sample, then a report.        *)
LEMMA SampleStep ==
    ASSUME DiagnosticsInv, TimerFires \/ TimerSampled \/ StageEnds \/ StageSampled
    PROVE  DiagnosticsInv' /\ \A e \in Diagnostic : Kept(e)
<1>1. PICK d \in Diagnostic :
         /\ UNCHANGED <<vantage, clients, runner>>
         /\ \/ /\ task[d].timer \/ task[d].at = "probing"
               /\ Reported(d) /\ UNCHANGED task
            \/ /\ task[d].timer
               /\ task' = [task EXCEPT ![d].sampling = "timer"]
               /\ UNCHANGED <<status, evidence>>
            \/ /\ task[d].sampling = "timer"
               /\ task' = [task EXCEPT ![d].sampling = "none"]
               /\ Reported(d)
            \/ /\ task[d].at = "probing"
               /\ task' = [task EXCEPT ![d].at = "stage", ![d].sampling = "task"]
               /\ UNCHANGED <<status, evidence>>
            \/ /\ task[d].at = "stage"
               /\ task' = [task EXCEPT ![d].at = "probing", ![d].sampling = "none"]
               /\ Reported(d)
  BY DEF TimerFires, TimerSampled, StageEnds, StageSampled
<1>2. task[d] \in TaskRecord /\ Agrees(d) /\ task \in [Diagnostic -> TaskRecord]
  BY DiagnosticTyped DEF DiagnosticsInv, DiagnosticsTypeOK, TaskRecord
<1>3. /\ task[d].timer => task[d].at # "none"
      /\ task[d].at \in {"probing", "stage"} => vantage[d] = "server"
      /\ task[d].at = "none" => ~task[d].timer
      /\ task[d].at = "last" /\ ~task[d].aborted => clients[d].complete
  BY <1>2 DEF Agrees, TaskAgrees, JobAgrees
<1>4. CASE /\ task[d].timer \/ task[d].at = "probing"
           /\ Reported(d) /\ UNCHANGED task
  <2>1. task' = [task EXCEPT ![d] = task[d]]
    BY <1>2, <1>4
  <2> QED BY <1>1, <1>2, <1>3, <1>4, <2>1, ReportedSteps
<1>5. CASE /\ task[d].timer
           /\ task' = [task EXCEPT ![d].sampling = "timer"]
           /\ UNCHANGED <<status, evidence>>
  <2> DEFINE t == [task[d] EXCEPT !.sampling = "timer"]
  <2>1. task' = [task EXCEPT ![d] = t]
    BY <1>5
  <2>2. t \in TaskRecord /\ t.at = task[d].at /\ t.aborted = task[d].aborted
    BY <1>2 DEF TaskRecord
  <2> HIDE DEF t
  <2> QED BY <1>1, <1>3, <1>5, <2>1, <2>2, TaskSteps
<1>6. CASE /\ task[d].sampling = "timer"
           /\ task' = [task EXCEPT ![d].sampling = "none"]
           /\ Reported(d)
  <2> DEFINE t == [task[d] EXCEPT !.sampling = "none"]
  <2>1. task' = [task EXCEPT ![d] = t]
    BY <1>6
  <2>2. /\ t \in TaskRecord /\ t.at = task[d].at /\ t.aborted = task[d].aborted
        /\ t.timer = task[d].timer /\ t.sampling = "none"
    BY <1>2 DEF TaskRecord
  <2> HIDE DEF t
  <2>3. t.at = "none" => task[d].at = "none" /\ ~t.timer /\ t.sampling = "none"
    BY <1>3, <2>2
  <2>4. /\ t.at \in {"probing", "stage"} => vantage[d] = "server"
        /\ t.at = "last" => task[d].at = "last"
        /\ task[d].at # "none" \/ task[d].sampling # "none"
    BY <1>3, <1>6, <2>2
  <2>5. Reported(d) /\ UNCHANGED <<vantage, clients, runner>>
    BY <1>1, <1>6
  <2> QED BY <2>1, <2>2, <2>3, <2>4, <2>5, ReportedSteps
<1>7. CASE /\ task[d].at = "probing"
           /\ task' = [task EXCEPT ![d].at = "stage", ![d].sampling = "task"]
           /\ UNCHANGED <<status, evidence>>
  <2> DEFINE t == [task[d] EXCEPT !.at = "stage", !.sampling = "task"]
  <2>1. task' = [task EXCEPT ![d] = t]
    BY <1>7
  <2>2. t \in TaskRecord /\ t.at = "stage" /\ t.aborted = task[d].aborted
    BY <1>2 DEF TaskRecord
  <2> HIDE DEF t
  <2> QED BY <1>1, <1>3, <1>7, <2>1, <2>2, TaskSteps
<1>8. CASE /\ task[d].at = "stage"
           /\ task' = [task EXCEPT ![d].at = "probing", ![d].sampling = "none"]
           /\ Reported(d)
  <2> DEFINE t == [task[d] EXCEPT !.at = "probing", !.sampling = "none"]
  <2>1. task' = [task EXCEPT ![d] = t]
    BY <1>8
  <2>2. t \in TaskRecord /\ t.at = "probing" /\ t.aborted = task[d].aborted
    BY <1>2 DEF TaskRecord
  <2> HIDE DEF t
  <2> QED BY <1>1, <1>3, <1>8, <2>1, <2>2, ReportedSteps
<1> QED BY <1>1, <1>4, <1>5, <1>6, <1>7, <1>8

(* A task ends: probes of the server, a wait that expired, a last sample.   *)
LEMMA EndStep ==
    ASSUME DiagnosticsInv, ProbesEnd \/ WaitExpires \/ LastSampled
    PROVE  DiagnosticsInv' /\ \A e \in Diagnostic : Kept(e)
<1>1. CASE ProbesEnd
  <2>1. PICK d \in Diagnostic, s \in {"completed", "failed"} :
           task[d].at = "probing" /\ Finished(d, s, {}) /\ UNCHANGED <<vantage, runner>>
    BY <1>1 DEF ProbesEnd
  <2>2. vantage[d] = "server"
    BY <2>1, DiagnosticTyped DEF Agrees, TaskAgrees
  <2> QED BY <2>1, <2>2, RunnersIdle, FinishedSteps
<1>2. CASE WaitExpires
  <2>1. PICK d \in Diagnostic :
           task[d].at = "waiting" /\ Finished(d, "failed", {}) /\ UNCHANGED <<vantage, runner>>
    BY <1>2 DEF WaitExpires
  <2> QED BY <2>1, RunnersIdle, FinishedSteps
<1>3. CASE LastSampled
  <2>1. PICK d \in Diagnostic :
           /\ task[d].at = "last" /\ Finished(d, "completed", clients[d].report)
           /\ UNCHANGED <<vantage, runner>>
    BY <1>3 DEF LastSampled
  <2>2. /\ clients[d].report \in SUBSET Method
        /\ ~task[d].aborted => clients[d].report = Method
    BY <2>1, DiagnosticTyped DEF Agrees, JobAgrees, JobRecord
  <2> QED BY <2>1, <2>2, RunnersIdle, FinishedSteps
<1> QED BY <1>1, <1>2, <1>3

(* Runners that move keep working on diagnostics.                           *)
LEMMA RunnerMoves ==
    ASSUME DiagnosticsInv, NEW r \in Runner, NEW w \in RunnerRecord,
           runner' = [runner EXCEPT ![r] = w],
           w.at # "idle" => w.of \in Diagnostic
    PROVE  RunnersKept
<1>1. runner \in [Runner -> RunnerRecord]
  BY DEF DiagnosticsInv, DiagnosticsTypeOK, RunnerRecord
<1>2. runner' \in [Runner -> RunnerRecord] /\ runner'[r] = w
  BY <1>1
<1>3. \A q \in Runner : q # r => runner'[q] = runner[q]
  BY <1>1
<1> QED BY <1>2, <1>3 DEF DiagnosticsInv, RunnersKept

(* A runner that works goes on, or begins to stop.                          *)
LEMMA RunnerGoesOn ==
    ASSUME DiagnosticsInv, NEW r \in Runner, NEW at \in {"working", "stopping"},
           NEW done \in SUBSET Method, RunnerTo(r, at, done), runner[r].at # "idle"
    PROVE  RunnersKept
<1> DEFINE w == [runner[r] EXCEPT !.at = at, !.done = done]
<1>1. runner[r] \in RunnerRecord /\ runner[r].of \in Diagnostic
  BY DEF DiagnosticsInv, DiagnosticsTypeOK, RunnerRecord
<1>2. w \in RunnerRecord /\ w.of = runner[r].of
  BY <1>1 DEF RunnerRecord
<1>3. runner' = [runner EXCEPT ![r] = w]
  BY DEF RunnerTo
<1> HIDE DEF w
<1> QED BY <1>1, <1>2, <1>3, RunnerMoves

(* A runner that has ended is idle.                                         *)
LEMMA RunnerEnds ==
    ASSUME DiagnosticsInv, NEW r \in Runner, runner' = [runner EXCEPT ![r] = Idle]
    PROVE  RunnersKept
<1>1. Idle \in RunnerRecord /\ Idle.at = "idle"
  BY DiagnosticsAssumption DEF Idle, RunnerRecord
<1> QED BY <1>1, RunnerMoves

(* Nothing but the runners moves.                                           *)
LEMMA RunnersOnly ==
    ASSUME DiagnosticsInv, RunnersKept,
           UNCHANGED <<status, evidence, vantage, task, clients>>
    PROVE  DiagnosticsInv' /\ \A e \in Diagnostic : Kept(e)
<1>1. DiagnosticsTypeOK'
  BY DEF DiagnosticsInv, DiagnosticsTypeOK, RunnersKept, RunnerRecord
<1>2. \A d \in Diagnostic : Agrees(d)' /\ Kept(d)
  BY DEF DiagnosticsInv, Agrees, TaskAgrees, JobAgrees, Running, Kept
<1> QED BY <1>1, <1>2 DEF DiagnosticsInv, RunnersKept-----------------------------------------------------------------------------
(* A runner takes the job, once.                                            *)
LEMMA ClaimStep ==
    ASSUME DiagnosticsInv, ClaimDiagnostic
    PROVE  DiagnosticsInv' /\ \A e \in Diagnostic : Kept(e)
<1>1. PICK r \in Runner, d \in Diagnostic :
         /\ clients[d].there /\ ~clients[d].claimed /\ Running(d)
         /\ clients' = [clients EXCEPT ![d].claimed = TRUE, ![d].token = r]
         /\ runner' = [runner EXCEPT ![r] = [of |-> d, at |-> "working", done |-> {}]]
         /\ UNCHANGED <<status, evidence, vantage, task>>
  BY DEF ClaimDiagnostic
<1> DEFINE j == [clients[d] EXCEPT !.claimed = TRUE, !.token = r]
<1>2. /\ clients[d] \in JobRecord /\ Agrees(d) /\ task[d] \in TaskRecord
      /\ status[d] \in {"none", "running", "completed", "failed", "cancelled"}
      /\ evidence[d] \in SUBSET Method /\ vantage[d] \in {"server", "client"}
  BY DiagnosticTyped
<1>3. r \in 0..MaxRunners
  BY DiagnosticsAssumption DEF Runner
<1>4. /\ j \in JobRecord /\ j.there = clients[d].there /\ j.claimed = TRUE
      /\ j.complete = clients[d].complete
  BY <1>2, <1>3 DEF JobRecord
<1>5. ~clients[d].complete
  BY <1>1, <1>2 DEF Agrees, JobAgrees
<1>6. clients' = [clients EXCEPT ![d] = j]
  BY <1>1
<1> HIDE DEF j
<1>7. /\ status' = [status EXCEPT ![d] = status'[d]]
      /\ evidence' = [evidence EXCEPT ![d] = evidence'[d]]
      /\ vantage' = [vantage EXCEPT ![d] = vantage'[d]]
      /\ task' = [task EXCEPT ![d] = task'[d]] /\ clients'[d] = j
  BY <1>1, <1>6 DEF DiagnosticsInv, DiagnosticsTypeOK
<1>8. OnlyOne(d)
  BY <1>6, <1>7 DEF OnlyOne
<1>9. RunnersKept
  <2> DEFINE w == [of |-> d, at |-> "working", done |-> {}]
  <2>1. w \in RunnerRecord /\ w.of = d
    BY DiagnosticsAssumption DEF RunnerRecord, Diagnostic
  <2>2. runner' = [runner EXCEPT ![r] = w]
    BY <1>1
  <2> HIDE DEF w
  <2> QED BY <2>1, <2>2, RunnerMoves
<1>10. JobAgrees(d)'
  BY <1>1, <1>2, <1>4, <1>5, <1>7 DEF Agrees, JobAgrees
<1>11. Agrees(d)' /\ Kept(d)
  BY <1>1, <1>2, <1>10 DEF Agrees, TaskAgrees, Running, Kept
<1> QED BY <1>1, <1>2, <1>4, <1>7, <1>8, <1>9, <1>11, OneSteps

(* A report of the runner that has the job: a waiting task goes on with a   *)
(* complete one, and ends with it when the timer is taking a sample.        *)
LEMMA AcceptedStep ==
    ASSUME DiagnosticsInv, NEW d \in Diagnostic, NEW r \in Runner, Accepts(d, r),
           NEW stages \in SUBSET Method, NEW complete \in BOOLEAN,
           complete => stages = Method, Accepted(d, stages, complete),
           UNCHANGED vantage, RunnersKept
    PROVE  DiagnosticsInv' /\ \A e \in Diagnostic : Kept(e)
<1>1. /\ clients[d] \in JobRecord /\ Agrees(d) /\ task[d] \in TaskRecord
      /\ vantage[d] \in {"server", "client"}
  BY DiagnosticTyped
<1>2. /\ clients[d].there /\ clients[d].token = r /\ status[d] = "running" /\ r # 0
      /\ vantage[d] = "client"
  BY <1>1 DEF Accepts, Running, Runner, Agrees, JobAgrees
<1>3. ~clients[d].complete /\ clients[d].claimed /\ ~(task[d].at = "last" /\ ~task[d].aborted)
  BY <1>1, <1>2 DEF Agrees, JobAgrees
<1>4. CASE Ends(complete) /\ task[d].at = "waiting" /\ task[d].sampling = "timer"
  <2>1. Finished(d, "completed", stages) /\ stages = Method
    BY <1>4 DEF Accepted, Ends
  <2> QED BY <1>4, <2>1, FinishedSteps
<1>5. CASE ~(Ends(complete) /\ task[d].at = "waiting" /\ task[d].sampling = "timer")
  <2>1. /\ clients' = [clients EXCEPT ![d].report = stages, ![d].complete = complete,
                             ![d].token = IF complete THEN 0 ELSE @]
        /\ Written(d, "running") /\ evidence' = [evidence EXCEPT ![d] = stages]
        /\ IF complete /\ task[d].at = "waiting" THEN LastSample(d) ELSE UNCHANGED task
    BY <1>5 DEF Accepted, Ends
  <2>2. PICK k \in JobRecord :
           /\ clients' = [clients EXCEPT ![d] = k]
           /\ k.there = clients[d].there /\ k.claimed = clients[d].claimed /\ k.report = stages
           /\ k.complete => stages = Method /\ k.token = 0
           /\ complete => k.complete
    <3>1. CASE complete = TRUE
      <4> DEFINE k == [clients[d] EXCEPT !.report = stages, !.complete = TRUE, !.token = 0]
      <4>1. clients' = [clients EXCEPT ![d] = k]
        BY <3>1, <2>1
      <4>2. /\ k \in JobRecord /\ k.complete = TRUE /\ k.token = 0
            /\ k.there = clients[d].there /\ k.claimed = clients[d].claimed /\ k.report = stages
        BY <1>1, NoJobTyped DEF JobRecord, NoClient
      <4> HIDE DEF k
      <4> QED BY <3>1, <4>1, <4>2
    <3>2. CASE complete = FALSE
      <4> DEFINE k == [clients[d] EXCEPT !.report = stages, !.complete = FALSE]
      <4>1. clients' = [clients EXCEPT ![d].report = stages, ![d].complete = FALSE,
                               ![d].token = @]
        BY <3>2, <2>1
      <4>2. clients' = [clients EXCEPT ![d] = k]
        BY <4>1, <1>1 DEF JobRecord
      <4>3. /\ k \in JobRecord /\ k.complete = FALSE
            /\ k.there = clients[d].there /\ k.claimed = clients[d].claimed /\ k.report = stages
        BY <1>1 DEF JobRecord
      <4> HIDE DEF k
      <4> QED BY <3>2, <4>2, <4>3
    <3> QED BY <3>1, <3>2
  <2>3. status' = status
    <3>1. CASE task[d].aborted
      BY <2>1, <3>1 DEF Written, DiagnosticsInv, DiagnosticsTypeOK
    <3>2. CASE ~task[d].aborted
      <4>1. status' = [status EXCEPT ![d] = "running"]
        BY <2>1, <3>2 DEF Written
      <4> QED BY <4>1, <1>2 DEF DiagnosticsInv, DiagnosticsTypeOK
    <3> QED BY <3>1, <3>2
  <2>4. PICK t \in TaskRecord :
           /\ task' = [task EXCEPT ![d] = t] /\ t.aborted = task[d].aborted
           /\ \/ t = task[d]
              \/ complete /\ t.at = "last" /\ task[d].at = "waiting"
    <3>1. CASE complete /\ task[d].at = "waiting"
      <4> DEFINE t == [task[d] EXCEPT !.at = "last", !.timer = TRUE, !.sampling = "task"]
      <4>1. task' = [task EXCEPT ![d] = t]
        BY <3>1, <2>1 DEF LastSample
      <4>2. t \in TaskRecord /\ t.at = "last" /\ t.aborted = task[d].aborted
        BY <1>1 DEF TaskRecord
      <4> HIDE DEF t
      <4> QED BY <3>1, <4>1, <4>2
    <3>2. CASE ~(complete /\ task[d].at = "waiting")
      <4>1. task' = [task EXCEPT ![d] = task[d]]
        BY <3>2, <2>1 DEF DiagnosticsInv, DiagnosticsTypeOK
      <4> QED BY <4>1, <1>1
    <3> QED BY <3>1, <3>2
  <2>5. /\ status' = [status EXCEPT ![d] = status'[d]] /\ status'[d] = "running"
        /\ evidence' = [evidence EXCEPT ![d] = evidence'[d]] /\ evidence'[d] = stages
        /\ vantage' = [vantage EXCEPT ![d] = vantage'[d]] /\ vantage'[d] = "client"
        /\ task' = [task EXCEPT ![d] = task'[d]] /\ task'[d] = t
        /\ clients' = [clients EXCEPT ![d] = clients'[d]] /\ clients'[d] = k
    BY <1>2, <2>1, <2>2, <2>3, <2>4 DEF DiagnosticsInv, DiagnosticsTypeOK
  <2>6. OnlyOne(d)
    BY <2>5 DEF OnlyOne
  <2>7. TaskAgrees(d)'
    BY <1>1, <1>2, <2>4, <2>5 DEF Agrees, TaskAgrees, Running
  <2>8. JobAgrees(d)'
    <3>1. t.at = "last" /\ ~t.aborted => complete
      BY <1>3, <2>4
    <3> QED BY <1>2, <1>3, <2>2, <2>5, <3>1 DEF JobAgrees
  <2>9. Agrees(d)' /\ Kept(d)
    BY <1>2, <2>5, <2>7, <2>8 DEF Agrees, Kept
  <2> QED BY <2>2, <2>4, <2>5, <2>6, <2>9, OneSteps
<1> QED BY <1>4, <1>5

(* A runner measures, reports, and gives up when it is refused.             *)
LEMMA RunnerStep ==
    ASSUME DiagnosticsInv, Progress \/ Completes \/ RunnerStops
    PROVE  DiagnosticsInv' /\ \A e \in Diagnostic : Kept(e)
<1>1. \A r \in Runner : /\ runner[r] \in RunnerRecord
                        /\ runner[r].at # "idle" => runner[r].of \in Diagnostic
  BY DEF DiagnosticsInv, DiagnosticsTypeOK, RunnerRecord
<1>2. CASE Progress
  <2>1. PICK r \in Runner : \E m \in Method \ runner[r].done :
           /\ runner[r].at = "working"
           /\ \/ /\ Accepts(runner[r].of, r)
                 /\ Accepted(runner[r].of, runner[r].done \cup {m}, FALSE)
                 /\ RunnerTo(r, "working", runner[r].done \cup {m})
              \/ /\ \/ RunnerTo(r, "working", runner[r].done \cup {m})
                    \/ RunnerTo(r, "stopping", runner[r].done \cup {m})
                 /\ UNCHANGED <<status, evidence, task, clients>>
           /\ UNCHANGED vantage
    BY <1>2 DEF Progress
  <2>2. PICK m \in Method :
           /\ runner[r].at = "working"
           /\ \/ /\ Accepts(runner[r].of, r)
                 /\ Accepted(runner[r].of, runner[r].done \cup {m}, FALSE)
                 /\ RunnerTo(r, "working", runner[r].done \cup {m})
              \/ /\ \/ RunnerTo(r, "working", runner[r].done \cup {m})
                    \/ RunnerTo(r, "stopping", runner[r].done \cup {m})
                 /\ UNCHANGED <<status, evidence, task, clients>>
           /\ UNCHANGED vantage
    BY <2>1, Zenon
  <2> DEFINE done == runner[r].done \cup {m}
  <2>3. done \in SUBSET Method /\ runner[r].of \in Diagnostic
    BY <1>1, <2>2 DEF RunnerRecord
  <2>4. RunnerTo(r, "working", done) \/ RunnerTo(r, "stopping", done)
    BY <2>2
  <2>5. \/ Accepts(runner[r].of, r) /\ Accepted(runner[r].of, done, FALSE)
        \/ UNCHANGED <<status, evidence, task, clients>>
    BY <2>2
  <2> HIDE DEF done
  <2>6. RunnersKept
    BY <2>2, <2>3, <2>4, RunnerGoesOn
  <2> QED BY <2>2, <2>3, <2>5, <2>6, AcceptedStep, RunnersOnly
<1>3. CASE Completes
  <2>1. PICK r \in Runner :
           /\ runner[r].at = "working"
           /\ \/ /\ Accepts(runner[r].of, r) /\ Accepted(runner[r].of, Method, TRUE)
                 /\ \/ runner' = [runner EXCEPT ![r] = Idle]
                    \/ RunnerTo(r, "stopping", Method)
              \/ /\ RunnerTo(r, "stopping", Method)
                 /\ UNCHANGED <<status, evidence, task, clients>>
           /\ UNCHANGED vantage
    BY <1>3 DEF Completes
  <2>2. runner[r].of \in Diagnostic
    BY <1>1, <2>1
  <2>3. RunnersKept
    BY <2>1, RunnerEnds, RunnerGoesOn
  <2> QED BY <2>1, <2>2, <2>3, AcceptedStep, RunnersOnly
<1>4. CASE RunnerStops
  <2>1. PICK r \in Runner :
           /\ runner[r].at = "working"
           /\ RunnerTo(r, "stopping", runner[r].done)
           /\ UNCHANGED <<status, evidence, vantage, task, clients>>
    BY <1>4 DEF RunnerStops
  <2>2. runner[r].done \in SUBSET Method
    BY <1>1 DEF RunnerRecord
  <2> QED BY <2>1, <2>2, RunnerGoesOn, RunnersOnly
<1> QED BY <1>2, <1>3, <1>4-----------------------------------------------------------------------------
(* A cancellation: of an operation that runs, or of a job that is left.     *)
LEMMA CancelledSteps ==
    ASSUME DiagnosticsInv, NEW d \in Diagnostic, Cancelled(d), RunnersKept
    PROVE  DiagnosticsInv' /\ \A e \in Diagnostic : Kept(e)
<1>1. /\ task[d] \in TaskRecord /\ Agrees(d) /\ evidence[d] \in SUBSET Method
      /\ vantage[d] \in {"server", "client"}
      /\ status[d] \in {"none", "running", "completed", "failed", "cancelled"}
  BY DiagnosticTyped
<1>2. /\ clients' = [clients EXCEPT ![d] = NoClient] /\ clients'[d] = NoClient
      /\ evidence' = [evidence EXCEPT ![d] = evidence'[d]] /\ evidence'[d] = evidence[d]
      /\ vantage' = [vantage EXCEPT ![d] = vantage'[d]] /\ vantage'[d] = vantage[d]
  BY DEF Cancelled, DiagnosticsInv, DiagnosticsTypeOK
<1>3. CASE Running(d)
  <2>1. /\ status' = [status EXCEPT ![d] = "cancelled"]
        /\ task' = [task EXCEPT ![d] =
              IF @.at = "none" THEN @
              ELSE IF @.at = "waiting"
              THEN [@ EXCEPT !.aborted = TRUE, !.at = "none", !.timer = FALSE]
              ELSE [@ EXCEPT !.aborted = TRUE]]
    BY <1>3 DEF Cancelled
  <2>2. PICK t \in TaskRecord :
           /\ task' = [task EXCEPT ![d] = t]
           /\ \/ t = task[d] /\ t.at = "none"
              \/ t.aborted = TRUE /\ t.at = "none" /\ t.timer = FALSE
              \/ t.aborted = TRUE /\ t.at = task[d].at /\ t.at # "none"
    <3>1. CASE task[d].at = "none"
      <4>1. task' = [task EXCEPT ![d] = task[d]]
        BY <2>1, <3>1
      <4> QED BY <4>1, <3>1, <1>1
    <3>2. CASE task[d].at = "waiting"
      <4> DEFINE t == [task[d] EXCEPT !.aborted = TRUE, !.at = "none", !.timer = FALSE]
      <4>1. task' = [task EXCEPT ![d] = t]
        BY <2>1, <3>2
      <4>2. t \in TaskRecord /\ t.aborted = TRUE /\ t.at = "none" /\ t.timer = FALSE
        BY <1>1 DEF TaskRecord
      <4> HIDE DEF t
      <4> QED BY <4>1, <4>2
    <3>3. CASE task[d].at \notin {"none", "waiting"}
      <4> DEFINE t == [task[d] EXCEPT !.aborted = TRUE]
      <4>1. task' = [task EXCEPT ![d] = t]
        BY <2>1, <3>3
      <4>2. t \in TaskRecord /\ t.aborted = TRUE /\ t.at = task[d].at
        BY <1>1 DEF TaskRecord
      <4> HIDE DEF t
      <4> QED BY <4>1, <4>2, <3>3
    <3> QED BY <3>1, <3>2, <3>3
  <2>3. status'[d] = "cancelled" /\ task'[d] = t
    BY <2>1, <2>2 DEF DiagnosticsInv, DiagnosticsTypeOK
  <2>4. OnlyOne(d)
    BY <1>2, <2>1, <2>2, <2>3 DEF OnlyOne
  <2>5. TaskAgrees(d)'
    BY <1>1, <1>2, <1>3, <2>2, <2>3 DEF Agrees, TaskAgrees, Running
  <2>6. JobAgrees(d)'
    BY <1>2, <2>2, <2>3, NoJobTyped DEF JobAgrees
  <2>7. Agrees(d)' /\ Kept(d)
    BY <1>2, <2>3, <2>5, <2>6 DEF Agrees, Kept
  <2> QED BY <1>1, <1>2, <2>2, <2>3, <2>4, <2>7, NoJobTyped, OneSteps
<1>4. CASE ~Running(d)
  <2>1. UNCHANGED <<status, task>>
    BY <1>4 DEF Cancelled
  <2>2. /\ status' = [status EXCEPT ![d] = status'[d]] /\ status'[d] = status[d]
        /\ task' = [task EXCEPT ![d] = task'[d]] /\ task'[d] = task[d]
    BY <2>1 DEF DiagnosticsInv, DiagnosticsTypeOK
  <2>3. OnlyOne(d)
    BY <1>2, <2>2 DEF OnlyOne
  <2>4. TaskAgrees(d)'
    BY <1>1, <1>2, <2>2 DEF Agrees, TaskAgrees, Running
  <2>5. JobAgrees(d)'
    BY <1>1, <1>2, <1>4, <2>2, NoJobTyped DEF Agrees, TaskAgrees, JobAgrees
  <2>6. Agrees(d)' /\ Kept(d)
    BY <1>1, <1>2, <2>2, <2>4, <2>5 DEF Agrees, Kept
  <2> QED BY <1>1, <1>2, <2>2, <2>3, <2>6, NoJobTyped, OneSteps
<1> QED BY <1>3, <1>4

(* The owner cancels, or a runner that has given up.                        *)
LEMMA CancelStep ==
    ASSUME DiagnosticsInv, OwnerCancels \/ RunnerCancels
    PROVE  DiagnosticsInv' /\ \A e \in Diagnostic : Kept(e)
<1>1. CASE OwnerCancels
  BY <1>1, RunnersIdle, CancelledSteps DEF OwnerCancels
<1>2. CASE RunnerCancels
  <2>1. PICK r \in Runner :
           /\ runner[r].at = "stopping"
           /\ runner' = [runner EXCEPT ![r] = Idle]
           /\ \/ Cancelled(runner[r].of)
              \/ UNCHANGED <<status, evidence, vantage, task, clients>>
    BY <1>2 DEF RunnerCancels
  <2>2. runner[r].of \in Diagnostic
    BY <2>1 DEF DiagnosticsInv
  <2>3. RunnersKept
    BY <2>1, RunnerEnds
  <2> QED BY <2>1, <2>2, <2>3, CancelledSteps, RunnersOnly
<1> QED BY <1>1, <1>2

(* The application restarts: no task and no job is left.                    *)
LEMMA ApplicationRestartStep ==
    ASSUME DiagnosticsInv, ApplicationRestarts
    PROVE  DiagnosticsInv' /\ \A e \in Diagnostic : Kept(e)
<1>1. /\ NoTask \in TaskRecord /\ NoTask.at = "none" /\ NoTask.timer = FALSE
      /\ NoTask.sampling = "none"
  BY DEF NoTask, TaskRecord
<1>2. \A d \in Diagnostic :
         /\ status'[d] = IF Running(d) THEN "failed" ELSE status[d]
         /\ task'[d] = NoTask /\ clients'[d] = NoClient
         /\ evidence'[d] = evidence[d] /\ vantage'[d] = vantage[d]
  BY DEF ApplicationRestarts
<1>3. /\ task' \in [Diagnostic -> TaskRecord] /\ clients' \in [Diagnostic -> JobRecord]
      /\ UNCHANGED <<evidence, vantage, runner>>
  BY <1>1, NoJobTyped DEF ApplicationRestarts
<1>4. status' \in [Diagnostic -> {"none", "running", "completed", "failed", "cancelled"}]
  BY DEF ApplicationRestarts, DiagnosticsInv, DiagnosticsTypeOK
<1>5. DiagnosticsTypeOK'
  BY <1>3, <1>4 DEF DiagnosticsInv, DiagnosticsTypeOK, TaskRecord, JobRecord
<1>6. \A d \in Diagnostic : Agrees(d)' /\ Kept(d)
  <2> SUFFICES ASSUME NEW d \in Diagnostic PROVE Agrees(d)' /\ Kept(d)
    OBVIOUS
  <2>1. TaskAgrees(d)'
    BY <1>1, <1>2 DEF TaskAgrees
  <2>2. JobAgrees(d)'
    BY <1>1, <1>2, NoJobTyped DEF JobAgrees
  <2>3. Agrees(d)
    BY DEF DiagnosticsInv
  <2> QED BY <1>2, <2>1, <2>2, <2>3 DEF Agrees, Kept, Running
<1> QED BY <1>3, <1>5, <1>6 DEF DiagnosticsInv

(* The invariant holds at first ...                                         *)
LEMMA DiagnosticsInvInit ==
    ASSUME DiagnosticsInit
    PROVE  DiagnosticsInv
<1>1. /\ NoTask \in TaskRecord /\ NoTask.at = "none" /\ NoTask.timer = FALSE
      /\ NoTask.sampling = "none"
  BY DEF NoTask, TaskRecord
<1>2. Idle \in RunnerRecord /\ Idle.at = "idle"
  BY DiagnosticsAssumption DEF Idle, RunnerRecord
<1>3. DiagnosticsTypeOK
  <2>1. /\ task \in [Diagnostic -> TaskRecord] /\ clients \in [Diagnostic -> JobRecord]
        /\ runner \in [Runner -> RunnerRecord]
    BY <1>1, <1>2, NoJobTyped DEF DiagnosticsInit
  <2> QED BY <2>1 DEF DiagnosticsInit, DiagnosticsTypeOK, TaskRecord, JobRecord, RunnerRecord
<1>4. \A d \in Diagnostic : Agrees(d)
  BY <1>1, NoJobTyped DEF DiagnosticsInit, Agrees, TaskAgrees, JobAgrees
<1> QED BY <1>2, <1>3, <1>4 DEF DiagnosticsInv, DiagnosticsInit

(* ... and every step keeps it, and what was cancelled.                     *)
LEMMA DiagnosticsInvNext ==
    ASSUME DiagnosticsInv, [DiagnosticsNext]_diagnosticVars
    PROVE  DiagnosticsInv' /\ \A e \in Diagnostic : Kept(e)
<1>1. CASE RunDiagnostic \/ FirstSampled \/ TimerFires \/ TimerSampled \/ StageEnds \/ StageSampled
  BY <1>1, RunStep, FirstSampledStep, SampleStep
<1>2. CASE ProbesEnd \/ WaitExpires \/ LastSampled
  BY <1>2, EndStep
<1>3. CASE ClaimDiagnostic \/ Progress \/ Completes \/ RunnerStops
  BY <1>3, ClaimStep, RunnerStep
<1>4. CASE OwnerCancels \/ RunnerCancels \/ ApplicationRestarts
  BY <1>4, CancelStep, ApplicationRestartStep
<1>5. CASE UNCHANGED diagnosticVars
  BY <1>5, RunnersIdle, RunnersOnly DEF diagnosticVars
<1> QED BY <1>1, <1>2, <1>3, <1>4, <1>5 DEF DiagnosticsNext

(* Whatever samples, probes and reports are on their way, the invariant of  *)
(* the diagnostics holds.                                                   *)
THEOREM DiagnosticsCorrect == DiagnosticsSpec => []DiagnosticsInv
<1>1. DiagnosticsInv /\ [DiagnosticsNext]_diagnosticVars => DiagnosticsInv'
  BY DiagnosticsInvNext
<1>2. DiagnosticsInit => DiagnosticsInv
  BY DiagnosticsInvInit
<1> QED BY <1>1, <1>2, PTL DEF DiagnosticsSpec

(* A cancelled diagnostic stays cancelled with what it had, and that of a   *)
(* client is completed with a report of every method only.                  *)
THEOREM DiagnosticsFinal == DiagnosticsSpec => ResultsAreFinal
<1>1. DiagnosticsInv /\ DiagnosticsInv' /\ [DiagnosticsNext]_diagnosticVars
        => [\A d \in Diagnostic :
              /\ status[d] = "cancelled" =>
                    status'[d] = "cancelled" /\ evidence'[d] = evidence[d]
              /\ status'[d] = "completed" /\ vantage'[d] = "client" =>
                    evidence'[d] = Method]_diagnosticVars
  <2> SUFFICES ASSUME DiagnosticsInv, DiagnosticsInv', [DiagnosticsNext]_diagnosticVars,
                      NEW d \in Diagnostic
               PROVE  /\ status[d] = "cancelled" =>
                            status'[d] = "cancelled" /\ evidence'[d] = evidence[d]
                      /\ status'[d] = "completed" /\ vantage'[d] = "client" =>
                            evidence'[d] = Method
    OBVIOUS
  <2>1. Kept(d)
    BY DiagnosticsInvNext
  <2>2. Agrees(d)'
    BY DEF DiagnosticsInv
  <2> QED BY <2>1, <2>2 DEF Kept, Agrees
<1> QED BY <1>1, DiagnosticsCorrect, PTL DEF DiagnosticsSpec, ResultsAreFinal
-----------------------------------------------------------------------------
(* Releases: the order of versions.                                        *)

VersionRow == [core : Nat, pre : Seq(Identifier)]

LEMMA AboveTransitive ==
    ASSUME NEW a \in Identifier, NEW b \in Identifier, NEW c \in Identifier,
           Above(a, b), Above(b, c)
    PROVE  Above(a, c)
<1>1. /\ a.value \in Nat /\ b.value \in Nat /\ c.value \in Nat
      /\ a.text \in BOOLEAN /\ b.text \in BOOLEAN /\ c.text \in BOOLEAN
      BY DEF Identifier
<1>2. CASE a.text = b.text /\ b.text = c.text
  <2>1. a.value > b.value /\ b.value > c.value BY <1>2 DEF Above
  <2>2. a.value > c.value BY <1>1, <2>1
  <2> QED BY <1>2, <2>2 DEF Above
<1>3. CASE a.text # b.text
  <2>1. a.text /\ ~ b.text BY <1>1, <1>3 DEF Above
  <2>2. ~ c.text BY <1>1, <2>1 DEF Above
  <2> QED BY <2>1, <2>2 DEF Above
<1>4. CASE a.text = b.text /\ b.text # c.text
  <2>1. b.text /\ ~ c.text BY <1>1, <1>4 DEF Above
  <2>2. a.text BY <1>4, <2>1
  <2> QED BY <2>1, <2>2 DEF Above
<1> QED BY <1>2, <1>3, <1>4

LEMMA NewerPreTransitive ==
    ASSUME NEW p \in Seq(Identifier), NEW q \in Seq(Identifier), NEW r \in Seq(Identifier),
           NewerPre(p, q), NewerPre(q, r)
    PROVE  NewerPre(p, r)
<1>1. PICK i \in DOMAIN p : /\ \A j \in 1..(i - 1) : j <= Len(q) /\ p[j] = q[j]
                            /\ i > Len(q) \/ Above(p[i], q[i])
      BY DEF NewerPre
<1>2. PICK k \in DOMAIN q : /\ \A j \in 1..(k - 1) : j <= Len(r) /\ q[j] = r[j]
                            /\ k > Len(r) \/ Above(q[k], r[k])
      BY DEF NewerPre
<1>3. /\ i \in Nat /\ k \in Nat /\ i >= 1 /\ k >= 1 /\ i <= Len(p) /\ k <= Len(q)
      /\ DOMAIN p = 1..Len(p) /\ DOMAIN q = 1..Len(q) /\ Len(p) \in Nat
      /\ Len(q) \in Nat /\ Len(r) \in Nat
      OBVIOUS
<1>4. CASE i < k
  <2>1. i <= Len(r) /\ q[i] = r[i] /\ i <= Len(q) BY <1>2, <1>3, <1>4
  <2>2. \A j \in 1..(i - 1) : j <= Len(r) /\ p[j] = r[j] BY <1>1, <1>2, <1>3, <1>4
  <2>3. Above(p[i], r[i]) BY <1>1, <1>3, <2>1
  <2> QED BY <2>2, <2>3 DEF NewerPre
<1>5. CASE i > k
  <2>1. p[k] = q[k] /\ k \in DOMAIN p BY <1>1, <1>3, <1>5
  <2>2. \A j \in 1..(k - 1) : j <= Len(r) /\ p[j] = r[j] BY <1>1, <1>2, <1>3, <1>5
  <2>3. k > Len(r) \/ Above(p[k], r[k]) BY <1>2, <2>1
  <2> QED BY <2>1, <2>2, <2>3 DEF NewerPre
<1>6. CASE i = k
  <2>1. \A j \in 1..(k - 1) : j <= Len(r) /\ p[j] = r[j] BY <1>1, <1>2, <1>3, <1>6
  <2>2. Above(p[k], q[k]) BY <1>1, <1>3, <1>6
  <2>3. CASE k > Len(r) BY <1>6, <2>1, <2>3 DEF NewerPre
  <2>4. CASE k <= Len(r)
    <3>1. Above(q[k], r[k]) BY <1>2, <1>3, <2>4
    <3>2. p[k] \in Identifier /\ q[k] \in Identifier /\ r[k] \in Identifier
          BY <1>3, <1>6, <2>4
    <3>3. Above(p[k], r[k]) BY <2>2, <3>1, <3>2, AboveTransitive
    <3> QED BY <1>6, <2>1, <3>3 DEF NewerPre
  <2> QED BY <1>3, <2>3, <2>4
<1> QED BY <1>3, <1>4, <1>5, <1>6

(* compareVersions() of two prereleases: one of them is the newer one, or  *)
(* they are the same.                                                      *)
LEMMA ComparePreDecides ==
    ASSUME NEW p \in Seq(Identifier), NEW q \in Seq(Identifier)
    PROVE  \/ ComparePre(p, q) = 1 /\ NewerPre(p, q)
           \/ ComparePre(p, q) = -1 /\ NewerPre(q, p)
           \/ ComparePre(p, q) = 0 /\ p = q
<1> DEFINE common == {i \in 1..Len(p) : i <= Len(q)}
           differ == {i \in common : p[i] # q[i]}
<1>1. /\ DOMAIN p = 1..Len(p) /\ DOMAIN q = 1..Len(q) /\ Len(p) \in Nat
      /\ Len(q) \in Nat
      OBVIOUS
<1>4. Len(p) \in Nat /\ Len(q) \in Nat OBVIOUS
<1>2. CASE differ = {}
  <2>1. ComparePre(p, q) = Sign(Len(p), Len(q)) BY <1>2 DEF ComparePre
  <2>2. \A i \in 1..Len(p) : i <= Len(q) => p[i] = q[i] BY <1>2
  <2>3. CASE Len(p) > Len(q)
    <3> DEFINE m == Len(q) + 1
    <3>1. m \in DOMAIN p /\ m > Len(q) BY <1>1, <2>3
    <3>2. \A j \in 1..(m - 1) : j <= Len(q) /\ p[j] = q[j] BY <1>1, <2>2, <2>3
    <3>3. NewerPre(p, q) BY <3>1, <3>2 DEF NewerPre
    <3> QED BY <1>1, <2>1, <2>3, <3>3 DEF Sign
  <2>4. CASE Len(p) < Len(q)
    <3> DEFINE m == Len(p) + 1
    <3>1. m \in DOMAIN q /\ m > Len(p) BY <1>1, <2>4
    <3>2. \A j \in 1..(m - 1) : j <= Len(p) /\ q[j] = p[j] BY <1>1, <2>2, <2>4
    <3>3. NewerPre(q, p) BY <3>1, <3>2 DEF NewerPre
    <3>4. Sign(Len(p), Len(q)) = -1 BY <1>4, <2>4 DEF Sign
    <3> QED BY <2>1, <3>3, <3>4
  <2>5. CASE Len(p) = Len(q)
    <3>1. p = q BY <1>1, <2>2, <2>5
    <3> QED BY <1>1, <2>1, <2>5, <3>1 DEF Sign
  <2>6. Len(p) > Len(q) \/ Len(p) < Len(q) \/ Len(p) = Len(q) BY <1>4
  <2> QED BY <2>3, <2>4, <2>5, <2>6
<1>3. CASE differ # {}
  <2>1. differ \subseteq Nat /\ differ # {} BY <1>1, <1>3
  <2>2. \E i \in differ : \A j \in differ : i <= j
    <3> DEFINE R == OpToRel(<, Nat)
    <3>1. PICK i \in differ : \A j \in differ : ~ (<<j, i>> \in R)
      <4> HIDE DEF differ
      <4> QED BY <2>1, NatLessThanWellFounded, WFMin
    <3>2. i \in Nat BY <2>1
    <3>3. SUFFICES ASSUME NEW j \in differ PROVE i <= j OBVIOUS
    <3>4. j \in Nat /\ ~ (<<j, i>> \in R) BY <2>1, <3>1
    <3> QED BY <3>2, <3>4 DEF OpToRel
  <2> DEFINE first == CHOOSE i \in differ : \A j \in differ : i <= j
  <2>3. first \in differ /\ \A j \in differ : first <= j
    <3> HIDE DEF differ
    <3> QED BY <2>2
  <2>4. ComparePre(p, q) = CompareIdentifier(p[first], q[first])
        BY <1>3 DEF ComparePre
  <2> HIDE DEF first
  <2>5. /\ first \in DOMAIN p /\ first \in DOMAIN q /\ p[first] # q[first]
        /\ first \in Nat /\ p[first] \in Identifier /\ q[first] \in Identifier
        BY <1>1, <2>3
  <2>6. \A j \in 1..(first - 1) : j <= Len(q) /\ j <= Len(p) /\ p[j] = q[j]
        BY <1>1, <2>3, <2>5
  <2>7. \/ CompareIdentifier(p[first], q[first]) = 1 /\ Above(p[first], q[first])
        \/ CompareIdentifier(p[first], q[first]) = -1 /\ Above(q[first], p[first])
        BY <2>5 DEF CompareIdentifier, Sign, Above, Identifier
  <2>8. Above(p[first], q[first]) => NewerPre(p, q) BY <2>5, <2>6 DEF NewerPre
  <2>9. Above(q[first], p[first]) => NewerPre(q, p) BY <2>5, <2>6 DEF NewerPre
  <2> QED BY <2>4, <2>7, <2>8, <2>9
<1> QED BY <1>2, <1>3

LEMMA NewerTransitive ==
    ASSUME NEW u \in VersionRow, NEW v \in VersionRow, NEW w \in VersionRow,
           Newer(u, v), Newer(v, w)
    PROVE  Newer(u, w)
<1>1. /\ u.core \in Nat /\ v.core \in Nat /\ w.core \in Nat
      /\ u.pre \in Seq(Identifier) /\ v.pre \in Seq(Identifier)
      /\ w.pre \in Seq(Identifier)
      BY DEF VersionRow
<1>2. /\ u.core >= v.core /\ v.core >= w.core
      /\ u.core = v.core => /\ v.pre # <<>>
                            /\ u.pre = <<>> \/ NewerPre(u.pre, v.pre)
      /\ v.core = w.core => /\ w.pre # <<>>
                            /\ v.pre = <<>> \/ NewerPre(v.pre, w.pre)
      BY <1>1 DEF Newer
<1>3. CASE u.core > w.core BY <1>3 DEF Newer
<1>4. CASE u.core = w.core
  <2>1. u.core = v.core /\ v.core = w.core BY <1>1, <1>2, <1>4
  <2>2. w.pre # <<>> /\ NewerPre(v.pre, w.pre) BY <1>2, <2>1
  <2>3. u.pre = <<>> \/ NewerPre(u.pre, w.pre)
        BY <1>1, <1>2, <2>1, <2>2, NewerPreTransitive
  <2> QED BY <1>4, <2>2, <2>3 DEF Newer
<1> QED BY <1>1, <1>2, <1>3, <1>4

LEMMA NeverNewerThanItself ==
    ASSUME NEW v \in VersionRow PROVE ~ Newer(v, v)
<1>1. v.core \in Nat /\ v.pre \in Seq(Identifier) BY DEF VersionRow
<1>2. ASSUME NewerPre(v.pre, v.pre) PROVE FALSE
  <2>1. PICK i \in DOMAIN v.pre : i > Len(v.pre) \/ Above(v.pre[i], v.pre[i])
        BY <1>2 DEF NewerPre
  <2>2. ~ (i > Len(v.pre)) /\ v.pre[i] \in Identifier BY <1>1
  <2> QED BY <2>1, <2>2 DEF Above, Identifier
<1> QED BY <1>1, <1>2 DEF Newer

(* compareVersions() decides between any two versions as the precedence.   *)
LEMMA CompareDecides ==
    ASSUME NEW v \in VersionRow, NEW w \in VersionRow
    PROVE  \/ compareVersions(v, w) = 1 /\ Newer(v, w)
           \/ compareVersions(v, w) = -1 /\ Newer(w, v)
           \/ compareVersions(v, w) = 0 /\ v = w
<1>1. /\ v.core \in Nat /\ w.core \in Nat
      /\ v.pre \in Seq(Identifier) /\ w.pre \in Seq(Identifier)
      BY DEF VersionRow
<1>2. v.core = w.core /\ v.pre = w.pre => v = w BY DEF VersionRow
<1>3. CASE v.core # w.core
  <2>1. compareVersions(v, w) = Sign(v.core, w.core) BY <1>3 DEF compareVersions
  <2>2. CASE v.core > w.core
        BY <1>1, <2>1, <2>2 DEF Sign, Newer
  <2>3. CASE w.core > v.core
    <3>1. Sign(v.core, w.core) = -1 BY <1>1, <2>3 DEF Sign
    <3> QED BY <2>1, <2>3, <3>1 DEF Newer
  <2>4. v.core > w.core \/ w.core > v.core BY <1>1, <1>3
  <2> QED BY <2>2, <2>3, <2>4
<1>4. CASE v.core = w.core /\ (v.pre = <<>> \/ w.pre = <<>>)
  <2>1. compareVersions(v, w) = (IF v.pre = w.pre THEN 0
                                 ELSE IF v.pre # <<>> THEN -1 ELSE 1)
        BY <1>4 DEF compareVersions
  <2>2. CASE v.pre = w.pre BY <1>2, <1>4, <2>1, <2>2
  <2>3. CASE v.pre # w.pre /\ v.pre # <<>>
    <3>1. Newer(w, v) BY <1>4, <2>3 DEF Newer
    <3> QED BY <2>1, <2>3, <3>1
  <2>4. CASE v.pre # w.pre /\ v.pre = <<>>
    <3>1. Newer(v, w) BY <1>4, <2>4 DEF Newer
    <3> QED BY <2>1, <2>4, <3>1
  <2> QED BY <2>2, <2>3, <2>4
<1>5. CASE v.core = w.core /\ v.pre # <<>> /\ w.pre # <<>>
  <2>1. compareVersions(v, w) = ComparePre(v.pre, w.pre) BY <1>5 DEF compareVersions
  <2>2. NewerPre(v.pre, w.pre) => Newer(v, w) BY <1>5 DEF Newer
  <2>3. NewerPre(w.pre, v.pre) => Newer(w, v) BY <1>5 DEF Newer
  <2> QED BY <1>1, <1>2, <1>5, <2>1, <2>2, <2>3, ComparePreDecides
<1> QED BY <1>3, <1>4, <1>5

LEMMA VersionsTyped == Version \subseteq VersionRow /\ IsFiniteSet(Version)
                       /\ Version # {} /\ NoVersion \notin Version
<1>1. \A v \in Version : v \in VersionRow /\ v.core # 0
      BY ReleasesAssumption DEF VersionRow
<1>2. NoVersion.core = 0 BY DEF NoVersion, Final
<1> QED BY <1>1, <1>2, ReleasesAssumption

(* Finitely many versions have one that no other precedes, whichever of    *)
(* two strict orders it is.                                                *)
LEMMA ExtremeExists ==
    ASSUME NEW S, S \subseteq Version, S # {}, NEW R,
           \A v \in S : <<v, v>> \notin R,
           \A u, v, w \in S : <<u, v>> \in R /\ <<v, w>> \in R => <<u, w>> \in R
    PROVE  \E v \in S : \A w \in S : <<w, v>> \notin R
<1> DEFINE Before(v) == {w \in S : <<w, v>> \in R}
           Size(v) == Cardinality(Before(v))
           Sizes == {Size(v) : v \in S}
           L == OpToRel(<, Nat)
<1>1. ASSUME NEW v \in S PROVE Size(v) \in Nat /\ IsFiniteSet(Before(v))
      BY VersionsTyped, FS_Subset, FS_CardinalityType
<1>2. Sizes \subseteq Nat /\ Sizes # {}
  <2> HIDE DEF Size
  <2>1. PICK v \in S : TRUE OBVIOUS
  <2>2. Size(v) \in Sizes OBVIOUS
  <2>3. \A u \in S : Size(u) \in Nat BY <1>1
  <2>4. \A n \in Sizes : \E u \in S : n = Size(u) OBVIOUS
  <2> QED BY <2>2, <2>3, <2>4
<1>3. PICK n \in Sizes : \A m \in Sizes : ~ (<<m, n>> \in L)
  <2> HIDE DEF Sizes
  <2> QED BY <1>2, NatLessThanWellFounded, WFMin
<1>4. PICK v \in S : n = Size(v) OBVIOUS
<1>5. ASSUME NEW w \in S, <<w, v>> \in R PROVE FALSE
  <2>1. Before(w) \subseteq Before(v) BY <1>5
  <2>2. w \in Before(v) /\ w \notin Before(w) BY <1>5
  <2>3. Before(w) # Before(v) BY <2>2
  <2>4. Size(w) < Size(v)
    <3> HIDE DEF Before
    <3>1. IsFiniteSet(Before(v)) /\ Size(v) \in Nat /\ Size(w) \in Nat BY <1>1
    <3>2. Size(w) <= Size(v) /\ (Size(w) = Size(v) => Before(w) = Before(v))
          BY <2>1, <3>1, FS_Subset
    <3> HIDE DEF Size
    <3> QED BY <2>3, <3>1, <3>2
  <2> HIDE DEF Size
  <2>5. Size(w) \in Sizes /\ Size(w) \in Nat /\ Size(v) \in Nat BY <1>1
  <2> HIDE DEF Sizes
  <2>6. <<Size(w), n>> \in L BY <1>4, <2>4, <2>5 DEF OpToRel
  <2> QED BY <1>3, <2>5, <2>6
<1> QED BY <1>5

LEMMA NewestExists ==
    ASSUME NEW S, S \subseteq Version, S # {}
    PROVE  \E v \in S : \A w \in S : compareVersions(v, w) >= 0
<1> DEFINE R == {x \in Version \X Version : Newer(x[1], x[2])}
<1>1. \A v \in Version : v \in VersionRow BY VersionsTyped
<1>3. ASSUME NEW u \in S, NEW v \in S PROVE <<u, v>> \in R <=> Newer(u, v)
      OBVIOUS
<1>2. \A v \in S : <<v, v>> \notin R BY <1>1, <1>3, NeverNewerThanItself
<1>4. \A u, v, w \in S : <<u, v>> \in R /\ <<v, w>> \in R => <<u, w>> \in R
      BY <1>1, <1>3, NewerTransitive
<1>5. PICK v \in S : \A w \in S : <<w, v>> \notin R
  <2> HIDE DEF R
  <2> QED BY <1>2, <1>4, ExtremeExists
<1>6. ASSUME NEW w \in S PROVE compareVersions(v, w) >= 0
  <2>1. v \in VersionRow /\ w \in VersionRow /\ ~ Newer(w, v) BY <1>1, <1>3, <1>5
  <2>2. compareVersions(v, w) = 1 \/ compareVersions(v, w) = 0 BY <2>1, CompareDecides
  <2> QED BY <2>2
<1> QED BY <1>6

LEMMA OldestExists == Oldest \in Version
<1> DEFINE R == {x \in Version \X Version : Newer(x[2], x[1])}
<1>1. \A v \in Version : v \in VersionRow BY VersionsTyped
<1>3. ASSUME NEW u \in Version, NEW v \in Version PROVE <<u, v>> \in R <=> Newer(v, u)
      OBVIOUS
<1>2. \A v \in Version : <<v, v>> \notin R BY <1>1, <1>3, NeverNewerThanItself
<1>4. \A u, v, w \in Version :
         <<u, v>> \in R /\ <<v, w>> \in R => <<u, w>> \in R
      BY <1>1, <1>3, NewerTransitive
<1>5. PICK v \in Version : \A w \in Version : <<w, v>> \notin R
  <2> HIDE DEF R
  <2> QED BY <1>2, <1>4, VersionsTyped, ExtremeExists
<1>6. ASSUME NEW w \in Version PROVE compareVersions(w, v) >= 0
  <2>1. v \in VersionRow /\ w \in VersionRow /\ ~ Newer(v, w) BY <1>1, <1>3, <1>5
  <2>2. compareVersions(w, v) = 1 \/ compareVersions(w, v) = 0 BY <2>1, CompareDecides
  <2> QED BY <2>2
<1> QED BY <1>6 DEF Oldest

-----------------------------------------------------------------------------
(* Releases: what is stored, prepared and tried.                           *)

PreparingRow == [at : {"none", "waits", "checks", "cached", "archive", "signature"},
                 read : StoredType, edition : 0..MaxEdition]

ReleasesTyped ==
    /\ current \in Version /\ trial \in Version \cup {NoVersion}
    /\ channel \in Channels /\ stored \in StoredType
    /\ checking \in Channels \cup {"none"} /\ preparing \in PreparingRow
    /\ archives \in [Version -> 0..MaxEdition]
    /\ signatures \in [Version -> 0..MaxEdition]

(* What a state offers is newer than the version it was made for, and of   *)
(* the channel it was made for.                                            *)
Sound(s) ==
    s.release # NoVersion =>
        /\ Newer(s.release, s.current)
        /\ s.channel = "stable" => ~ isPrerelease(s.release)

(* A state has been read, and is written back when its files are there:    *)
(* nothing is ready meanwhile.                                             *)
Held == preparing.at \in {"cached", "archive", "signature"}

HeldIsSound ==
    Held => /\ Sound(preparing.read) /\ preparing.read.release # NoVersion
            /\ ~ stored.ready

(* The files of what is ready are there, also while an update is tried     *)
(* that may be taken back.                                                 *)
ReadyHasFiles ==
    /\ stored.ready => stored.release # NoVersion
    /\ stored.ready /\ stored.current \in {current, trial} =>
          /\ archives[stored.release] # 0
          /\ signatures[stored.release] = archives[stored.release]

TrialIsNewer == trial # NoVersion => Newer(current, trial)

ReleasesInv ==
    ReleasesTyped /\ Sound(stored) /\ HeldIsSound /\ ReadyHasFiles /\ TrialIsNewer

LEMMA EmptyIsSound ==
    ASSUME NEW ch \in Channels, NEW v \in Version
    PROVE  /\ EmptyState(ch, v) \in StoredType /\ Sound(EmptyState(ch, v))
           /\ ~ EmptyState(ch, v).ready /\ EmptyState(ch, v).channel = ch
           /\ EmptyState(ch, v).current = v /\ EmptyState(ch, v).release = NoVersion
BY DEF EmptyState, StoredType, Sound

LEMMA NoPreparationTyped == NoPreparation \in PreparingRow /\ NoPreparation.at = "none"
<1>1. EmptyState("stable", Oldest) \in StoredType
      BY OldestExists, EmptyIsSound DEF Channels
<1>2. 0 \in 0..MaxEdition BY ReleasesAssumption
<1> QED BY <1>1, <1>2 DEF NoPreparation, PreparingRow

(* A state that offers nothing new of its own replaces what is stored.     *)
LEMMA StoresUnready ==
    ASSUME ReleasesInv, stored' \in StoredType, Sound(stored'), ~ stored'.ready,
           checking' \in Channels \cup {"none"}, channel' \in Channels,
           preparing' \in PreparingRow,
           preparing'.at \in {"cached", "archive", "signature"} =>
               Sound(preparing'.read) /\ preparing'.read.release # NoVersion,
           UNCHANGED <<current, trial, archives, signatures>>
    PROVE  ReleasesInv'
<1>1. ReleasesTyped' BY DEF ReleasesInv, ReleasesTyped
<1>2. HeldIsSound' BY DEF HeldIsSound, Held, Sound
<1>3. ReadyHasFiles' BY DEF ReadyHasFiles
<1>4. TrialIsNewer' BY DEF ReleasesInv, TrialIsNewer
<1>5. Sound(stored)' BY DEF Sound
<1> QED BY <1>1, <1>2, <1>3, <1>4, <1>5 DEF ReleasesInv

(* check() begins.                                                         *)
LEMMA CheckStartsStep ==
    ASSUME ReleasesInv, CheckStarts
    PROVE  /\ stored' \in StoredType /\ Sound(stored') /\ ~ stored'.ready
           /\ checking' \in Channels
<1> DEFINE begun == [emptyState(channel) EXCEPT !.status = "checking"]
<1>1. channel \in Channels /\ current \in Version BY DEF ReleasesInv, ReleasesTyped
<1>2. /\ emptyState(channel) \in StoredType /\ ~ emptyState(channel).ready
      /\ emptyState(channel).release = NoVersion
      BY <1>1, EmptyIsSound DEF emptyState
<1>3. begun \in StoredType /\ ~ begun.ready /\ begun.release = NoVersion
      BY <1>2 DEF StoredType
<1>4. stored' = begun /\ checking' = channel BY DEF CheckStarts
<1> HIDE DEF begun
<1> QED BY <1>1, <1>3, <1>4 DEF Sound

LEMMA ChecksStep ==
    ASSUME ReleasesInv, Check \/ Refresh PROVE ReleasesInv'
<1>1. /\ CheckStarts
      /\ UNCHANGED <<current, trial, channel, preparing, archives, signatures>>
      BY DEF Check, Refresh
<1>2. preparing' \in PreparingRow /\ channel' \in Channels
      /\ (preparing'.at \in {"cached", "archive", "signature"} =>
             Sound(preparing'.read) /\ preparing'.read.release # NoVersion)
      BY <1>1 DEF ReleasesInv, ReleasesTyped, HeldIsSound, Held
<1> QED BY <1>1, <1>2, CheckStartsStep, StoresUnready

(* What discover() finds is newer than what runs and of its channel.       *)
LEMMA FoundIsSound ==
    ASSUME ReleasesInv, checking \in Channels, NEW published \in SUBSET Version
    PROVE  /\ Found(published) \in StoredType /\ Sound(Found(published))
           /\ ~ Found(published).ready
<1> DEFINE eligible == Offered(published, checking)
           empty == emptyState(checking)
<1>1. current \in Version BY DEF ReleasesInv, ReleasesTyped
<1>2. /\ empty \in StoredType /\ ~ empty.ready /\ empty.channel = checking
      /\ empty.current = current /\ empty.release = NoVersion
      BY <1>1, EmptyIsSound DEF emptyState
<1>3. eligible \subseteq Version BY DEF Offered
<1>4. CASE eligible = {}
  <2> DEFINE none == [empty EXCEPT !.status = "current"]
  <2>1. none \in StoredType /\ ~ none.ready /\ none.release = NoVersion
        BY <1>2 DEF StoredType
  <2>2. Found(published) = none BY <1>4 DEF Found
  <2> HIDE DEF none
  <2> QED BY <2>1, <2>2 DEF Sound
<1>5. CASE eligible # {}
  <2>1. Newest(eligible) \in eligible
    <3>1. \E v \in eligible : \A w \in eligible : compareVersions(v, w) >= 0
      <4> HIDE DEF eligible
      <4> QED BY <1>3, <1>5, NewestExists
    <3> QED BY <3>1 DEF Newest
  <2> DEFINE v == Newest(eligible)
             some == [empty EXCEPT !.status = "available", !.release = v]
  <2>2. Found(published) = some BY <1>5 DEF Found
  <2>3. /\ v \in Version /\ compareVersions(v, current) > 0
        /\ checking = "stable" => ~ isPrerelease(v)
        BY <1>3, <2>1 DEF Offered
  <2> HIDE DEF v, empty
  <2>4. /\ some \in StoredType /\ ~ some.ready /\ some.release = v
        /\ some.channel = checking /\ some.current = current
        BY <1>2, <2>3 DEF StoredType
  <2>5. Newer(v, current) BY <1>1, <2>3, VersionsTyped, CompareDecides
  <2> HIDE DEF some
  <2> QED BY <2>2, <2>3, <2>4, <2>5 DEF Sound
<1> QED BY <1>4, <1>5

LEMMA CheckEndsStep ==
    ASSUME ReleasesInv, CheckEnds PROVE ReleasesInv'
<1>1. /\ checking \in Channels /\ checking' = "none"
      /\ UNCHANGED <<current, trial, channel, preparing, archives, signatures>>
      BY DEF CheckEnds, ReleasesInv, ReleasesTyped
<1>2. stored' \in StoredType /\ Sound(stored') /\ ~ stored'.ready
  <2>1. CASE \E published \in SUBSET Version : stored' = Found(published)
        BY <1>1, <2>1, FoundIsSound
  <2>2. CASE stored' = [emptyState(checking) EXCEPT !.status = "failed"]
    <3>1. current \in Version BY DEF ReleasesInv, ReleasesTyped
    <3>2. /\ emptyState(checking) \in StoredType /\ ~ emptyState(checking).ready
          /\ emptyState(checking).release = NoVersion
          BY <1>1, <3>1, EmptyIsSound DEF emptyState
    <3>3. stored' \in StoredType /\ ~ stored'.ready /\ stored'.release = NoVersion
          BY <2>2, <3>2 DEF StoredType
    <3> QED BY <3>3 DEF Sound
  <2> QED BY <2>1, <2>2 DEF CheckEnds
<1>3. preparing' \in PreparingRow /\ channel' \in Channels
      /\ (preparing'.at \in {"cached", "archive", "signature"} =>
             Sound(preparing'.read) /\ preparing'.read.release # NoVersion)
      BY <1>1 DEF ReleasesInv, ReleasesTyped, HeldIsSound, Held
<1> QED BY <1>1, <1>2, <1>3, StoresUnready

(* prepare() reads the state it will write back, if it offers something.   *)
LEMMA BeginsStep ==
    ASSUME ReleasesInv, Begins, checking' = checking,
           UNCHANGED <<current, trial, channel, archives, signatures>>
    PROVE  ReleasesInv'
<1>1. /\ stored \in StoredType /\ Sound(stored) /\ channel \in Channels
      /\ checking \in Channels \cup {"none"}
      BY DEF ReleasesInv, ReleasesTyped
<1>2. CASE stored.release # NoVersion /\ compareVersions(stored.release, current) > 0
  <2> DEFINE p == [at |-> "cached", read |-> stored, edition |-> 0]
             s == [stored EXCEPT !.status = "preparing", !.ready = FALSE]
  <2>1. 0 \in 0..MaxEdition BY ReleasesAssumption
  <2>2. p \in PreparingRow /\ p.read = stored BY <1>1, <2>1 DEF PreparingRow
  <2>3. /\ s \in StoredType /\ ~ s.ready /\ s.release = stored.release
        /\ s.current = stored.current /\ s.channel = stored.channel
        BY <1>1 DEF StoredType
  <2>4. preparing' = p /\ stored' = s BY <1>2 DEF Begins
  <2> HIDE DEF p, s
  <2>5. stored' \in StoredType /\ ~ stored'.ready /\ Sound(stored')
        BY <1>1, <2>3, <2>4 DEF Sound
  <2> QED BY <1>1, <1>2, <2>2, <2>4, <2>5, StoresUnready
<1>3. CASE ~ (stored.release # NoVersion /\ compareVersions(stored.release, current) > 0)
  <2>1. preparing' = NoPreparation /\ stored' = stored BY <1>3 DEF Begins
  <2>2. ReleasesTyped' BY <2>1, NoPreparationTyped DEF ReleasesInv, ReleasesTyped
  <2>3. HeldIsSound' BY <2>1, NoPreparationTyped DEF HeldIsSound, Held
  <2>4. ReadyHasFiles' /\ TrialIsNewer' /\ Sound(stored)'
        BY <2>1 DEF ReleasesInv, ReadyHasFiles, TrialIsNewer, Sound
  <2> QED BY <2>2, <2>3, <2>4 DEF ReleasesInv
<1> QED BY <1>2, <1>3

LEMMA PrepareStep ==
    ASSUME ReleasesInv, Prepare \/ PrepareGoesOn PROVE ReleasesInv'
<1>1. /\ UNCHANGED <<current, trial, channel, archives, signatures>>
      /\ preparing \in PreparingRow /\ channel \in Channels
      BY DEF Prepare, PrepareGoesOn, ReleasesInv, ReleasesTyped
<1>2. CASE Begins /\ checking' = checking BY <1>1, <1>2, BeginsStep
<1>3. CASE CheckStarts /\ preparing' = [preparing EXCEPT !.at = "checks"]
  <2>1. preparing' \in PreparingRow /\ preparing'.at = "checks"
        BY <1>1, <1>3 DEF PreparingRow
  <2> QED BY <1>1, <1>3, <2>1, CheckStartsStep, StoresUnready
<1>4. CASE preparing' = [NoPreparation EXCEPT !.at = "waits"]
           /\ UNCHANGED <<stored, checking>>
  <2>1. preparing' \in PreparingRow /\ preparing'.at = "waits"
        BY <1>4, NoPreparationTyped DEF PreparingRow
  <2>2. ReleasesTyped' BY <1>1, <1>4, <2>1 DEF ReleasesInv, ReleasesTyped
  <2>3. HeldIsSound' BY <2>1 DEF HeldIsSound, Held
  <2>4. ReadyHasFiles' /\ TrialIsNewer' /\ Sound(stored)'
        BY <1>1, <1>4 DEF ReleasesInv, ReadyHasFiles, TrialIsNewer, Sound
  <2> QED BY <2>2, <2>3, <2>4 DEF ReleasesInv
<1>5. CASE CheckStarts /\ preparing' = [NoPreparation EXCEPT !.at = "checks"]
  <2>1. preparing' \in PreparingRow /\ preparing'.at = "checks"
        BY <1>5, NoPreparationTyped DEF PreparingRow
  <2> QED BY <1>1, <1>5, <2>1, CheckStartsStep, StoresUnready
<1> QED BY <1>2, <1>3, <1>4, <1>5 DEF Prepare, PrepareGoesOn

(* A preparation ends with nothing ready.                                  *)
LEMMA PrepareFailsStep ==
    ASSUME ReleasesInv, PrepareFails PROVE ReleasesInv'
<1>1. /\ preparing \in PreparingRow /\ Held /\ Sound(preparing.read)
      /\ preparing.read \in StoredType
      BY DEF PrepareFails, Held, ReleasesInv, ReleasesTyped, HeldIsSound, PreparingRow
<1> DEFINE s == [preparing.read EXCEPT !.status = "failed", !.ready = FALSE]
<1>2. /\ s \in StoredType /\ ~ s.ready /\ s.release = preparing.read.release
      /\ s.current = preparing.read.current /\ s.channel = preparing.read.channel
      BY <1>1 DEF StoredType
<1>3. /\ stored' = s /\ preparing' = NoPreparation
      /\ UNCHANGED <<current, trial, channel, checking, archives, signatures>>
      BY DEF PrepareFails, PrepareEnds, FailedPrepare
<1> HIDE DEF s
<1>4. stored' \in StoredType /\ ~ stored'.ready /\ Sound(stored')
      BY <1>1, <1>2, <1>3 DEF Sound
<1>5. channel \in Channels /\ checking \in Channels \cup {"none"}
      BY DEF ReleasesInv, ReleasesTyped
<1> QED BY <1>3, <1>4, <1>5, NoPreparationTyped, StoresUnready

(* A preparation ends well, with the files of its release in place.        *)
LEMMA PrepareSucceeds ==
    ASSUME ReleasesInv, Held, PrepareEnds(Ready(preparing)),
           archives' \in [Version -> 0..MaxEdition],
           signatures' \in [Version -> 0..MaxEdition],
           archives'[preparing.read.release] # 0,
           signatures'[preparing.read.release] = archives'[preparing.read.release],
           UNCHANGED <<current, trial, channel, checking>>
    PROVE  ReleasesInv'
<1>1. /\ preparing \in PreparingRow /\ Sound(preparing.read)
      /\ preparing.read \in StoredType /\ preparing.read.release # NoVersion
      BY DEF ReleasesInv, ReleasesTyped, HeldIsSound, PreparingRow
<1> DEFINE s == [preparing.read EXCEPT !.status = "ready", !.ready = TRUE]
<1>2. /\ s \in StoredType /\ s.release = preparing.read.release
      /\ s.current = preparing.read.current /\ s.channel = preparing.read.channel
      BY <1>1 DEF StoredType
<1>3. stored' = s /\ preparing' = NoPreparation BY DEF PrepareEnds, Ready
<1> HIDE DEF s
<1>4. Sound(stored') BY <1>1, <1>2, <1>3 DEF Sound
<1>5. ReleasesTyped' BY <1>2, <1>3, NoPreparationTyped DEF ReleasesInv, ReleasesTyped
<1>6. HeldIsSound' BY <1>3, NoPreparationTyped DEF HeldIsSound, Held
<1>7. ReadyHasFiles' BY <1>1, <1>2, <1>3 DEF ReadyHasFiles
<1>8. TrialIsNewer' BY DEF ReleasesInv, TrialIsNewer
<1>9. Sound(stored)' BY <1>4 DEF Sound
<1> QED BY <1>5, <1>6, <1>7, <1>8, <1>9 DEF ReleasesInv

(* A step of a preparation that keeps what it has read.                    *)
LEMMA StaysHeld ==
    ASSUME ReleasesInv, Held, preparing' \in PreparingRow,
           preparing'.read = preparing.read,
           UNCHANGED <<current, trial, channel, stored, checking, archives, signatures>>
    PROVE  ReleasesInv'
<1>1. ReleasesTyped' BY DEF ReleasesInv, ReleasesTyped
<1>2. HeldIsSound' BY DEF ReleasesInv, HeldIsSound, Held, Sound
<1>3. ReadyHasFiles' /\ TrialIsNewer' /\ Sound(stored)'
      BY DEF ReleasesInv, ReadyHasFiles, TrialIsNewer, Sound
<1> QED BY <1>1, <1>2, <1>3 DEF ReleasesInv

LEMMA CacheReadStep ==
    ASSUME ReleasesInv, CacheRead PROVE ReleasesInv'
<1> DEFINE v == preparing.read.release
<1>1. /\ Held /\ preparing \in PreparingRow
      /\ UNCHANGED <<current, trial, channel, checking, archives, signatures>>
      BY DEF CacheRead, Held, ReleasesInv, ReleasesTyped
<1>2. /\ archives \in [Version -> 0..MaxEdition]
      /\ signatures \in [Version -> 0..MaxEdition]
      BY DEF ReleasesInv, ReleasesTyped
<1>3. CASE Verified(archives[v], signatures[v]) /\ PrepareEnds(Ready(preparing))
  <2>1. archives[v] # 0 /\ signatures[v] = archives[v] BY <1>3 DEF Verified
  <2> QED BY <1>1, <1>2, <1>3, <2>1, PrepareSucceeds
<1>4. CASE preparing' = [preparing EXCEPT !.at = "archive"] /\ UNCHANGED stored
  <2>1. preparing' \in PreparingRow /\ preparing'.read = preparing.read
        BY <1>1, <1>4 DEF PreparingRow
  <2> QED BY <1>1, <1>4, <2>1, StaysHeld
<1> QED BY <1>3, <1>4 DEF CacheRead

LEMMA ArchiveFetchedStep ==
    ASSUME ReleasesInv, ArchiveFetched PROVE ReleasesInv'
<1>1. /\ Held /\ preparing \in PreparingRow
      /\ UNCHANGED <<current, trial, channel, stored, checking, archives, signatures>>
      BY DEF ArchiveFetched, Held, ReleasesInv, ReleasesTyped
<1>2. PICK e \in Edition :
           preparing' = [preparing EXCEPT !.at = "signature", !.edition = e]
      BY DEF ArchiveFetched
<1>3. e \in 0..MaxEdition BY ReleasesAssumption DEF Edition
<1>4. preparing' \in PreparingRow /\ preparing'.read = preparing.read
      BY <1>1, <1>2, <1>3 DEF PreparingRow
<1> QED BY <1>1, <1>4, StaysHeld

LEMMA SignatureFetchedStep ==
    ASSUME ReleasesInv, SignatureFetched PROVE ReleasesInv'
<1> DEFINE v == preparing.read.release
<1>1. /\ Held /\ PrepareEnds(Ready(preparing))
      /\ UNCHANGED <<current, trial, channel, checking>>
      BY DEF SignatureFetched, Held
<1>2. PICK s \in Edition : /\ Verified(preparing.edition, s)
                           /\ archives' = [archives EXCEPT ![v] = preparing.edition]
                           /\ signatures' = [signatures EXCEPT ![v] = s]
      BY DEF SignatureFetched
<1>3. /\ preparing.edition \in 0..MaxEdition /\ s \in 0..MaxEdition /\ v \in Version
      /\ archives \in [Version -> 0..MaxEdition]
      /\ signatures \in [Version -> 0..MaxEdition]
  <2>1. preparing.read \in StoredType /\ v # NoVersion
        BY <1>1 DEF ReleasesInv, ReleasesTyped, HeldIsSound, PreparingRow
  <2>2. s \in 0..MaxEdition BY ReleasesAssumption DEF Edition
  <2>3. preparing.edition \in 0..MaxEdition
        BY DEF ReleasesInv, ReleasesTyped, PreparingRow
  <2> QED BY <2>1, <2>2, <2>3 DEF ReleasesInv, ReleasesTyped, StoredType
<1>4. preparing.edition # 0 /\ s = preparing.edition BY <1>2 DEF Verified
<1>5. /\ archives' \in [Version -> 0..MaxEdition]
      /\ signatures' \in [Version -> 0..MaxEdition]
      /\ archives'[v] # 0 /\ signatures'[v] = archives'[v]
      BY <1>2, <1>3, <1>4
<1> QED BY <1>1, <1>5, PrepareSucceeds

LEMMA SetChannelStep ==
    ASSUME ReleasesInv, SetChannel PROVE ReleasesInv'
<1>1. PICK ch \in Channels : channel' = ch /\ stored' = emptyState(ch)
      BY DEF SetChannel
<1>2. UNCHANGED <<current, trial, checking, preparing, archives, signatures>>
      BY DEF SetChannel
<1>3. current \in Version /\ checking \in Channels \cup {"none"}
      BY DEF ReleasesInv, ReleasesTyped
<1>4. stored' \in StoredType /\ ~ stored'.ready /\ Sound(stored')
      BY <1>1, <1>3, EmptyIsSound DEF emptyState
<1>5. preparing' \in PreparingRow
      /\ (preparing'.at \in {"cached", "archive", "signature"} =>
             Sound(preparing'.read) /\ preparing'.read.release # NoVersion)
      BY <1>2 DEF ReleasesInv, ReleasesTyped, HeldIsSound, Held
<1> QED BY <1>1, <1>2, <1>3, <1>4, <1>5, StoresUnready

LEMMA ProcessDiesStep ==
    ASSUME ReleasesInv, ReleasesInterrupted PROVE ReleasesInv'
<1> DEFINE v == preparing.read.release
<1>1. /\ checking' = "none" /\ preparing' = NoPreparation
      /\ UNCHANGED <<current, trial, channel, stored, archives>>
      BY DEF ReleasesInterrupted, Restarted
<1>2. \/ signatures' = signatures
      \/ /\ Held /\ signatures' = [signatures EXCEPT ![v] = preparing.edition]
      BY DEF ReleasesInterrupted, Held
<1>3. signatures' \in [Version -> 0..MaxEdition]
  <2>1. preparing.edition \in 0..MaxEdition
        /\ signatures \in [Version -> 0..MaxEdition]
        BY DEF ReleasesInv, ReleasesTyped, PreparingRow
  <2> QED BY <1>2, <2>1
<1>4. ReleasesTyped'
      BY <1>1, <1>3, NoPreparationTyped DEF ReleasesInv, ReleasesTyped
<1>5. HeldIsSound' BY <1>1, NoPreparationTyped DEF HeldIsSound, Held
<1>6. ReadyHasFiles' BY <1>1, <1>2 DEF ReleasesInv, ReadyHasFiles, HeldIsSound
<1>7. TrialIsNewer' /\ Sound(stored)' BY <1>1 DEF ReleasesInv, TrialIsNewer, Sound
<1> QED BY <1>4, <1>5, <1>6, <1>7 DEF ReleasesInv

LEMMA UpdateTriedStep ==
    ASSUME ReleasesInv, UpdateTried PROVE ReleasesInv'
<1>1. /\ stored.current = current /\ stored.ready
      /\ trial' = current /\ current' = stored.release
      /\ checking' = "none" /\ preparing' = NoPreparation
      /\ UNCHANGED <<channel, stored, archives, signatures>>
      BY DEF UpdateTried, Restarted, OfThisVersion
<1>2. /\ stored.release # NoVersion /\ stored \in StoredType
      /\ archives[stored.release] # 0
      /\ signatures[stored.release] = archives[stored.release]
      /\ Newer(stored.release, current)
      BY <1>1 DEF ReleasesInv, ReleasesTyped, ReadyHasFiles, Sound
<1>3. stored.release \in Version BY <1>2 DEF StoredType
<1>4. ReleasesTyped'
      BY <1>1, <1>3, NoPreparationTyped DEF ReleasesInv, ReleasesTyped
<1>5. HeldIsSound' BY <1>1, NoPreparationTyped DEF HeldIsSound, Held
<1>6. ReadyHasFiles' BY <1>1, <1>2 DEF ReadyHasFiles
<1>7. TrialIsNewer' BY <1>1, <1>2 DEF TrialIsNewer
<1>8. Sound(stored)' BY <1>1 DEF ReleasesInv, Sound
<1> QED BY <1>4, <1>5, <1>6, <1>7, <1>8 DEF ReleasesInv

LEMMA UpdateRolledBackStep ==
    ASSUME ReleasesInv, UpdateRolledBack PROVE ReleasesInv'
<1>1. /\ trial # NoVersion /\ current' = trial /\ trial' = NoVersion
      /\ checking' = "none" /\ preparing' = NoPreparation
      /\ UNCHANGED <<channel, stored, archives, signatures>>
      BY DEF UpdateRolledBack, Restarted
<1>2. ReleasesTyped' BY <1>1, NoPreparationTyped DEF ReleasesInv, ReleasesTyped
<1>3. stored.current # NoVersion
      BY VersionsTyped DEF ReleasesInv, ReleasesTyped, StoredType
<1>4. ReadyHasFiles' BY <1>1, <1>3 DEF ReleasesInv, ReadyHasFiles
<1>5. HeldIsSound' /\ TrialIsNewer'
      BY <1>1, NoPreparationTyped DEF HeldIsSound, Held, TrialIsNewer
<1>6. Sound(stored)' BY <1>1 DEF ReleasesInv, Sound
<1> QED BY <1>2, <1>4, <1>5, <1>6 DEF ReleasesInv

(* The files of the version that runs are removed; what is ready is newer. *)
LEMMA UpdateKeptStep ==
    ASSUME ReleasesInv, UpdateKept PROVE ReleasesInv'
<1>1. /\ trial' = NoVersion
      /\ archives' = [archives EXCEPT ![current] = 0]
      /\ signatures' = [signatures EXCEPT ![current] = 0]
      /\ UNCHANGED <<current, channel, stored, checking, preparing>>
      BY DEF UpdateKept
<1>2. /\ current \in Version /\ 0 \in 0..MaxEdition /\ stored \in StoredType
      /\ archives \in [Version -> 0..MaxEdition]
      /\ signatures \in [Version -> 0..MaxEdition]
      BY ReleasesAssumption DEF ReleasesInv, ReleasesTyped
<1>3. ReleasesTyped' BY <1>1, <1>2 DEF ReleasesInv, ReleasesTyped
<1>4. ReadyHasFiles'
  <2>1. stored.ready => stored.release # NoVersion
        BY DEF ReleasesInv, ReadyHasFiles
  <2>2. ASSUME stored.ready, stored.current \in {current, NoVersion}
        PROVE  /\ archives'[stored.release] # 0
               /\ signatures'[stored.release] = archives'[stored.release]
    <3>1. stored.current = current /\ stored.release \in Version
          BY <1>2, <2>1, <2>2, VersionsTyped DEF StoredType
    <3>2. Newer(stored.release, current) BY <2>1, <2>2, <3>1 DEF ReleasesInv, Sound
    <3>3. stored.release # current
          BY <1>2, <3>2, VersionsTyped, NeverNewerThanItself
    <3>4. /\ archives[stored.release] # 0
          /\ signatures[stored.release] = archives[stored.release]
          BY <2>2, <3>1 DEF ReleasesInv, ReadyHasFiles
    <3> QED BY <1>1, <1>2, <3>1, <3>3, <3>4
  <2> QED BY <1>1, <2>1, <2>2 DEF ReadyHasFiles
<1>5. HeldIsSound' /\ TrialIsNewer' /\ Sound(stored)'
      BY <1>1 DEF ReleasesInv, HeldIsSound, Held, TrialIsNewer, Sound
<1> QED BY <1>3, <1>4, <1>5 DEF ReleasesInv

LEMMA ReleasesStarts == ReleasesInit => ReleasesInv
<1> SUFFICES ASSUME ReleasesInit PROVE ReleasesInv OBVIOUS
<1>1. /\ current \in Version /\ channel \in Channels
      /\ 0 \in 0..MaxEdition
      BY OldestExists, ReleasesAssumption DEF ReleasesInit, Channels
<1>2. stored \in StoredType /\ ~ stored.ready /\ Sound(stored)
      BY <1>1, EmptyIsSound DEF ReleasesInit, emptyState
<1>3. ReleasesTyped BY <1>1, <1>2, NoPreparationTyped DEF ReleasesInit, ReleasesTyped
<1>4. HeldIsSound BY NoPreparationTyped DEF ReleasesInit, HeldIsSound, Held
<1>5. ReadyHasFiles /\ TrialIsNewer
      BY <1>2 DEF ReleasesInit, ReadyHasFiles, TrialIsNewer
<1> QED BY <1>2, <1>3, <1>4, <1>5 DEF ReleasesInv

LEMMA ReleasesInvKept == ReleasesInv /\ [ReleasesNext]_releasesVars => ReleasesInv'
<1> SUFFICES ASSUME ReleasesInv, [ReleasesNext]_releasesVars PROVE ReleasesInv'
    OBVIOUS
<1>1. CASE UNCHANGED releasesVars
      BY <1>1 DEF releasesVars, ReleasesInv, ReleasesTyped, HeldIsSound, Held,
                  ReadyHasFiles, TrialIsNewer, Sound
<1>2. CASE ReleasesNext
      BY <1>2, ChecksStep, CheckEndsStep, PrepareStep, CacheReadStep,
         ArchiveFetchedStep, SignatureFetchedStep, PrepareFailsStep, SetChannelStep,
         ProcessDiesStep, UpdateTriedStep, UpdateKeptStep, UpdateRolledBackStep
      DEF ReleasesNext
<1> QED BY <1>1, <1>2

(* Whatever was checked, reset, published anew, tried, taken back or cut   *)
(* by a restart: what is shown as ready has its files, and what is shown   *)
(* as available is newer than what runs and of the chosen channel; for any *)
(* finite set of versions with identifiers of any number and value.        *)
THEOREM OfferSound == ReleasesSpec => []OfferIsSound
<1>1. ReleasesSpec => []ReleasesInv
      BY ReleasesStarts, ReleasesInvKept, PTL DEF ReleasesSpec
<1>2. ReleasesInv => OfferIsSound
  <2> SUFFICES ASSUME ReleasesInv, OfThisVersion PROVE OfferIsSound
      BY DEF OfferIsSound
  <2>1. stored.channel = channel /\ stored.current = current BY DEF OfThisVersion
  <2> QED BY <2>1 DEF ReleasesInv, ReadyHasFiles, Sound, OfferIsSound
<1> QED BY <1>1, <1>2, PTL
=============================================================================
