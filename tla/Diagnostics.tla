------------------------------ MODULE Diagnostics ------------------------------
(***************************************************************************)
(* Diagnostics: the operations DiagnosticService starts through            *)
(* OperationService.runDiagnostic(), the task each of them runs in the     *)
(* control plane, and the runners (outpostctl diagnose) that measure on a  *)
(* client's device and report.                                             *)
(*                                                                         *)
(* A task awaits probes, reports and samples of the server's resources; a  *)
(* timer takes samples beside it and publishes the state when they are     *)
(* there.  Requests of runners are lost, or their answers are.             *)
(***************************************************************************)
EXTENDS Naturals, FiniteSets

CONSTANTS MaxDiagnostics,   \* bound: operations 1 .. MaxDiagnostics
          MaxRunners,       \* bound: processes of outpostctl
          Method            \* what a client diagnostic has to measure

ASSUME DiagnosticsAssumption == {MaxDiagnostics, MaxRunners} \subseteq Nat /\ Method # {}

VARIABLES
    status,    \* operations.status of each diagnostic
    evidence,  \* the methods a client's report in result_json covers
    vantage,   \* where it measures: "server" or "client"
    task,      \* its task: where it awaits, its timer, its sample, its signal
    clients,   \* DiagnosticService.clients: claim, token and report
    runner     \* what each runner works on and has measured

diagnosticVars == <<status, evidence, vantage, task, clients, runner>>

Diagnostic == 1..MaxDiagnostics
Runner     == 1..MaxRunners
NoTask     == [at |-> "none", timer |-> FALSE, sampling |-> "none", aborted |-> FALSE]
NoClient   == [there |-> FALSE, claimed |-> FALSE, token |-> 0,
               report |-> {}, complete |-> FALSE]
Idle       == [of |-> 0, at |-> "idle", done |-> {}]

DiagnosticsTypeOK ==
    /\ status \in [Diagnostic -> {"none", "running", "completed", "failed", "cancelled"}]
    /\ evidence \in [Diagnostic -> SUBSET Method]
    /\ vantage \in [Diagnostic -> {"server", "client"}]
    /\ task \in [Diagnostic ->
          [at : {"none", "first", "probing", "stage", "waiting", "last"},
           timer : BOOLEAN, sampling : {"none", "task", "timer"}, aborted : BOOLEAN]]
    /\ clients \in [Diagnostic ->
          [there : BOOLEAN, claimed : BOOLEAN, token : 0..MaxRunners,
           report : SUBSET Method, complete : BOOLEAN]]
    /\ runner \in [Runner -> [of : 0..MaxDiagnostics,
                              at : {"idle", "working", "stopping"},
                              done : SUBSET Method]]

-----------------------------------------------------------------------------
(* What a task writes: nothing once its signal is aborted. *)

Running(d) == status[d] = "running"

(* Mutant of Written: the signal is not looked at.                          *)
WrittenAlways(d, s) == status' = [status EXCEPT ![d] = s]

Written(d, s) ==
    status' = [status EXCEPT ![d] = IF task[d].aborted THEN @ ELSE s]

(* report(state()): the row is running again and holds the stages the job   *)
(* knows; once the job is gone, those the task had taken over.              *)
Collected(d) ==
    IF clients[d].there THEN clients[d].report
    ELSE IF status[d] = "completed" THEN evidence[d] ELSE {}

Reported(d) ==
    /\ Written(d, "running")
    /\ evidence' = [evidence EXCEPT ![d] = IF task[d].aborted THEN @ ELSE Collected(d)]

(* The end of execute() and of the task; a sample of the timer may still be *)
(* on its way.                                                              *)
Finished(d, s, stages) ==
    /\ Written(d, s)
    /\ evidence' = [evidence EXCEPT ![d] =
          IF s = "completed" /\ ~task[d].aborted THEN stages ELSE @]
    /\ task' = [task EXCEPT ![d].at = "none", ![d].timer = FALSE,
                            ![d].sampling = IF @ = "timer" THEN @ ELSE "none"]
    /\ clients' = [clients EXCEPT ![d] = NoClient]

(* The report is complete: a last sample, unless the timer is taking one.   *)
LastSample(d) ==
    task' = [task EXCEPT ![d].at = "last", ![d].timer = TRUE, ![d].sampling = "task"]

-----------------------------------------------------------------------------
(* run(): one operation at a time.  The task starts in the same turn and    *)
(* awaits its first sample.                                                 *)
RunDiagnostic ==
    \E d \in Diagnostic, v \in {"server", "client"} :
        /\ status[d] = "none" /\ \A e \in 1..(d - 1) : status[e] # "none"
        /\ \A e \in Diagnostic : ~Running(e)
        /\ status' = [status EXCEPT ![d] = "running"]
        /\ vantage' = [vantage EXCEPT ![d] = v]
        /\ task' = [task EXCEPT ![d] = [NoTask EXCEPT !.at = "first", !.sampling = "task"]]
        /\ clients' = [clients EXCEPT ![d].there = (v = "client")]
        /\ UNCHANGED <<evidence, runner>>

(* The first sample is there: the timer starts, and the probes or the wait  *)
(* for the runner, whose report may have come already.                      *)
FirstSampled ==
    \E d \in Diagnostic :
        /\ task[d].at = "first"
        /\ \/ /\ task[d].aborted
              /\ Finished(d, "failed", {})
           \/ /\ ~task[d].aborted /\ ~clients[d].complete
              /\ task' = [task EXCEPT ![d].timer = TRUE, ![d].sampling = "none",
                    ![d].at = IF vantage[d] = "server" THEN "probing" ELSE "waiting"]
              /\ UNCHANGED <<status, evidence, clients>>
           \/ /\ ~task[d].aborted /\ clients[d].complete
              /\ LastSample(d)
              /\ UNCHANGED <<status, evidence, clients>>
        /\ UNCHANGED <<vantage, runner>>

(* setInterval(): with a sample on its way the state is published at once.  *)
TimerFires ==
    \E d \in Diagnostic :
        /\ task[d].timer
        /\ vantage[d] = "client" => clients[d].claimed
        /\ \/ /\ task[d].sampling = "none"
              /\ task' = [task EXCEPT ![d].sampling = "timer"]
              /\ UNCHANGED <<status, evidence>>
           \/ /\ task[d].sampling # "none"
              /\ Reported(d) /\ UNCHANGED task
        /\ UNCHANGED <<vantage, clients, runner>>

TimerSampled ==
    \E d \in Diagnostic :
        /\ task[d].sampling = "timer"
        /\ task' = [task EXCEPT ![d].sampling = "none"]
        /\ Reported(d)
        /\ UNCHANGED <<vantage, clients, runner>>

(* A probe of the server has ended: sample, then report.                    *)
StageEnds ==
    \E d \in Diagnostic :
        /\ task[d].at = "probing"
        /\ \/ /\ task[d].sampling = "none"
              /\ task' = [task EXCEPT ![d].at = "stage", ![d].sampling = "task"]
              /\ UNCHANGED <<status, evidence>>
           \/ /\ task[d].sampling # "none"
              /\ Reported(d) /\ UNCHANGED task
        /\ UNCHANGED <<vantage, clients, runner>>

StageSampled ==
    \E d \in Diagnostic :
        /\ task[d].at = "stage"
        /\ task' = [task EXCEPT ![d].at = "probing", ![d].sampling = "none"]
        /\ Reported(d)
        /\ UNCHANGED <<vantage, clients, runner>>

(* The probes are through, or their signal has ended them: cancelled, or    *)
(* after four minutes.                                                      *)
ProbesEnd ==
    \E d \in Diagnostic, s \in {"completed", "failed"} :
        /\ task[d].at = "probing"
        /\ Finished(d, s, {})
        /\ UNCHANGED <<vantage, runner>>

(* AbortSignal.timeout() while the runner is awaited.                       *)
WaitExpires ==
    \E d \in Diagnostic :
        /\ task[d].at = "waiting"
        /\ Finished(d, "failed", {})
        /\ UNCHANGED <<vantage, runner>>

LastSampled ==
    \E d \in Diagnostic :
        /\ task[d].at = "last"
        /\ Finished(d, "completed", clients[d].report)
        /\ UNCHANGED <<vantage, runner>>

-----------------------------------------------------------------------------
(* The runner *)

(* claim(): once, while the operation runs.                                 *)
ClaimDiagnostic ==
    \E r \in Runner, d \in Diagnostic :
        /\ runner[r] = Idle
        /\ clients[d].there /\ ~clients[d].claimed /\ Running(d)
        /\ clients' = [clients EXCEPT ![d].claimed = TRUE, ![d].token = r]
        /\ runner' = [runner EXCEPT ![r] = [of |-> d, at |-> "working", done |-> {}]]
        /\ UNCHANGED <<status, evidence, vantage, task>>

Ends(complete) == complete

(* report(): the waiting task goes on with a complete report, and publishes *)
(* an incomplete one.  A cancelled operation has no job any more.           *)
Accepts(d, r) == clients[d].there /\ clients[d].token = r /\ Running(d)

Accepted(d, stages, complete) ==
    IF Ends(complete) /\ task[d].at = "waiting" /\ task[d].sampling = "timer"
    THEN Finished(d, "completed", stages)
    ELSE /\ clients' = [clients EXCEPT ![d].report = stages, ![d].complete = Ends(complete),
                               ![d].token = IF Ends(complete) THEN 0 ELSE @]
         /\ Written(d, "running")
         /\ evidence' = [evidence EXCEPT ![d] = stages]
         /\ IF Ends(complete) /\ task[d].at = "waiting"
            THEN LastSample(d) ELSE UNCHANGED task

RunnerTo(r, at, done) == runner' = [runner EXCEPT ![r].at = at, ![r].done = done]

(* A method is measured and reported; the request or its answer may be lost, *)
(* or the report is refused.                                                *)
Progress ==
    \E r \in Runner : \E m \in Method \ runner[r].done :
        LET d == runner[r].of
            done == runner[r].done \cup {m}
        IN
        /\ runner[r].at = "working"
        /\ \/ Accepts(d, r) /\ Accepted(d, done, FALSE) /\ RunnerTo(r, "working", done)
           \/ /\ RunnerTo(r, "working", done)
              /\ UNCHANGED <<status, evidence, task, clients>>
           \/ /\ ~Accepts(d, r) /\ RunnerTo(r, "stopping", done)
              /\ UNCHANGED <<status, evidence, task, clients>>
        /\ UNCHANGED vantage

(* Every method is measured: the complete report.  Without an answer the    *)
(* runner gives up.                                                         *)
Completes ==
    \E r \in Runner :
        LET d == runner[r].of IN
        /\ runner[r].at = "working" /\ runner[r].done = Method
        /\ \/ /\ Accepts(d, r) /\ Accepted(d, Method, TRUE)
              /\ \/ runner' = [runner EXCEPT ![r] = Idle]
                 \/ RunnerTo(r, "stopping", Method)
           \/ /\ RunnerTo(r, "stopping", Method)
              /\ UNCHANGED <<status, evidence, task, clients>>
        /\ UNCHANGED vantage

(* Interrupted, out of time, or the operation no longer runs.               *)
RunnerStops ==
    \E r \in Runner :
        /\ runner[r].at = "working"
        /\ RunnerTo(r, "stopping", runner[r].done)
        /\ UNCHANGED <<status, evidence, vantage, task, clients>>

-----------------------------------------------------------------------------
(* cancel(): the row, then the signal of a task that is still registered; a *)
(* waiting task ends at once.  The job goes even when nothing was running.  *)
Cancelled(d) ==
    /\ clients' = [clients EXCEPT ![d] = NoClient]
    /\ IF Running(d)
       THEN /\ status' = [status EXCEPT ![d] = "cancelled"]
            /\ task' = [task EXCEPT ![d] =
                  IF @.at = "none" THEN @
                  ELSE IF @.at = "waiting"
                  THEN [@ EXCEPT !.aborted = TRUE, !.at = "none", !.timer = FALSE]
                  ELSE [@ EXCEPT !.aborted = TRUE]]
       ELSE UNCHANGED <<status, task>>
    /\ UNCHANGED <<evidence, vantage>>

OwnerCancels ==
    \E d \in Diagnostic : Running(d) /\ Cancelled(d) /\ UNCHANGED runner

(* What a runner that gave up does last; the request may be lost.           *)
RunnerCancels ==
    \E r \in Runner :
        /\ runner[r].at = "stopping"
        /\ runner' = [runner EXCEPT ![r] = Idle]
        /\ \/ Cancelled(runner[r].of)
           \/ UNCHANGED <<status, evidence, vantage, task, clients>>

(* The application restarts: unfinished diagnostics have failed.            *)
ApplicationRestarts ==
    /\ \E d \in Diagnostic : task[d] # NoTask
    /\ status' = [d \in Diagnostic |-> IF Running(d) THEN "failed" ELSE status[d]]
    /\ task' = [d \in Diagnostic |-> NoTask]
    /\ clients' = [d \in Diagnostic |-> NoClient]
    /\ UNCHANGED <<evidence, vantage, runner>>

-----------------------------------------------------------------------------
DiagnosticsInit ==
    /\ status = [d \in Diagnostic |-> "none"]
    /\ evidence = [d \in Diagnostic |-> {}]
    /\ vantage = [d \in Diagnostic |-> "server"]
    /\ task = [d \in Diagnostic |-> NoTask]
    /\ clients = [d \in Diagnostic |-> NoClient]
    /\ runner = [r \in Runner |-> Idle]

DiagnosticsNext ==
    \/ RunDiagnostic \/ FirstSampled \/ TimerFires \/ TimerSampled
    \/ StageEnds \/ StageSampled \/ ProbesEnd \/ WaitExpires \/ LastSampled
    \/ ClaimDiagnostic \/ Progress \/ Completes \/ RunnerStops
    \/ OwnerCancels \/ RunnerCancels \/ ApplicationRestarts

DiagnosticsSpec == DiagnosticsInit /\ [][DiagnosticsNext]_diagnosticVars

-----------------------------------------------------------------------------
(* Properties. *)

(* A cancelled diagnostic stays cancelled and keeps what it had collected,  *)
(* whatever samples, probes and reports are still on their way, and the     *)
(* diagnostic of a client is completed only with a report of every method,  *)
(* whichever reports and answers were lost and however often it was tried.  *)
ResultsAreFinal ==
    [][\A d \in Diagnostic :
          /\ status[d] = "cancelled" =>
                status'[d] = "cancelled" /\ evidence'[d] = evidence[d]
          /\ status'[d] = "completed" /\ vantage'[d] = "client" =>
                evidence'[d] = Method]_diagnosticVars
=============================================================================
