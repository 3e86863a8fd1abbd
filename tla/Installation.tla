----------------------------- MODULE Installation -----------------------------
(***************************************************************************)
(* The installation of SeaTunnel on one host, driven by the control plane: *)
(*   - StartInstallation, RetryStep, CancelInstallation and the goroutine  *)
(*     of each installation (internal/apps/installer/service.go),          *)
(*   - the package download it waits for (PackageDownload),                *)
(*   - the install command the agent carries out (its polled status is the *)
(*     asynchronous command of CommandDispatch),                           *)
(*   - the scale-out step that starts an installation and polls it         *)
(*     (internal/apps/cluster/scale_executor.go).                          *)
(* Every run has a status object of its own; the host's entry in the       *)
(* installations map is the one started last.  Steps that only change      *)
(* messages, progress and warnings are left out.                           *)
(***************************************************************************)
EXTENDS PackageDownload

CONSTANTS
    MaxRuns,  \* bound: installations started on the host
    Plans     \* what follows the installation: a subset of AllPlans

AllPlans == {"standalone",  \* no cluster: nothing
             "deferred",    \* DeferNodeStart: the node is registered only
             "start"}       \* the node is registered and started

ASSUME RunsAssumption  == MaxRuns \in Nat \ {0}
ASSUME PlansAssumption == Plans \subseteq AllPlans

Runs  == 1 .. MaxRuns
NoRun == 0

VARIABLES
    current,   \* installations[host]
    run,       \* InstallationStatus and its goroutine
    command,   \* GetCommandStatus of the run's install command
    install,   \* what InstallStepByStep has done on the host for the run
    node,      \* the run's node in the cluster
    scale,     \* the scale-out step
    cancelled  \* history variable: runs the operator has cancelled, and not retried since

installVars == <<current, run, command, install, node, scale, cancelled>>
vars == <<downloadVars, installVars>>

Statuses == {"none", "running", "success", "failed"}

TypeOK ==
    /\ DownloadTypeOK
    /\ current \in Runs \cup {NoRun}
    /\ run \in [Runs -> [status : Statuses, online : BOOLEAN, plan : AllPlans,
                         pc : {"none", "begin", "package", "wait", "transfer", "send", "poll",
                               "register", "start", "done"}]]
    /\ command \in [Runs -> {"none", "running", "success", "failed"}]
    /\ install \in [Runs -> {"none", "running", "done", "failed"}]
    /\ node \in [Runs -> {"none", "registered", "started"}]
    /\ scale \in [run : Runs \cup {NoRun}, outcome : {"none", "success", "failed"}]
    /\ cancelled \in SUBSET Runs

Init ==
    /\ DownloadInit
    /\ current = NoRun
    /\ run = [i \in Runs |-> [status |-> "none", online |-> TRUE, plan |-> "standalone",
                              pc |-> "none"]]
    /\ command = [i \in Runs |-> "none"]
    /\ install = [i \in Runs |-> "none"]
    /\ node = [i \in Runs |-> "none"]
    /\ scale = [run |-> NoRun, outcome |-> "none"]
    /\ cancelled = {}

Alive(i) == run[i].pc \notin {"none", "done"}

-----------------------------------------------------------------------------
(* Requests.                                                               *)

\* StartInstallation, refused while the host's entry says running.
Launch(online, plan) ==
    /\ current < MaxRuns
    /\ current # NoRun => run[current].status # "running"
    /\ current' = current + 1
    /\ run' = [run EXCEPT ![current + 1] = [status |-> "running", online |-> online,
                                            plan |-> plan, pc |-> "begin"]]

StartInstallation ==
    /\ \E online \in BOOLEAN, plan \in Plans : Launch(online, plan)
    /\ UNCHANGED <<downloadVars, command, install, node, scale, cancelled>>

\* The status is set back to running; nothing is started.
RetryStep ==
    /\ current # NoRun
    /\ run' = [run EXCEPT ![current].status = "running"]
    /\ cancelled' = cancelled \ {current}
    /\ UNCHANGED <<downloadVars, current, command, install, node, scale>>

\* Mutant: a status of its own, which nobody else knows.
CancelInstallation_NewStatus ==
    /\ current # NoRun
    /\ run' = [run EXCEPT ![current].status = "cancelled"]
    /\ cancelled' = cancelled \cup {current}
    /\ UNCHANGED <<downloadVars, current, command, install, node, scale>>

\* The status is set to failed; neither the goroutine nor the agent is told.
CancelInstallation ==
    /\ current # NoRun
    /\ run' = [run EXCEPT ![current].status = "failed"]
    /\ cancelled' = cancelled \cup {current}
    /\ UNCHANGED <<downloadVars, current, command, install, node, scale>>

-----------------------------------------------------------------------------
(* The goroutine of a run.                                                 *)

RunGoes(i, pc) == run' = [run EXCEPT ![i].pc = pc]
RunEnds(i, status) == run' = [run EXCEPT ![i].status = status, ![i].pc = "done"]

\* The agent must be connected; an offline package must be there.
FindAgent(i) ==
    /\ run[i].pc = "begin"
    /\ \/ RunGoes(i, IF run[i].online THEN "package" ELSE "transfer")
       \/ RunEnds(i, "failed")
    /\ UNCHANGED <<downloadVars, current, command, install, node, scale, cancelled>>

\* The package is there, or a download is started or joined, or cannot be started.
FindPackage(i) ==
    /\ run[i].pc = "package"
    /\ IF final # NoFile
       THEN RunGoes(i, "transfer") /\ UNCHANGED downloadVars
       ELSE \/ RunGoes(i, "wait") /\ StartDownload
            \/ /\ DownloadStatus \in {"pending", "downloading"}
               /\ RunGoes(i, "wait")
               /\ UNCHANGED downloadVars
            \/ RunEnds(i, "failed") /\ UNCHANGED downloadVars
    /\ UNCHANGED <<current, command, install, node, scale, cancelled>>

\* Mutant: the polling loop looks for completed only.
WaitForDownload_CompletedOnly(i) ==
    /\ run[i].pc = "wait"
    /\ DownloadStatus = "completed"
    /\ RunGoes(i, "transfer")
    /\ UNCHANGED <<downloadVars, current, command, install, node, scale, cancelled>>

\* The polling loop looks for completed and failed.
WaitForDownload(i) ==
    /\ run[i].pc = "wait"
    /\ \/ DownloadStatus = "completed" /\ RunGoes(i, "transfer")
       \/ DownloadStatus = "failed" /\ RunEnds(i, "failed")
    /\ UNCHANGED <<downloadVars, current, command, install, node, scale, cancelled>>

\* A failed transfer ends an offline installation; an online one goes on with
\* what the agent has.
TransferPackage(i) ==
    /\ run[i].pc = "transfer"
    /\ \/ RunGoes(i, "send")
       \/ ~run[i].online /\ RunEnds(i, "failed")
    /\ UNCHANGED <<downloadVars, current, command, install, node, scale, cancelled>>

SendInstallCommand(i) ==
    /\ run[i].pc = "send"
    /\ \/ /\ RunGoes(i, "poll")
          /\ command' = [command EXCEPT ![i] = "running"]
       \/ /\ RunEnds(i, "failed")
          /\ UNCHANGED command
    /\ UNCHANGED <<downloadVars, current, install, node, scale, cancelled>>

\* Mutant: success is published as soon as the command has succeeded.
PollStatus_Early(i) ==
    /\ run[i].pc = "poll"
    /\ \/ /\ command[i] = "success"
          /\ run' = [run EXCEPT ![i].status = "success",
                                ![i].pc = IF run[i].plan = "standalone" THEN "done" ELSE "register"]
       \/ /\ command[i] = "failed"
          /\ RunEnds(i, "failed")
    /\ UNCHANGED <<downloadVars, current, command, install, node, scale, cancelled>>

\* The polled status: the task stays running until node registration and startup
\* have finished.
PollStatus(i) ==
    /\ run[i].pc = "poll"
    /\ \/ /\ command[i] = "success"
          /\ IF run[i].plan = "standalone" THEN RunEnds(i, "success") ELSE RunGoes(i, "register")
       \/ /\ command[i] = "failed"
          /\ RunEnds(i, "failed")
    /\ UNCHANGED <<downloadVars, current, command, install, node, scale, cancelled>>

\* EnsureNodeForInstallation; markDeferredStartComplete or markPostInstallFailure.
RegisterNode(i) ==
    /\ run[i].pc = "register"
    /\ \/ /\ node' = [node EXCEPT ![i] = "registered"]
          /\ IF run[i].plan = "deferred" THEN RunEnds(i, "success") ELSE RunGoes(i, "start")
       \/ /\ RunEnds(i, "failed")
          /\ UNCHANGED node
    /\ UNCHANGED <<downloadVars, current, command, install, scale, cancelled>>

\* Mutant: a failure is published before the attempt to start the node.
StartNode_FailsFirst(i) ==
    /\ run[i].pc = "start"
    /\ \/ /\ run[i].status = "running"
          /\ run' = [run EXCEPT ![i].status = "failed"]
          /\ UNCHANGED node
       \/ /\ node' = [node EXCEPT ![i] = "started"]
          /\ RunEnds(i, "success")
    /\ UNCHANGED <<downloadVars, current, command, install, scale, cancelled>>

StartNode(i) ==
    /\ run[i].pc = "start"
    /\ \/ /\ node' = [node EXCEPT ![i] = "started"]
          /\ RunEnds(i, "success")
       \/ /\ RunEnds(i, "failed")
          /\ UNCHANGED node
    /\ UNCHANGED <<downloadVars, current, command, install, scale, cancelled>>

RunStep(i) ==
    \/ FindAgent(i) \/ FindPackage(i) \/ WaitForDownload(i) \/ TransferPackage(i)
    \/ SendInstallCommand(i) \/ PollStatus(i) \/ RegisterNode(i) \/ StartNode(i)

-----------------------------------------------------------------------------
(* The agent: the install command and its polled status.                   *)

BeginInstall(i) ==
    /\ command[i] = "running"
    /\ install[i] = "none"
    /\ install' = [install EXCEPT ![i] = "running"]
    /\ UNCHANGED <<downloadVars, current, run, command, node, scale, cancelled>>

EndInstall(i) ==
    /\ install[i] = "running"
    /\ \E result \in {"done", "failed"} : install' = [install EXCEPT ![i] = result]
    /\ UNCHANGED <<downloadVars, current, run, command, node, scale, cancelled>>

\* The response; "failed" also when the executor's timeout fires first.
ReportInstall(i) ==
    /\ command[i] = "running"
    /\ install[i] # "none"
    /\ \/ /\ install[i] = "done"
          /\ command' = [command EXCEPT ![i] = "success"]
       \/ command' = [command EXCEPT ![i] = "failed"]
    /\ UNCHANGED <<downloadVars, current, run, install, node, scale, cancelled>>

AgentStep(i) == BeginInstall(i) \/ EndInstall(i) \/ ReportInstall(i)

-----------------------------------------------------------------------------
(* The scale-out step stepInstallFiles.                                    *)

StartScale ==
    /\ scale.run = NoRun
    /\ \E online \in BOOLEAN : Launch(online, "deferred")
    /\ scale' = [scale EXCEPT !.run = current']
    /\ UNCHANGED <<downloadVars, command, install, node, cancelled>>

\* Success only from the run it has started; failure from that run, because it
\* was superseded, or at the deadline.
PollScale ==
    /\ scale.run # NoRun
    /\ scale.outcome = "none"
    /\ \E outcome \in {"success", "failed"} :
        /\ outcome = "success" => current = scale.run /\ run[current].status = "success"
        /\ scale' = [scale EXCEPT !.outcome = outcome]
    /\ UNCHANGED <<downloadVars, current, run, command, install, node, cancelled>>

-----------------------------------------------------------------------------
Next ==
    \/ StartInstallation \/ RetryStep \/ CancelInstallation
    \/ \E i \in Runs : RunStep(i) \/ AgentStep(i)
    \/ StartScale \/ PollScale
    \/ DownloadNext /\ UNCHANGED installVars

\* Goroutines run, workers' network calls end, and every command is answered.
Fairness ==
    /\ \A i \in Runs : WF_vars(RunStep(i)) /\ WF_vars(AgentStep(i))
    /\ \A d \in Tasks : WF_vars(Worker(d) /\ UNCHANGED installVars)

Spec     == Init /\ [][Next]_vars
FairSpec == Spec /\ Fairness

-----------------------------------------------------------------------------
(* Properties.                                                             *)

\* A success is never published before everything the request asked for is done:
\* installed on the host, registered, and started unless that is deferred, even
\* if the operator cancels, retries or starts again at any point.  The scale-out
\* reports it only for the installation it has started, although it polls the
\* host's entry, which may have been replaced.
SuccessIsEarned ==
    /\ \A i \in Runs : run[i].status = "success" =>
        /\ install[i] = "done"
        /\ run[i].plan # "standalone" => node[i] # "none"
        /\ run[i].plan = "start" => node[i] = "started"
    /\ scale.outcome = "success" =>
        install[scale.run] = "done" /\ node[scale.run] # "none"

\* Two installations of the host run together only if the operator has cancelled
\* one of them: every other end of a run is the end of its goroutine.
OverlapNeedsCancel ==
    \A i, j \in Runs : i < j /\ Alive(i) /\ Alive(j) => i \in cancelled

\* An installation ends, if the package download is not cancelled.
EndsIfNotCancelled ==
    [](DownloadStatus \notin {"cancelling", "cancelled"}) =>
        \A i \in Runs : Alive(i) ~> ~Alive(i)
=============================================================================
