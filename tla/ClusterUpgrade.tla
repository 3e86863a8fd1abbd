---------------------------- MODULE ClusterUpgrade ----------------------------
(***************************************************************************)
(* The upgrade of one cluster (internal/apps/stupgrade): a task is started *)
(* with its execution record, a goroutine works through the steps of the   *)
(* upgrade node by node and, when one fails after the backup, through      *)
(* those of the rollback.  What the rollback needs to know, above all      *)
(* where the backups are, is kept by the goroutine only.                   *)
(*                                                                         *)
(* A node is upgraded in place, after a backup of its directory, or into a *)
(* second directory.  A directory holds the old version, the new package   *)
(* before ("raw") or after its configuration was merged ("new"), or what a *)
(* failed command left ("torn").  Commands fail before, within or after    *)
(* their effect; saves fail; agents go offline; processes die and are      *)
(* restarted by their agent.  A command does not act after it was given up.*)
(* Checks of the plan, plugins, the java proxy and the smoke test have no  *)
(* effect the properties see: a failure of theirs is one of the step's     *)
(* saves.                                                                  *)
(***************************************************************************)
EXTENDS Integers, FiniteSets, Sequences

CONSTANTS
    Nodes,      \* nodes of the cluster, each on a host of its own
    MaxFaults   \* bound: failed commands and saves, deaths, agents going
                \* offline, restarts of the control plane

ASSUME NodesAssumption  == Nodes # {} /\ IsFiniteSet(Nodes)
ASSUME BoundsAssumption == MaxFaults \in Nat

VARIABLES
    inPlace,    \* nodes whose source and target directory are the same
    disk,       \* what each directory of each node holds
    backup,     \* what the backup of each node holds
    meta,       \* the directory recorded of each node
    version,    \* the version recorded of the cluster
    proc,       \* the process of each node: its state, directory and version
    agents,     \* nodes whose agent is online
    task,       \* the saved task
    nodes,      \* the saved status of each node of the task
    exec,       \* the status of the execution
    open,       \* the execution may be cancelled
    bound,      \* the execution names the task
    gor,        \* the goroutine that works on the task
    cancel,     \* a cancel request: none, claimed, or the module's answer
    unsaved,    \* history: nodes whose final status was not saved
    touched,    \* history: a step of the upgrade was started
    faults

hosts   == <<disk, backup, proc>>
record  == <<meta, version>>
control == <<exec, open, bound, cancel>>
vars    == <<inPlace, hosts, record, agents, task, nodes, control, gor, unsaved, touched, faults>>

Dirs      == {"src", "tgt"}
Target(n) == IF n \in inPlace THEN "src" ELSE "tgt"
Fault     == faults < MaxFaults /\ faults' = faults + 1

\* Mutant: the backup after the package was extracted.
Upgrade_LateBackup == <<"PRECHECK", "DISTRIBUTE", "BACKUP", "MERGE_CONFIG", "STOP_CLUSTER", "SWITCH_VERSION",
                        "START_CLUSTER", "HEALTH_CHECK", "COMPLETE">>

Upgrade == <<"PRECHECK", "BACKUP", "DISTRIBUTE", "MERGE_CONFIG", "STOP_CLUSTER", "SWITCH_VERSION",
             "START_CLUSTER", "HEALTH_CHECK", "COMPLETE">>

Rollback == <<"ROLLBACK_PREPARE", "ROLLBACK_RESTORE", "ROLLBACK_RESTART", "ROLLBACK_VERIFY">>
\* The rollback of a cluster that was never stopped.
KeptRunning == <<"KEEP_RUNNING", "VERIFY_SOURCE">>
NodeSteps   == {"BACKUP", "DISTRIBUTE", "MERGE_CONFIG", "STOP_CLUSTER", "SWITCH_VERSION", "START_CLUSTER",
                "HEALTH_CHECK", "ROLLBACK_PREPARE", "ROLLBACK_RESTORE", "ROLLBACK_RESTART", "ROLLBACK_VERIFY",
                "VERIFY_SOURCE"}
\* Steps that go on with the other nodes when one fails.
Lifecycle   == {"STOP_CLUSTER", "START_CLUSTER", "ROLLBACK_PREPARE", "ROLLBACK_RESTART"}

Ended == {"succeeded", "failed", "cancelled"}

NoTask == [status |-> "none", rollback |-> "pending", done |-> FALSE]

\* What the goroutine knows: the steps left and the nodes left of the first
\* one, its own copy of the task, the nodes its copy has as rolled back or as
\* failed to be, and what a rollback depends on.
Fresh == [at |-> "none", steps |-> Upgrade, todo |-> {}, bad |-> FALSE, back |-> FALSE, task |-> NoTask,
          settled |-> {}, entered |-> FALSE, backed |-> FALSE, paths |-> {}, seen |-> "none"]

Init ==
    /\ inPlace \in SUBSET Nodes
    /\ disk = [n \in Nodes |-> [d \in Dirs |-> IF d = "src" THEN "old" ELSE "none"]]
    /\ backup = [n \in Nodes |-> "none"]
    /\ meta = [n \in Nodes |-> "src"] /\ version = "old"
    /\ proc = [n \in Nodes |-> [st |-> "up", dir |-> "src", ver |-> "old"]]
    /\ agents = Nodes
    /\ task = NoTask /\ nodes = [n \in Nodes |-> "pending"]
    /\ exec = "none" /\ open = TRUE /\ bound = FALSE /\ cancel = "none"
    /\ gor = Fresh /\ unsaved = {} /\ touched = FALSE /\ faults = 0

-----------------------------------------------------------------------------
(* The execution record.                                                   *)

CanTransition(from, to) ==
    \/ from = to
    \/ from = "pending" /\ to \in {"running", "cancel_requested", "cancelled", "failed"}
    \/ from = "running" /\ to \in {"cancel_requested", "succeeded", "failed"}
    \/ from = "cancel_requested" /\ to \in {"running", "cancelled", "succeeded", "failed"}

\* What a task makes of its execution.
upgradeExecutionStatus(t) ==
    CASE t.rollback = "rollback_running" -> "running"
      [] t.rollback # "rollback_running" /\ t.status \in {"pending", "running", "cancelled", "succeeded"} -> t.status
      [] OTHER -> "failed"

\* The goroutine has read the execution and moves it; afterwards it is at next,
\* or at refused when somebody else has moved the execution since.
Moves(target, next, refused) ==
    IF gor.seen = target \/ gor.seen \in Ended
    THEN gor' = [gor EXCEPT !.at = next] /\ UNCHANGED <<exec, open>>
    ELSE IF exec = gor.seen /\ CanTransition(exec, target)
    THEN exec' = target /\ open' = FALSE /\ gor' = [gor EXCEPT !.at = next]
    ELSE gor' = [gor EXCEPT !.at = refused] /\ UNCHANGED <<exec, open>>

\* A user asks to cancel; the module is asked while the request is on record.
ClaimCancel ==
    /\ cancel = "none" /\ open /\ exec \in {"pending", "running"}
    /\ exec' = "cancel_requested" /\ cancel' = "claimed"
    /\ UNCHANGED <<inPlace, hosts, record, agents, task, nodes, open, bound, gor, unsaved, touched, faults>>

\* Only a task that has not begun is cancelled.
RequestCancel ==
    /\ cancel = "claimed"
    /\ \/ ~bound /\ cancel' = "none" /\ UNCHANGED <<task, nodes>>
       \/ /\ bound /\ task.status = "pending"
          /\ task' = [task EXCEPT !.status = "cancelled", !.done = TRUE]
          /\ nodes' = [n \in Nodes |-> "skipped"]
          /\ cancel' = "cancelled"
       \/ /\ bound /\ task.status # "pending"
          /\ cancel' = upgradeExecutionStatus(task) /\ UNCHANGED <<task, nodes>>
    /\ UNCHANGED <<inPlace, hosts, record, agents, exec, open, bound, gor, unsaved, touched, faults>>

FinishCancel ==
    /\ cancel \in {"running"} \cup Ended
    /\ cancel' = "none"
    /\ IF exec = "cancel_requested" THEN exec' = cancel /\ open' = FALSE ELSE UNCHANGED <<exec, open>>
    /\ UNCHANGED <<inPlace, hosts, record, agents, task, nodes, bound, gor, unsaved, touched, faults>>

-----------------------------------------------------------------------------
(* Starting the task.                                                      *)

world == <<inPlace, hosts, record, agents>>

CreateExecution ==
    /\ exec = "none"
    /\ exec' = "pending" /\ gor' = [gor EXCEPT !.at = "create"]
    /\ UNCHANGED <<world, task, nodes, open, bound, cancel, unsaved, touched, faults>>

\* The task is created and bound, then its goroutine starts.
StartPlanExecutionWithExecution ==
    /\ \/ /\ gor.at = "create"
          /\ task' = [task EXCEPT !.status = "pending"]
          /\ gor' = [gor EXCEPT !.at = "bind", !.task = task']
          /\ UNCHANGED <<exec, bound, faults>>
       \/ /\ gor.at = "create" /\ Fault
          /\ exec' = IF exec = "pending" THEN "failed" ELSE exec
          /\ gor' = [gor EXCEPT !.at = "gone"] /\ UNCHANGED <<task, bound>>
       \/ /\ gor.at = "bind"
          /\ bound' = TRUE /\ gor' = [gor EXCEPT !.at = "claim"]
          /\ UNCHANGED <<exec, task, faults>>
       \/ /\ gor.at = "bind" /\ Fault
          /\ gor' = [gor EXCEPT !.at = "gone"] /\ UNCHANGED <<exec, task, bound>>
    /\ UNCHANGED <<world, nodes, open, cancel, unsaved, touched>>

\* Mutant: the goroutine saves the task it has read.
executeTask_Save ==
    /\ gor.at = "claim"
    /\ task' = [gor.task EXCEPT !.status = "running"]
    /\ gor' = [gor EXCEPT !.at = "sync", !.task = task']
    /\ UNCHANGED <<world, nodes, control, unsaved, touched, faults>>

\* The goroutine takes the task only if it is still pending.
executeTask ==
    /\ gor.at = "claim"
    /\ IF task.status = "pending"
       THEN /\ task' = [task EXCEPT !.status = "running"]
            /\ gor' = [gor EXCEPT !.at = "sync", !.task = task']
       ELSE UNCHANGED task /\ gor' = [gor EXCEPT !.at = "endsync", !.task = task]
    /\ UNCHANGED <<world, nodes, control, unsaved, touched, faults>>

\* The execution is read, then moved; one that cannot be moved ends the goroutine.
syncExecutionFromTask ==
    /\ \/ /\ gor.at \in {"sync", "endsync"}
          /\ gor' = [gor EXCEPT !.seen = exec, !.at = IF gor.at = "sync" THEN "move" ELSE "endmove"]
          /\ UNCHANGED <<exec, open>>
       \/ gor.at = "move" /\ Moves("running", "step", "gone")
       \/ gor.at = "endmove" /\ Moves(upgradeExecutionStatus(gor.task), "gone", "gone")
    /\ UNCHANGED <<world, task, nodes, bound, cancel, unsaved, touched, faults>>

-----------------------------------------------------------------------------
(* One step on one node.                                                   *)

Step     == Head(gor.steps)
Files    == {"BACKUP", "DISTRIBUTE", "MERGE_CONFIG", "ROLLBACK_RESTORE"}
Whole    == {"old", "raw", "new"}
Runs(n, d) == proc[n].st = "up" /\ proc[n].dir = d

\* What is on disk when a command that writes it did nothing, a part, or all.
Written(part, before, after) == CASE part = "none" -> before [] part = "torn" -> "torn" [] OTHER -> after

\* The backup of a directory, by the commands that use one.
backupDir(n) == IF n \in gor.paths THEN backup[n] ELSE "none"

\* The directory a command wrote: the target is replaced by the package, its
\* configuration is merged, and the source is replaced by its backup.
Distributed(n, part) == [disk[n] EXCEPT ![Target(n)] = Written(part, @, "raw")]

Merged(n, part) == [disk[n] EXCEPT ![Target(n)] = Written(part, @, "new")]

Restored(n, part) == IF n \in gor.paths THEN [disk[n] EXCEPT !["src"] = Written(part, @, backupDir(n))] ELSE disk[n]

diskAfter(n, part) ==
    CASE Step = "DISTRIBUTE"       -> Distributed(n, part)
      [] Step = "MERGE_CONFIG"     -> Merged(n, part)
      [] Step = "ROLLBACK_RESTORE" -> Restored(n, part)
      [] OTHER -> disk[n]

backupAfter(n, part) == IF Step = "BACKUP" /\ n \in inPlace THEN Written(part, backup[n], disk[n]["src"]) ELSE backup[n]

\* Starting and stopping act on the directory recorded of the node.
procAfter(n, part) ==
    CASE Step \in {"STOP_CLUSTER", "ROLLBACK_PREPARE"} /\ part # "none" /\ proc[n].dir = meta[n] -> [proc[n] EXCEPT !.st = "off"]
      [] /\ Step \in {"START_CLUSTER", "ROLLBACK_RESTART"} /\ part # "none"
         /\ proc[n].st # "up" /\ disk[n][meta[n]] \in Whole
         -> [st |-> "up", dir |-> meta[n], ver |-> disk[n][meta[n]]]
      [] OTHER -> proc[n]

\* The directory recorded of a node is switched node by node.
Switches(n, part) == meta' = IF Step = "SWITCH_VERSION" /\ part = "all" THEN [meta EXCEPT ![n] = Target(n)] ELSE meta

Acts(n, part) ==
    /\ disk' = [disk EXCEPT ![n] = diskAfter(n, part)]
    /\ backup' = [backup EXCEPT ![n] = backupAfter(n, part)]
    /\ proc' = [proc EXCEPT ![n] = procAfter(n, part)]
    /\ Switches(n, part)

\* A command is not sent to an agent that is offline; a check can fail.
NeedsAgent(n) ==
    CASE Step = "BACKUP" -> n \in inPlace
      [] Step = "ROLLBACK_RESTORE" -> n \in gor.paths
      [] OTHER -> TRUE

\* The start script and the configuration exist.
VerifyInstallLayout(n, d) == disk[n][d] # "none"

Fails(n) ==
    \/ NeedsAgent(n) /\ n \notin agents
    \/ Step = "HEALTH_CHECK" /\ ~(VerifyInstallLayout(n, Target(n)) /\ Runs(n, Target(n)))
    \/ Step = "ROLLBACK_VERIFY" /\ ~(VerifyInstallLayout(n, "src") /\ Runs(n, "src"))
    \/ Step = "VERIFY_SOURCE" /\ ~VerifyInstallLayout(n, "src")
    \/ Step \in {"START_CLUSTER", "ROLLBACK_RESTART"} /\ disk[n][meta[n]] \notin Whole

okStatus == CASE Step \in {"ROLLBACK_VERIFY", "VERIFY_SOURCE"} -> "rollback_succeeded"
              [] gor.back /\ Step \notin {"ROLLBACK_VERIFY", "VERIFY_SOURCE"} -> "rollback_running"
              [] OTHER -> "running"
deriveFailureStatus == IF gor.back THEN "rollback_failed" ELSE "failed"

\* Mutant: the backups are recorded when the step begins.
Recorded_Early(n) == IF Step = "BACKUP" THEN inPlace ELSE gor.paths

\* The directories whose backup is recorded.
Recorded(n) == IF Step = "BACKUP" /\ n \in inPlace THEN gor.paths \cup {n} ELSE gor.paths

\* The goroutine's copy is changed first, whether or not it is saved.
SettledAfter(n) == IF okStatus = "rollback_succeeded" THEN gor.settled \cup {n} ELSE gor.settled

finishNodeStep(n) ==
    /\ gor' = [gor EXCEPT !.todo = @ \ {n}, !.paths = Recorded(n), !.settled = SettledAfter(n)]
    /\ nodes' = [nodes EXCEPT ![n] = okStatus]

\* A failed node fails its step, at once or after the other nodes.
afterFailure(n) ==
    LET g == [gor EXCEPT !.settled = IF gor.back THEN @ \cup {n} ELSE @] IN
    IF Step \in Lifecycle THEN [g EXCEPT !.todo = @ \ {n}, !.bad = TRUE] ELSE [g EXCEPT !.at = "fail"]

failNodeStep(n) ==
    /\ gor' = afterFailure(n)
    /\ nodes' = [nodes EXCEPT ![n] = deriveFailureStatus]

\* The command did its work and the status of the node cannot be saved: the
\* goroutine still counts it as finished.
unsavedNodeStep(n) ==
    /\ gor' = [gor EXCEPT !.at = IF gor.back THEN "err" ELSE "fail", !.paths = Recorded(n), !.settled = SettledAfter(n)]
    /\ unsaved' = IF okStatus = "rollback_succeeded" THEN unsaved \cup {n} ELSE unsaved

NodeStep(n) ==
    /\ gor.at = "node" /\ n \in gor.todo
    /\ \/ ~Fails(n) /\ Acts(n, "all") /\ finishNodeStep(n) /\ UNCHANGED <<unsaved, faults>>
       \/ Fails(n) /\ Acts(n, "none") /\ failNodeStep(n) /\ UNCHANGED <<unsaved, faults>>
       \/ /\ Fault /\ ~Fails(n)
          /\ \E part \in IF Step \in Files THEN {"none", "torn", "all"} ELSE {"none", "all"} : Acts(n, part)
          /\ failNodeStep(n) /\ UNCHANGED unsaved
       \/ /\ Fault /\ ~Fails(n) /\ Step \notin Lifecycle
          /\ Acts(n, "all") /\ unsavedNodeStep(n) /\ UNCHANGED nodes
       \* The node failed, and its status is not saved either.
       \/ /\ Fault /\ Fails(n) /\ gor.back
          /\ Acts(n, "none") /\ gor' = afterFailure(n) /\ unsaved' = unsaved \cup {n} /\ UNCHANGED nodes
    /\ UNCHANGED <<inPlace, version, agents, task, control, touched>>

-----------------------------------------------------------------------------
(* A step as a whole.                                                      *)

Saved(t) == task' = t

\* The entry into the cutover is known even if the start of the step is not saved.
startStep ==
    /\ gor.at = "step"
    /\ LET t == IF gor.back THEN [gor.task EXCEPT !.rollback = "rollback_running"]
                ELSE [gor.task EXCEPT !.status = "running"]
           g == [gor EXCEPT !.task = t, !.entered = @ \/ Step = "STOP_CLUSTER", !.bad = FALSE,
                            !.todo = IF Step \in NodeSteps THEN Nodes ELSE {}] IN
       \/ gor' = [g EXCEPT !.at = "node"] /\ Saved(t) /\ UNCHANGED faults
       \/ Fault /\ gor' = [g EXCEPT !.at = "err", !.todo = {}] /\ UNCHANGED task
    /\ touched' = TRUE
    /\ UNCHANGED <<world, nodes, control, unsaved>>

\* What is recorded of the cluster once all nodes are done.
Recording(done) ==
    CASE Step = "SWITCH_VERSION" -> meta' = meta /\ version' = IF done = Nodes THEN "new" ELSE version
      [] Step = "ROLLBACK_RESTORE" ->
            /\ meta' = [n \in Nodes |-> IF n \in done THEN "src" ELSE meta[n]]
            /\ version' = IF done = Nodes THEN "old" ELSE version
      [] OTHER -> UNCHANGED record

\* The checks of the whole cluster wait for every process.
waitForClusterHealthy == Step \in {"HEALTH_CHECK", "ROLLBACK_VERIFY"} => \A n \in Nodes : proc[n].st = "up"

\* The end of a backup is known even if it is not saved.
finished == [gor EXCEPT !.backed = @ \/ Step = "BACKUP"]

finishStep ==
    /\ gor.at = "node" /\ gor.todo = {} /\ ~gor.bad /\ waitForClusterHealthy
    /\ \/ /\ Recording(Nodes)
          /\ gor' = [finished EXCEPT !.steps = Tail(@),
                                     !.at = IF Tail(gor.steps) # <<>> THEN "step" ELSE IF gor.back THEN "close" ELSE "won",
                                     !.task.rollback = IF gor.back /\ Len(gor.steps) = 1 THEN "rollback_succeeded" ELSE @]
          /\ UNCHANGED faults
       \/ Fault /\ Recording(Nodes) /\ gor' = [finished EXCEPT !.at = "err"]
       \/ /\ Fault /\ Step \in {"SWITCH_VERSION", "ROLLBACK_RESTORE"}
          /\ \E done \in SUBSET Nodes : done # Nodes /\ Recording(done)
          /\ gor' = [gor EXCEPT !.at = "fail"]
    /\ UNCHANGED <<inPlace, hosts, agents, task, nodes, control, unsaved, touched>>

breakStep ==
    /\ gor.at = "node" /\ gor.todo = {} /\ (gor.bad \/ ~waitForClusterHealthy)
    /\ gor' = [gor EXCEPT !.at = "fail"]
    /\ UNCHANGED <<world, task, nodes, control, unsaved, touched, faults>>

\* The nodes a settlement is left with: those the goroutine's copy has at an
\* end are passed over, whether or not that end was saved.
Unsettled == Nodes \ gor.settled

\* Mutant: only the nodes the rollback is at.
finalizeNodeExecutionsRollbackFailed_Running(saved) ==
    nodes' = [n \in Nodes |-> IF n \in saved /\ nodes[n] = "rollback_running" THEN "rollback_failed" ELSE nodes[n]]

\* Nodes that were not rolled back have failed to be, as far as this is saved.
finalizeNodeExecutionsRollbackFailed(saved) ==
    nodes' = [n \in Nodes |-> IF n \in saved THEN "rollback_failed" ELSE nodes[n]]

finalizeNodeExecutionsFailed(saved) ==
    nodes' = [n \in Nodes |-> IF n \in saved THEN "failed" ELSE nodes[n]]

\* A failed rollback is saved after the nodes' status, if that can be saved: the
\* first node that cannot ends the settlement, and counts as settled all the same.
failStep ==
    /\ gor.at = "fail"
    /\ LET t == IF gor.back THEN [gor.task EXCEPT !.rollback = "rollback_failed"]
                ELSE [gor.task EXCEPT !.status = "failed"]
           g == [gor EXCEPT !.at = "err", !.task = t, !.todo = {}, !.bad = FALSE] IN
       \/ /\ gor' = [g EXCEPT !.settled = IF gor.back THEN Nodes ELSE @]
          /\ IF gor.back THEN finalizeNodeExecutionsRollbackFailed(Unsettled) ELSE UNCHANGED nodes
          /\ \/ Saved(t) /\ UNCHANGED faults
             \/ Fault /\ UNCHANGED task
          /\ UNCHANGED unsaved
       \/ /\ gor.back /\ Fault
          /\ \E n \in Unsettled : \E saved \in SUBSET (Unsettled \ {n}) :
                /\ finalizeNodeExecutionsRollbackFailed(saved)
                /\ gor' = [g EXCEPT !.settled = @ \cup saved \cup {n}]
                /\ unsaved' = unsaved \cup {n}
          /\ UNCHANGED task
    /\ UNCHANGED <<world, control, touched>>

-----------------------------------------------------------------------------
(* The end of the task.                                                    *)

\* Mutant: upgrades in place are not told from the others.
rollsBackBeforeCutover_InPlace == ~gor.entered

\* The source directories are as they were, and the cluster was not stopped.
rollsBackBeforeCutover == ~gor.entered /\ gor.paths = {}

\* A failure after the backup starts the rollback, once that is saved.
StartRollback ==
    /\ gor.at = "err" /\ ~gor.back /\ gor.backed
    /\ LET t == [gor.task EXCEPT !.status = "failed", !.rollback = "rollback_running"] IN
       \/ /\ Saved(t)
          /\ gor' = [gor EXCEPT !.task = t, !.back = TRUE, !.at = "step",
                                !.steps = IF rollsBackBeforeCutover THEN KeptRunning ELSE Rollback]
          /\ UNCHANGED faults
       \/ Fault /\ UNCHANGED task /\ gor' = [gor EXCEPT !.at = "gone"]
    /\ UNCHANGED <<world, nodes, control, unsaved, touched>>

\* One before the backup, and one of the rollback, settle the nodes; those after
\* the first that cannot be saved stay as they are.
SettleFailure ==
    /\ gor.at = "err" /\ (gor.back \/ ~gor.backed)
    /\ gor' = [gor EXCEPT !.at = "close", !.task.status = "failed",
                          !.task.rollback = IF gor.back THEN "rollback_failed" ELSE "skipped"]
    /\ LET left == IF gor.back THEN Unsettled ELSE Nodes IN
       \E saved \in SUBSET left :
          /\ IF gor.back THEN finalizeNodeExecutionsRollbackFailed(saved) ELSE finalizeNodeExecutionsFailed(saved)
          /\ IF saved = left THEN UNCHANGED faults ELSE Fault
          /\ unsaved' = unsaved \cup (left \ saved)
    /\ UNCHANGED <<world, task, control, touched>>

\* The closing step saves the task, then its end is saved; errors are ignored.
recordFailureClosureStep ==
    /\ gor.at \in {"close", "last"}
    /\ gor' = IF gor.at = "close" THEN [gor EXCEPT !.at = "last"] ELSE [gor EXCEPT !.at = "endsync", !.task.done = TRUE]
    /\ \/ Saved(gor'.task) /\ UNCHANGED faults
       \/ Fault /\ UNCHANGED task
    /\ UNCHANGED <<world, nodes, control, unsaved, touched>>

\* A success settles the nodes, then saves the task; an error ends the goroutine.
FinishSuccess ==
    /\ \/ /\ gor.at = "won"
          /\ nodes' = [n \in Nodes |-> "succeeded"] /\ gor' = [gor EXCEPT !.at = "commit"]
          /\ UNCHANGED <<task, faults>>
       \/ /\ gor.at = "commit"
          /\ Saved([gor.task EXCEPT !.status = "succeeded", !.rollback = "pending", !.done = TRUE])
          /\ gor' = [gor EXCEPT !.at = "endsync", !.task = task'] /\ UNCHANGED <<nodes, faults>>
       \/ gor.at \in {"won", "commit"} /\ Fault /\ gor' = [gor EXCEPT !.at = "gone"] /\ UNCHANGED <<task, nodes>>
    /\ UNCHANGED <<world, control, unsaved, touched>>

-----------------------------------------------------------------------------
(* The hosts and the control plane.                                        *)

AgentGoesOffline(n) ==
    /\ n \in agents /\ Fault /\ agents' = agents \ {n}
    /\ UNCHANGED <<inPlace, hosts, record, task, nodes, control, gor, unsaved, touched>>

AgentReturns(n) ==
    /\ n \notin agents /\ agents' = agents \cup {n}
    /\ UNCHANGED <<inPlace, hosts, record, task, nodes, control, gor, unsaved, touched, faults>>

ProcessDies(n) ==
    /\ proc[n].st = "up" /\ Fault /\ proc' = [proc EXCEPT ![n].st = "dead"]
    /\ UNCHANGED <<inPlace, disk, backup, record, agents, task, nodes, control, gor, unsaved, touched>>

\* The agent restarts a process that died, from what its directory holds by now.
ProcessRestarts(n) ==
    /\ proc[n].st = "dead" /\ disk[n][proc[n].dir] \in Whole
    /\ proc' = [proc EXCEPT ![n].st = "up", ![n].ver = disk[n][proc[n].dir]]
    /\ UNCHANGED <<inPlace, disk, backup, record, agents, task, nodes, control, gor, unsaved, touched, faults>>

\* A restart of the control plane forgets the goroutine and cancel requests.
Restart ==
    /\ gor.at \notin {"none", "gone"} /\ Fault
    /\ gor' = [gor EXCEPT !.at = "gone"] /\ cancel' = "none"
    /\ UNCHANGED <<world, task, nodes, exec, open, bound, unsaved, touched>>

Works ==
    \/ StartPlanExecutionWithExecution \/ executeTask \/ syncExecutionFromTask
    \/ startStep \/ (\E n \in Nodes : NodeStep(n)) \/ finishStep \/ breakStep \/ failStep
    \/ StartRollback \/ SettleFailure \/ recordFailureClosureStep \/ FinishSuccess
Answers == RequestCancel \/ FinishCancel
Environment ==
    \/ \E n \in Nodes : AgentGoesOffline(n) \/ AgentReturns(n) \/ ProcessDies(n) \/ ProcessRestarts(n)
    \/ Restart

Next == CreateExecution \/ ClaimCancel \/ Works \/ Answers \/ Environment

Spec == Init /\ [][Next]_vars

-----------------------------------------------------------------------------
(* Properties.                                                             *)

TypeOK ==
    /\ inPlace \subseteq Nodes /\ agents \subseteq Nodes
    /\ disk \in [Nodes -> [Dirs -> {"none", "torn"} \cup Whole]]
    /\ backup \in [Nodes -> {"none", "torn"} \cup Whole]
    /\ meta \in [Nodes -> Dirs] /\ version \in {"old", "new"}
    /\ proc \in [Nodes -> [st : {"up", "off", "dead"}, dir : Dirs, ver : Whole]]
    /\ task \in [status : {"none", "pending", "running"} \cup Ended, done : BOOLEAN,
                 rollback : {"pending", "skipped", "rollback_running", "rollback_failed", "rollback_succeeded"}]
    /\ nodes \in [Nodes -> {"pending", "skipped", "running", "succeeded", "failed",
                            "rollback_running", "rollback_failed", "rollback_succeeded"}]
    /\ exec \in {"none", "pending", "running", "cancel_requested"} \cup Ended
    /\ cancel \in {"none", "claimed", "pending", "running"} \cup Ended
    /\ gor.paths \subseteq inPlace /\ gor.todo \cup gor.settled \cup unsaved \subseteq Nodes /\ faults \in 0..MaxFaults
    \* The goroutine holds a backup of what it will restore.
    /\ \A n \in gor.paths : backup[n] = "old"

\* The whole cluster is on one version, in files, records and processes.
Upgraded ==
    /\ version = "new"
    /\ \A n \in Nodes : meta[n] = Target(n) /\ disk[n][Target(n)] = "new"
                        /\ proc[n].dir = Target(n) /\ proc[n].ver = "new" /\ proc[n].st # "off"
AsItWas ==
    /\ version = "old"
    /\ \A n \in Nodes : meta[n] = "src" /\ disk[n]["src"] = "old"
                        /\ proc[n].dir = "src" /\ proc[n].ver = "old" /\ proc[n].st # "off"

\* A task that is reported successful has upgraded the files, the records and
\* the process of every node: no failed node was passed over, and no node runs
\* a package whose configuration was not merged (executeTask).
SuccessIsReal == task.status = "succeeded" => Upgraded

\* A rollback that is reported successful has brought back the files, the
\* records and the process of every node, whatever the upgrade had reached and
\* whichever nodes it was upgrading in place (rollbackTask).
RollbackIsReal == task.rollback = "rollback_succeeded" => AsItWas

\* The old version of a node is never lost: when its directory holds something
\* else, a complete backup exists (executeBackupStep).
OldVersionKept == \A n \in Nodes : disk[n]["src"] # "old" => backup[n] = "old"

\* Whoever reads a task that has ended finds its nodes ended in the same way,
\* except a node whose last status could not be saved: that one keeps the status
\* it had for good, since the goroutine's own copy of it is at its end and the
\* second settlement passes it over (finalizeNodeExecutionsRollbackFailed).
NodesFollow ==
    \A n \in Nodes \ unsaved :
        /\ task.status = "succeeded" => nodes[n] = "succeeded"
        /\ task.rollback = "skipped" => nodes[n] = "failed"
        /\ task.rollback = "rollback_succeeded" => nodes[n] = "rollback_succeeded"
        /\ task.rollback = "rollback_failed" => nodes[n] \in {"rollback_failed", "rollback_succeeded"}

\* An upgrade that was reported cancelled, by its task or by its execution, has
\* not touched the cluster and never will (RequestCancel against executeTask).
CancelIsFinal == task.status = "cancelled" \/ exec = "cancelled" => ~touched

\* What an operator is told, by the task or by its execution, and the version
\* the cluster is on.
Told ==
    IF "cancelled" \in {task.status, exec} THEN "cancelled"
    ELSE IF "succeeded" \in {task.status, exec} THEN "upgraded"
    ELSE IF task.rollback = "rollback_succeeded" THEN "restored"
    ELSE IF task.done THEN "failed" ELSE "open"
Cluster == IF Upgraded THEN "new" ELSE IF AsItWas THEN "old" ELSE "mixed"

Promise == INSTANCE UpgradeOutcome WITH told <- Told, cluster <- Cluster, begun <- touched

\* Whatever fails, dies or is restarted, and whenever a user cancels, the upgrade
\* ends at most once as far as its task and its execution tell, and what they
\* tell stays true of the whole cluster (executeTask, rollbackTask, RequestCancel).
KeepsPromise == Promise!Spec
=============================================================================
