---------------------------- MODULE ScaleExecution ----------------------------
(***************************************************************************)
(* Scaling operations of one cluster (internal/apps/cluster/               *)
(* scale_service.go, scale_executor.go): an operation takes a node into    *)
(* the cluster or out of it, step by step; each step works on the hosts,   *)
(* then its outcome is saved.  A failed step stops the operation, a        *)
(* restart of the control plane fails it, and a retry goes on from the     *)
(* first step that is not done, with the plan of the submit.               *)
(*                                                                         *)
(* Meanwhile users start and stop nodes and remove records, agents go      *)
(* offline, processes die.  A member list is the set of its nodes; the     *)
(* empty list is the distribution's localhost.  A node runs on a host of   *)
(* its own, is shared with no other cluster and does not carry the java    *)
(* proxy.  Jobs, plugins and monitor pushes only decide how a step ends.   *)
(***************************************************************************)
EXTENDS Integers, FiniteSets, Sequences

CONSTANTS
    Nodes,       \* hosts, each of which may carry one node of the cluster
    Masters,     \* those whose node is master capable
    InitNodes,   \* the nodes of the cluster at the start, all running
    Loopback,    \* those of them that were started with a localhost list
    MaxOps,      \* bound: submitted operations
    MaxRetries,  \* bound: retries
    MaxFaults    \* bound: failed commands, loads and saves, deaths, agents going offline, restarts
                 \* of the control plane, and starts, stops and removals by users

ASSUME NodesAssumption  == Nodes # {} /\ Masters \subseteq Nodes /\ InitNodes \subseteq Nodes /\ Loopback \subseteq InitNodes
ASSUME BoundsAssumption == {MaxOps, MaxRetries, MaxFaults} \subseteq Nat

Ops == 1..MaxOps

VARIABLES
    records,   \* nodes with a record
    status,    \* the status recorded of each node
    agents,    \* hosts whose agent is online
    running,   \* nodes whose process runs
    exiting,   \* processes that were told to stop and still run
    file,      \* the member list on each host's disk
    want,      \* the member list of the host's config record, pushed or pending
    sees,      \* the members each process has joined; {} for a localhost member
    ops,       \* the saved operations
    gor,       \* the goroutine that works on each operation
    restarted, \* history: nodes that were started since a step found them stopped, or that a
               \* failed check took for stopped
    ranThen,   \* history: nodes on online hosts that were found running when a scale-out was validated
    retries, faults

world  == <<records, status, agents, running, exiting, file, want, sees>>
counts == <<retries, faults>>
vars   == <<world, ops, gor, restarted, ranThen, counts>>

Done == {"succeeded", "partial", "skipped"}

-----------------------------------------------------------------------------
(* Operations and their steps.                                             *)

\* No operation; ref says whether the record an operation works on, which is
\* named by its ID, is not there yet, live or gone.
NoOp == [kind |-> "none", node |-> CHOOSE n \in Nodes : TRUE, mode |-> "none", loop |-> {}, after |-> {},
         roll |-> {}, status |-> "none", done |-> 0, cur |-> "pending", baseline |-> {}, ref |-> "none"]

scaleOutSteps(op) ==
    <<"validate_plan">>
    \o (IF op.loop # {} THEN <<"fix_loopback">> ELSE <<>>)
    \o (IF op.mode = "install" THEN <<"install_files">> ELSE <<>>)
    \o <<"register_node", "apply_configs", "replay_plugins">>
    \o (IF op.mode = "install" THEN <<"start_node">> ELSE <<>>)
    \o <<"patch_members", "verify_membership">>

Steps(op) ==
    IF op.kind = "in"
    THEN <<"validate_plan", "stop_node", "patch_members", "cleanup_records", "refresh_monitor", "verify">>
    ELSE scaleOutSteps(op) \o (IF op.roll # {} THEN <<"rolling_restart">> ELSE <<>>)

Idle == [at |-> "none", res |-> "none", todo |-> {}, expected |-> {}]

\* The goroutine of o is about to run this step.
At(o, step) ==
    /\ gor[o].at = "run"
    /\ Steps(ops[o])[ops[o].done + 1] = step

Fault == faults < MaxFaults /\ faults' = faults + 1

-----------------------------------------------------------------------------
(* What a step finds and does on the hosts.                                *)

\* A check that fails on an online host is taken for the answer that nothing
\* runs: the nodes that it may miss, and what its failures cost.
Misread(checked) == {{}} \cup (IF faults < MaxFaults THEN {{n} : n \in checked \cap agents \cap running} ELSE {})
Missing(missed)  == faults' = faults + Cardinality(missed)

\* The status of n after a check that misses some nodes, and the statuses after
\* every node has been checked.
Checked(n, missed) == IF n \in agents THEN (IF n \in running \ missed THEN "running" ELSE "stopped") ELSE status[n]
Refreshed(missed)  == [n \in Nodes |-> IF n \in records THEN Checked(n, missed) ELSE status[n]]

loopbackNodes == {n \in records :
    \/ file[n] = {}
    \/ status[n] = "running" /\ n \in agents \cap running /\ sees[n] = {}}

runningIn(st) == {n \in records : st[n] = "running"}

count(n)   == IF sees[n] = {} THEN 1 ELSE Cardinality(sees[n])
healthy(n) == n \in agents \cap running /\ n \in sees[n]

\* The members after n has left, and those after it starts with a list: a
\* process joins one group that it finds by its list.
Left(n) == [m \in Nodes |-> IF m = n THEN {} ELSE sees[m] \ {n}]
JoinedAfter(n, s, list) ==
    LET groups == {s[m] : m \in {k \in list \ {n} : s[k] # {}}}
        Join(g) == [m \in Nodes |-> IF m \in g \cup {n} THEN g \cup {n} ELSE s[m]]
    IN  CASE list = {}   -> {s}
          [] list # {} /\ groups = {} -> {Join({})}
          [] OTHER       -> {Join(g) : g \in groups}

\* The process of n starts, again or for the first time.
Starts(n) ==
    /\ running' = running \cup {n}
    /\ exiting' = exiting \ {n}
    /\ sees' \in JoinedAfter(n, Left(n), file[n])
    /\ restarted' = restarted \cup {n}

Stops(n) ==
    /\ running' = running \ {n}
    /\ exiting' = exiting \ {n}
    /\ sees' = Left(n)

\* The config records of a set of hosts get a list, which is pushed to their
\* disks; a push to an offline agent, or one that fails, stays pending.
Pushes(hosts, list, lost) ==
    /\ want' = [n \in Nodes |-> IF n \in hosts THEN list ELSE want[n]]
    /\ file' = [n \in Nodes |-> IF n \in (hosts \cap agents) \ lost THEN list ELSE file[n]]

Pending(hosts, lost) == (hosts \ agents) \cup (hosts \cap lost)

\* Mutant: a deleted record stays the node of the operations that refer to it.
Forget_Never(n) == ops

\* A deleted record is gone for every operation that refers to it.
Forget(n) == [p \in Ops |-> IF ops[p].node = n /\ ops[p].ref = "live" THEN [ops[p] EXCEPT !.ref = "gone"] ELSE ops[p]]

-----------------------------------------------------------------------------
(* Plans.                                                                  *)

\* Existing nodes that a rolling restart would restart.
planRollingRestart == {n \in (records \ loopbackNodes) \cap agents : status[n] = "running"}

PlanScaleOut(n, roll) ==
    [NoOp EXCEPT !.kind = "out", !.node = n, !.mode = IF n \in running THEN "register" ELSE "install",
                 !.loop = loopbackNodes, !.after = records \cup {n},
                 !.roll = IF roll THEN planRollingRestart ELSE {}]

PlanScaleIn(n) == [NoOp EXCEPT !.kind = "in", !.node = n, !.after = records \ {n}, !.ref = "live"]

\* Nothing blocks the plan: the target's agent is online; a new node has no
\* record, reaches every existing one and runs only if it is registered as it
\* is; a node that goes leaves an online master behind.
CanSubmit(op) ==
    /\ op.node \in agents
    /\ IF op.kind = "out"
       THEN op.node \notin records /\ records \subseteq running /\ (op.mode = "register" <=> op.node \in running)
       ELSE op.node \in records /\ (records \ {op.node}) \cap Masters \cap agents # {}

\* The plan computed now is still the one that was submitted.
validateSubmittedPlan(op) ==
    LET fresh == IF op.kind = "out" THEN PlanScaleOut(op.node, op.roll # {}) ELSE PlanScaleIn(op.node)
    IN  /\ CanSubmit(op)
        /\ fresh.after = op.after /\ fresh.loop = op.loop
        /\ op.roll # {} => fresh.roll # {}
        /\ op.kind = "in" => op.ref = "live"

-----------------------------------------------------------------------------
(* The operations of the service.                                          *)

Init ==
    /\ records = InitNodes /\ running = InitNodes /\ exiting = {} /\ agents = Nodes
    /\ status = [n \in Nodes |-> IF n \in InitNodes THEN "running" ELSE "stopped"]
    /\ file = [n \in Nodes |-> IF n \in InitNodes \ Loopback THEN InitNodes ELSE {}]
    /\ want = file
    /\ sees = [n \in Nodes |-> IF n \in InitNodes \ Loopback THEN InitNodes \ Loopback ELSE {}]
    /\ ops = [o \in Ops |-> NoOp] /\ gor = [o \in Ops |-> Idle]
    /\ restarted = {} /\ ranThen = [o \in Ops |-> {}]
    /\ retries = 0 /\ faults = 0

FindRunningByCluster == {o \in Ops : ops[o].status = "running"}

\* The operation is saved as running and its goroutine started; if the
\* execution record cannot be bound, the operation fails at once.  When that
\* cannot be saved, or the goroutine cannot load the operation, the row stays
\* running with nobody at work.
activate(o, op) ==
    \/ /\ ops' = [ops EXCEPT ![o] = [op EXCEPT !.status = "running"]]
       /\ gor' = [gor EXCEPT ![o] = IF op.done = Len(Steps(op)) THEN [Idle EXCEPT !.at = "end", !.res = "succeeded"]
                                   ELSE [Idle EXCEPT !.at = "run"]]
       /\ UNCHANGED faults
    \/ /\ Fault
       /\ ops' = [ops EXCEPT ![o] = [op EXCEPT !.status = "failed"]]
       /\ UNCHANGED gor
    \/ /\ Fault
       /\ ops' = [ops EXCEPT ![o] = [op EXCEPT !.status = "running"]]
       /\ gor' = [gor EXCEPT ![o] = [Idle EXCEPT !.at = "lost"]]

\* A user submits the next operation; the lock of the cluster makes it one step.
submit(o, op) ==
    /\ ops[o].status = "none" /\ \A p \in 1..(o - 1) : ops[p].status # "none"
    /\ FindRunningByCluster = {}
    /\ CanSubmit(op)
    /\ activate(o, op)
    /\ UNCHANGED <<world, restarted, ranThen, retries>>

SubmitScaleOut(o) == \E n \in Nodes, roll \in BOOLEAN :
    /\ roll => planRollingRestart # {}
    /\ submit(o, PlanScaleOut(n, roll))
SubmitScaleIn(o) == \E n \in Nodes : submit(o, PlanScaleIn(n))

\* Mutant: a retry does not look for a running operation.
RetryOperation_NoLook(o) ==
    /\ retries < MaxRetries /\ retries' = retries + 1
    /\ ops[o].status = "failed"
    /\ activate(o, [ops[o] EXCEPT !.cur = "pending"])
    /\ UNCHANGED <<world, restarted, ranThen>>

\* Mutant: a retry plans again, and goes on in the new plan.
RetryOperation_Replan(o) ==
    LET fresh == IF ops[o].kind = "out" THEN PlanScaleOut(ops[o].node, ops[o].roll # {}) ELSE PlanScaleIn(ops[o].node)
    IN  /\ retries < MaxRetries /\ retries' = retries + 1
        /\ ops[o].status = "failed"
        /\ FindRunningByCluster = {}
        /\ activate(o, [fresh EXCEPT !.done = ops[o].done, !.baseline = ops[o].baseline, !.ref = ops[o].ref])
        /\ UNCHANGED <<world, restarted, ranThen>>

RetryOperation(o) ==
    /\ retries < MaxRetries /\ retries' = retries + 1
    /\ ops[o].status = "failed"
    /\ FindRunningByCluster = {}
    /\ activate(o, [ops[o] EXCEPT !.cur = "pending"])
    /\ UNCHANGED <<world, restarted, ranThen>>

\* Mutant: what was running keeps its status.
RecoverInterruptedOperations_Keep ==
    /\ Fault
    /\ gor' = [o \in Ops |-> Idle]
    /\ UNCHANGED <<world, ops, restarted, ranThen, retries>>

\* The control plane stops and starts again: goroutines are gone, and what was
\* running is marked failed before the first request, unless it cannot be
\* listed or saved: then it stays running with nobody at work.
RecoverInterruptedOperations ==
    \E missed \in {{}, FindRunningByCluster} :
        /\ faults' = faults + (IF missed = {} THEN 1 ELSE 2) /\ faults' <= MaxFaults
        /\ gor' = [o \in Ops |-> IF o \in missed THEN [Idle EXCEPT !.at = "lost"] ELSE Idle]
        /\ ops' = [o \in Ops |-> IF o \in missed \/ ops[o].status # "running" THEN ops[o]
                                 ELSE [ops[o] EXCEPT !.status = "failed",
                                                     !.cur = IF @ = "running" THEN "failed" ELSE @]]
        /\ UNCHANGED <<world, restarted, ranThen, retries>>

\* The outcome of the running step is saved.  A save that fails ends the run;
\* what it carried is saved with the end of the operation.
SaveOutcome(o) ==
    LET res == gor[o].res
        op  == IF res \in Done THEN [ops[o] EXCEPT !.done = @ + 1, !.cur = "pending"]
               ELSE [ops[o] EXCEPT !.cur = "failed"]
        last == res \notin Done \/ op.done = Len(Steps(op))
    IN  /\ gor[o].at = "out"
        /\ ops' = [ops EXCEPT ![o] = op]
        /\ \/ /\ gor' = [gor EXCEPT ![o] = [Idle EXCEPT !.at = IF last THEN "end" ELSE "run", !.res = res]]
              /\ UNCHANGED faults
           \/ /\ Fault
              /\ gor' = [gor EXCEPT ![o] = [Idle EXCEPT !.at = "end", !.res = "failed"]]
        /\ UNCHANGED <<world, restarted, ranThen, retries>>

\* The end is saved, unless that save fails: then the row stays running.
finishOperation(o) ==
    /\ gor[o].at = "end"
    /\ \/ /\ ops' = [ops EXCEPT ![o].status = IF gor[o].res \in Done THEN "succeeded" ELSE "failed"]
          /\ gor' = [gor EXCEPT ![o] = Idle]
          /\ UNCHANGED faults
       \/ /\ Fault
          /\ gor' = [gor EXCEPT ![o] = [Idle EXCEPT !.at = "lost"]]
          /\ UNCHANGED ops
    /\ UNCHANGED <<world, restarted, ranThen, retries>>

-----------------------------------------------------------------------------
(* The steps.  A step is saved as running with its first effect, and ends  *)
(* by handing its outcome to SaveOutcome.                                  *)

Returns(o, res) == gor' = [gor EXCEPT ![o] = [Idle EXCEPT !.at = "out", !.res = res]]
Goes(o, g)      == gor' = [gor EXCEPT ![o] = g]
Marks(o)        == ops' = [ops EXCEPT ![o].cur = "running"]
hosts  == <<running, exiting, sees>>
lists  == <<file, want>>

stepValidatePlan(o) ==
    /\ At(o, "validate_plan")
    /\ IF ops[o].kind = "out" /\ validateSubmittedPlan(ops[o])
       THEN \E missed \in Misread(records) :
              /\ Missing(missed) /\ status' = Refreshed(missed)
              /\ ops' = [ops EXCEPT ![o].cur = "running", ![o].baseline = runningIn(Refreshed(missed))]
              /\ ranThen' = [ranThen EXCEPT ![o] = (records \cap running \cap agents) \ missed]
              /\ Returns(o, "succeeded")
       ELSE /\ Marks(o)
            /\ Returns(o, IF validateSubmittedPlan(ops[o]) THEN "succeeded" ELSE "failed")
            /\ UNCHANGED <<status, ranThen, faults>>
    /\ UNCHANGED <<records, agents, hosts, lists, restarted, retries>>

\* The full list of the plan is written, then the loopback nodes that are not
\* healthy by then restart one by one.
stepFixLoopback(o) ==
    /\ At(o, "fix_loopback")
    /\ Marks(o)
    /\ IF ops[o].loop \subseteq records
       THEN /\ \E lost \in {{}} \cup (IF faults < MaxFaults THEN {{n} : n \in records} ELSE {}) :
                 /\ faults' = faults + Cardinality(lost)
                 /\ Pushes(records, ops[o].after, lost)
                 /\ IF Pending(records, lost) \cap ops[o].loop # {} THEN Returns(o, "failed")
                    ELSE Goes(o, [Idle EXCEPT !.at = "fix", !.todo = ops[o].loop])
       ELSE Returns(o, "failed") /\ UNCHANGED <<lists, faults>>
    /\ UNCHANGED <<records, status, agents, hosts, restarted, ranThen, retries>>

\* RestartNode, sent to an online agent for a node that has a record.
RestartNode(n) == n \in records \cap agents /\ Starts(n) /\ status' = [status EXCEPT ![n] = "running"]
RestartFails(n) ==
    /\ n \in records \cap agents /\ Fault
    /\ Stops(n) /\ status' = [status EXCEPT ![n] = "error"]
    /\ UNCHANGED restarted

\* The node that was restarted last has to recover before the next one.
FixNext(o) ==
    /\ gor[o].at = "fix"
    /\ LET n    == CHOOSE m \in gor[o].todo : TRUE
           Rest == [gor[o] EXCEPT !.todo = @ \ {n}, !.expected = {n}]
           recovered == \A m \in gor[o].expected : healthy(m)
       IN  \/ /\ gor[o].todo = {} /\ recovered /\ Returns(o, "succeeded")
              /\ UNCHANGED <<status, hosts, restarted, faults>>
           \/ /\ gor[o].todo # {} /\ recovered /\ healthy(n) /\ Goes(o, Rest)
              /\ UNCHANGED <<status, hosts, restarted, faults>>
           \/ /\ gor[o].todo # {} /\ recovered /\ ~healthy(n) /\ RestartNode(n) /\ Goes(o, Rest)
              /\ UNCHANGED faults
           \/ /\ gor[o].todo # {} /\ recovered /\ ~healthy(n) /\ RestartFails(n) /\ Returns(o, "failed")
           \/ /\ \/ ~recovered \/ (gor[o].todo # {} /\ n \notin records \cap agents)
                 /\ UNCHANGED faults
              /\ Returns(o, "failed") /\ UNCHANGED <<status, hosts, restarted>>
    /\ UNCHANGED <<records, agents, lists, ops, ranThen, retries>>

\* The installer writes the files and the record and does not start the node; when
\* it fails, the record may be there already.
stepInstallFiles(o) ==
    LET n == ops[o].node IN
    /\ At(o, "install_files")
    /\ Marks(o)
    /\ \/ /\ n \in agents /\ Returns(o, "succeeded")
          /\ records' = records \cup {n}
          /\ Pushes({n}, records \cup {n}, {})
          /\ UNCHANGED faults
       \/ /\ IF n \in agents THEN Fault ELSE UNCHANGED faults
          /\ Returns(o, "failed")
          /\ records' \in {records} \cup (IF n \in agents THEN {records \cup {n}} ELSE {})
          /\ UNCHANGED lists
    /\ UNCHANGED <<status, agents, hosts, restarted, ranThen, retries>>

\* The record is made or refreshed, unless the host is already known to be
\* offline; a registered node that runs is also recorded as running.
stepRegisterNode(o) ==
    LET n == ops[o].node IN
    /\ At(o, "register_node")
    /\ \/ /\ n \notin agents
          /\ Marks(o) /\ Returns(o, "failed") /\ UNCHANGED <<records, status, faults>>
       \/ /\ records' = records \cup {n}
          /\ ops' = [ops EXCEPT ![o].cur = "running", ![o].ref = "live"]
          /\ \E missed \in Misread({n}) :
                /\ Missing(missed)
                /\ status' = IF ops[o].mode = "register" THEN [status EXCEPT ![n] = Checked(n, missed)] ELSE status
          /\ Returns(o, "succeeded")
    /\ UNCHANGED <<agents, hosts, lists, restarted, ranThen, retries>>

\* A new node gets the cluster's templates with the full list; one that is
\* registered keeps its files.
stepApplyConfigs(o) ==
    LET n == ops[o].node IN
    /\ At(o, "apply_configs")
    /\ Marks(o)
    /\ IF ops[o].ref = "live" /\ n \in agents
       THEN \/ /\ IF ops[o].mode = "install" THEN Pushes({n}, records, {})
                  ELSE want' = [want EXCEPT ![n] = file[n]] /\ UNCHANGED file
               /\ Returns(o, "succeeded") /\ UNCHANGED faults
            \/ Fault /\ Returns(o, "failed") /\ UNCHANGED lists
       ELSE Returns(o, "failed") /\ UNCHANGED <<lists, faults>>
    /\ UNCHANGED <<records, status, agents, hosts, restarted, ranThen, retries>>

\* Plugins that are missing do not stop the operation.
stepReplayPlugins(o) ==
    /\ At(o, "replay_plugins")
    /\ Marks(o)
    /\ Returns(o, IF ops[o].ref # "live" THEN "failed" ELSE IF ops[o].node \in agents THEN "succeeded" ELSE "partial")
    /\ UNCHANGED <<world, restarted, ranThen, counts>>

stepStartNode(o) ==
    LET n == ops[o].node IN
    /\ At(o, "start_node")
    /\ Marks(o)
    /\ IF ops[o].ref = "live" /\ n \in agents
       THEN \/ /\ IF n \in running THEN UNCHANGED <<hosts, restarted>> ELSE Starts(n)
               /\ status' = [status EXCEPT ![n] = "running"]
               /\ Returns(o, "succeeded") /\ UNCHANGED faults
            \/ /\ Fault
               /\ status' = [status EXCEPT ![n] = "error"]
               /\ Returns(o, "failed") /\ UNCHANGED <<hosts, restarted>>
       ELSE Returns(o, "failed") /\ UNCHANGED <<status, hosts, restarted, faults>>
    /\ UNCHANGED <<records, agents, lists, ranThen, retries>>

\* The list of the current nodes, without the one that goes, is written to the
\* config of every node.
stepPatchMembers(o) ==
    LET op      == ops[o]
        members == IF op.kind = "in" /\ op.ref = "live" THEN records \ {op.node} ELSE records
    IN  /\ At(o, "patch_members")
        /\ Marks(o)
        /\ IF members = {} THEN Returns(o, "failed") /\ UNCHANGED <<lists, faults>>
           ELSE \E lost \in {{}} \cup (IF faults < MaxFaults THEN {{n} : n \in records \cap agents} ELSE {}) :
                  /\ faults' = faults + Cardinality(lost)
                  /\ Pushes(records, members, lost)
                  /\ Returns(o, IF Pending(records, lost) = {} THEN "succeeded" ELSE "partial")
        /\ UNCHANGED <<records, status, agents, hosts, restarted, ranThen, retries>>

\* Mutant: what runs now, so that a node that died is no longer asked for.
joinBaseline_Now(o) == runningIn(Refreshed({})) \ {ops[o].node}

\* What the new node has to see beside itself: what ran at the validation.
joinBaseline(o) == ops[o].baseline

\* The new node is probed until it sees itself and the baseline, or too long.
stepVerifyMembership(o) ==
    LET n == ops[o].node IN
    /\ At(o, "verify_membership")
    /\ Marks(o)
    /\ IF ops[o].ref = "live"
       THEN /\ \E missed \in Misread(records) : Missing(missed) /\ status' = Refreshed(missed)
            /\ Returns(o, IF n \in agents \cap running /\ joinBaseline(o) \cup {n} \subseteq sees[n]
                          THEN "succeeded" ELSE "failed")
       ELSE Returns(o, "failed") /\ UNCHANGED <<status, faults>>
    /\ UNCHANGED <<records, agents, hosts, lists, restarted, ranThen, retries>>

\* What is found running now is what each restarted node has to see.
stepRollingRestart(o) ==
    /\ At(o, "rolling_restart")
    /\ Marks(o)
    /\ \E missed \in Misread(records) :
          /\ Missing(missed) /\ status' = Refreshed(missed)
          /\ Goes(o, [at |-> "roll", res |-> "succeeded", todo |-> ops[o].roll,
                      expected |-> runningIn(Refreshed(missed))])
    /\ UNCHANGED <<records, agents, hosts, lists, restarted, ranThen, retries>>

\* A node that is restarted waits until it sees all the others; nodes that are
\* gone or offline are skipped.
RollNext(o) ==
    /\ gor[o].at = "roll" /\ gor[o].todo # {}
    /\ LET n       == CHOOSE m \in gor[o].todo : TRUE
           Rest(r) == [gor[o] EXCEPT !.todo = @ \ {n}, !.res = r]
       IN  \/ /\ n \notin records \cap agents /\ Goes(o, Rest("partial"))
              /\ UNCHANGED <<status, hosts, restarted, faults>>
           \/ /\ RestartNode(n) /\ Goes(o, [Rest(gor[o].res) EXCEPT !.at = "rejoin", !.todo = gor[o].todo])
              /\ UNCHANGED faults
           \/ RestartFails(n) /\ Returns(o, "failed")
    /\ UNCHANGED <<records, agents, lists, ops, ranThen, retries>>

RollRejoined(o) ==
    /\ gor[o].at = "rejoin"
    /\ LET n == CHOOSE m \in gor[o].todo : TRUE
       IN  IF n \in agents \cap running /\ gor[o].expected \subseteq sees[n]
           THEN Goes(o, [gor[o] EXCEPT !.at = "roll", !.todo = @ \ {n}])
           ELSE Returns(o, "failed")
    /\ UNCHANGED <<world, ops, restarted, ranThen, counts>>

RollEnds(o) ==
    /\ gor[o].at = "roll" /\ gor[o].todo = {}
    /\ Returns(o, gor[o].res)
    /\ UNCHANGED <<world, ops, restarted, ranThen, counts>>

\* Mutant: a node whose agent does not answer is taken for stopped.
knownStopped_Silent(n) == n \notin agents \/ n \notin running

\* What check_process tells of a node: nothing while its agent is offline.
knownStopped(n) == n \in agents /\ n \notin running

\* A step takes n for stopped: it is, or its check fails.
FindsStopped(n) ==
    \/ knownStopped(n) /\ restarted' = restarted \ {n} /\ UNCHANGED faults
    \/ n \in agents \cap running /\ Fault /\ restarted' = restarted \cup {n}

stepStopNode(o) ==
    LET n == ops[o].node IN
    /\ At(o, "stop_node")
    /\ Marks(o)
    /\ \/ /\ ops[o].ref = "gone" /\ Returns(o, "skipped")
          /\ UNCHANGED <<status, exiting, restarted, faults>>
       \/ /\ ops[o].ref = "live" /\ n \notin agents /\ Returns(o, "failed")
          /\ UNCHANGED <<status, exiting, restarted, faults>>
       \/ /\ ops[o].ref = "live" /\ FindsStopped(n) /\ Returns(o, "succeeded")
          /\ status' = [status EXCEPT ![n] = "stopped"] /\ UNCHANGED exiting
       \/ /\ ops[o].ref = "live" /\ n \in agents \cap running
          /\ \/ /\ Goes(o, [Idle EXCEPT !.at = "stop"])
                /\ exiting' = exiting \cup {n}
                /\ status' = [status EXCEPT ![n] = "stopped"] /\ UNCHANGED faults
             \/ /\ Fault /\ Returns(o, "failed")
                /\ status' = [status EXCEPT ![n] = "error"] /\ UNCHANGED exiting
          /\ UNCHANGED restarted
    /\ UNCHANGED <<records, agents, running, sees, lists, ranThen, retries>>

\* After StopNode the process is watched until it is found to be gone, or too long.
WatchExit(o) ==
    LET n == ops[o].node IN
    /\ gor[o].at = "stop"
    /\ \/ FindsStopped(n) /\ Returns(o, "succeeded")
       \/ ~knownStopped(n) /\ Returns(o, "failed") /\ UNCHANGED <<restarted, faults>>
    /\ UNCHANGED <<world, ops, ranThen, retries>>

\* The record is deleted with the host's configs.
stepCleanupRecords(o) ==
    LET n == ops[o].node IN
    /\ At(o, "cleanup_records")
    /\ IF ops[o].ref = "live"
       THEN /\ records' = records \ {n}
            /\ status' = [status EXCEPT ![n] = "stopped"]
            /\ want' = [want EXCEPT ![n] = file[n]]
            /\ ops' = [Forget(n) EXCEPT ![o].cur = "running"]
       ELSE Marks(o) /\ UNCHANGED <<records, status, want>>
    /\ Returns(o, "succeeded")
    /\ UNCHANGED <<agents, hosts, file, restarted, ranThen, counts>>

stepRefreshMonitor(o) ==
    /\ At(o, "refresh_monitor")
    /\ Marks(o)
    /\ Returns(o, IF ops[o].node \in agents THEN "succeeded" ELSE "partial")
    /\ UNCHANGED <<world, restarted, ranThen, counts>>

\* A node that runs, a master if there is one, sees as many members as run
\* and not the one that went.
stepVerifyScaleIn(o) ==
    /\ At(o, "verify")
    /\ Marks(o)
    /\ \E missed \in Misread(records) :
          LET runs   == runningIn(Refreshed(missed))
              online == runs \cap agents
              probed == IF online \cap Masters # {} THEN online \cap Masters ELSE online
          IN  /\ Missing(missed) /\ status' = Refreshed(missed)
              /\ IF probed = {} THEN Returns(o, "skipped")
                 ELSE \E p \in probed :
                        Returns(o, IF count(p) = Cardinality(runs) /\ ops[o].node \notin sees[p]
                                   THEN "succeeded" ELSE "failed")
    /\ UNCHANGED <<records, agents, hosts, lists, restarted, ranThen, retries>>

-----------------------------------------------------------------------------
(* Users, agents and processes.                                            *)

ByUser == Fault /\ UNCHANGED <<agents, gor, ranThen, retries>>

StartNode(n) ==
    /\ n \in (records \cap agents) \ running /\ ByUser
    /\ Starts(n) /\ status' = [status EXCEPT ![n] = "running"]
    /\ UNCHANGED <<records, lists, ops>>

StopNode(n) ==
    /\ n \in records \cap agents \cap running /\ ByUser
    /\ Stops(n) /\ status' = [status EXCEPT ![n] = "stopped"]
    /\ UNCHANGED <<records, lists, ops, restarted>>

\* Only the record is removed, and the lists of the others follow.
RemoveNode(n) ==
    /\ n \in records /\ ByUser
    /\ records' = records \ {n}
    /\ status' = [status EXCEPT ![n] = "stopped"]
    /\ ops' = Forget(n)
    /\ LET rest == records \ {n}
       IN  /\ want' = [m \in Nodes |-> IF m \in rest THEN rest ELSE file[m]]
           /\ file' = [m \in Nodes |-> IF m \in rest \cap agents THEN rest ELSE file[m]]
    /\ UNCHANGED <<hosts, restarted>>

ProcessExits(n) ==
    /\ n \in exiting /\ Stops(n)
    /\ UNCHANGED <<records, status, agents, lists, ops, gor, restarted, ranThen, counts>>

ProcessDies(n) ==
    /\ n \in running \ exiting /\ Fault /\ Stops(n)
    /\ UNCHANGED <<records, status, agents, lists, ops, gor, restarted, ranThen, retries>>

AgentGoesOffline(n) ==
    /\ n \in agents /\ Fault
    /\ agents' = agents \ {n}
    /\ UNCHANGED <<records, status, hosts, lists, ops, gor, restarted, ranThen, retries>>

\* What is pending for the host is pushed again.
AgentReconnects(n) ==
    /\ n \notin agents
    /\ agents' = agents \cup {n}
    /\ file' = [file EXCEPT ![n] = IF n \in records THEN want[n] ELSE @]
    /\ UNCHANGED <<records, status, hosts, want, ops, gor, restarted, ranThen, counts>>

-----------------------------------------------------------------------------

runStep(o) ==
    \/ stepValidatePlan(o) \/ stepFixLoopback(o) \/ FixNext(o) \/ stepInstallFiles(o) \/ stepRegisterNode(o)
    \/ stepApplyConfigs(o) \/ stepReplayPlugins(o) \/ stepStartNode(o) \/ stepPatchMembers(o)
    \/ stepVerifyMembership(o) \/ stepRollingRestart(o) \/ RollNext(o) \/ RollRejoined(o) \/ RollEnds(o)
    \/ stepStopNode(o) \/ WatchExit(o) \/ stepCleanupRecords(o) \/ stepRefreshMonitor(o) \/ stepVerifyScaleIn(o)

runOperation(o) == runStep(o) \/ SaveOutcome(o) \/ finishOperation(o)

Next ==
    \/ \E o \in Ops : SubmitScaleOut(o) \/ SubmitScaleIn(o) \/ RetryOperation(o) \/ runOperation(o)
    \/ RecoverInterruptedOperations
    \/ \E n \in Nodes : StartNode(n) \/ StopNode(n) \/ RemoveNode(n)
    \/ \E n \in Nodes : ProcessExits(n) \/ ProcessDies(n) \/ AgentGoesOffline(n) \/ AgentReconnects(n)

Spec == Init /\ [][Next]_vars

\* Goroutines go on; every call of a step and every wait has a timeout.
FairSpec == Spec /\ \A o \in Ops : WF_vars(runOperation(o))

-----------------------------------------------------------------------------
(* Properties.                                                             *)

Statuses == {"none", "running", "succeeded", "failed"}
Op == [kind : {"none", "out", "in"}, node : Nodes, mode : {"none", "install", "register"},
       loop : SUBSET Nodes, after : SUBSET Nodes, roll : SUBSET Nodes, status : Statuses,
       done : 0..11, cur : {"pending", "running", "failed"}, baseline : SUBSET Nodes,
       ref : {"none", "live", "gone"}]

\* Every variable has its type; a live reference names a node with a record,
\* and only running operations have a goroutine.
TypeOK ==
    /\ {records, agents, running, exiting, restarted} \subseteq SUBSET Nodes
    /\ exiting \subseteq running
    /\ status \in [Nodes -> {"running", "stopped", "error"}]
    /\ {file, want, sees} \subseteq [Nodes -> SUBSET Nodes]
    /\ ops \in [Ops -> Op] /\ ranThen \in [Ops -> SUBSET Nodes]
    /\ gor \in [Ops -> [at : {"none", "run", "out", "end", "lost", "fix", "roll", "rejoin", "stop"},
                        res : Done \cup {"none", "failed"}, todo : SUBSET Nodes, expected : SUBSET Nodes]]
    /\ \A o \in Ops : ops[o].done <= Len(Steps(ops[o]))
                      /\ (ops[o].ref = "live" => ops[o].node \in records)
    /\ {retries, faults} \subseteq Nat

\* One operation at a time works on the cluster, whatever is submitted or
\* retried, also after saves that failed and after restarts.
OneAtATime ==
    \A o, p \in Ops : o # p /\ gor[o].at \notin {"none", "lost"} => ops[p].status # "running"

\* A scale-out takes its node for joined only when it is in one cluster with
\* every node on an online host that ran when the operation was validated
\* (and whose check did not fail then): whatever died, restarted or was retried
\* since, and never when it has formed a cluster of its own.
JoinIsReal ==
    [][\A o \in Ops : At(o, "verify_membership") /\ gor'[o].at = "out" /\ gor'[o].res \in Done
         => ranThen[o] \cup {ops[o].node} \subseteq sees[ops[o].node]]_vars

\* A scale-in deletes the record of a process that runs only if the process
\* was started after the operation had found it stopped, or if the check that
\* found it so had failed: never because its agent did not answer.
CleanupFindsStopped ==
    [][\A o \in Ops : At(o, "cleanup_records") /\ gor'[o].at = "out" /\ ops[o].node \in records \ records'
         => ops[o].node \notin running \/ ops[o].node \in restarted]_vars

\* An operation ends, through crashes and failures, and leaves the cluster to the
\* next one (FindRunningByCluster), unless nobody is at work on it: its goroutine
\* could not load it, or its end, the failure of its start or its interruption
\* by a restart could not be saved.  Then it keeps the cluster until a restart of
\* the control plane that can save it as failed.
OperationEnds ==
    (\E o \in Ops : ops[o].status = "running")
        ~> (\A o \in Ops : ops[o].status = "running" => gor[o].at = "lost")

\* What an operation is about, and how many steps that takes.
Plan(o) == [kind |-> ops[o].kind, node |-> ops[o].node, mode |-> ops[o].mode,
            loop |-> ops[o].loop, after |-> ops[o].after, roll |-> ops[o].roll]

Promise == INSTANCE ScaleOutcome WITH
    plan   <- [o \in Ops |-> Plan(o)],
    size   <- [o \in Ops |-> Len(Steps(ops[o]))],
    done   <- [o \in Ops |-> ops[o].done],
    status <- [o \in Ops |-> ops[o].status]

\* The operations of a cluster keep that promise: one at a time is under way, a
\* retry goes on with the plan of the submit after the steps that are done, and
\* a success is the end of all of them, through failed saves and restarts (submit,
\* RetryOperation, runOperation).
ScalesAsPlanned == Promise!Spec
=============================================================================
