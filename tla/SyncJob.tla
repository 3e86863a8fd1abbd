------------------------------- MODULE SyncJob -------------------------------
(***************************************************************************)
(* One run of a synchronisation task: its job row, its execution record    *)
(* and the job in the SeaTunnel engine.                                    *)
(*   - the runner submits the job and records it (internal/apps/sync/      *)
(*     execution.go runWithExecution, service.go                           *)
(*     submitTaskInstanceWithPayload),                                     *)
(*   - observers carry the engine's answers into the row: the reconciler   *)
(*     (job_reconciler.go), and refreshes on events or on request,         *)
(*   - cancellers stop it, through the job (service.go CancelJob) or       *)
(*     through the execution (internal/apps/execution/service.go Cancel).  *)
(* Each works on a copy of the row it loaded earlier; only a refresh, which *)
(* holds no list of rows, is one step.  Times are left out: late says that *)
(* the deadline of an unknown submit has passed.  The engine's FAILING,     *)
(* which a row shows until it is FAILED, counts as running.                *)
(***************************************************************************)
EXTENDS Integers

CONSTANTS
    Cancellers,   \* callers that may stop the job
    MaxCancels,   \* bound: stop requests
    MaxCrashes    \* bound: restarts of the control plane

ASSUME CancellersAssumption == Cancellers \cap {"runner", "reconciler"} = {}
ASSUME BoundsAssumption     == MaxCancels \in Nat /\ MaxCrashes \in Nat

Actors == {"runner", "reconciler"} \cup Cancellers

VARIABLES
    recover,   \* the run resumes an earlier one from its savepoint, under its job id
    row,       \* the job instance row
    exec,      \* the execution record
    engine,    \* the job in the engine
    late,      \* the deadline for confirming an unknown submit has passed
    act,       \* what each actor is doing, and its copies of row and record
    givenUp,   \* history: an unknown submit has expired, or a plain stop has closed
               \* the row of a job that was taking its savepoint
    cancels, crashes

vars == <<recover, row, exec, engine, late, act, givenUp, cancels, crashes>>

-----------------------------------------------------------------------------
(* Statuses.                                                               *)

Final      == {"success", "failed", "canceled", "savepoint_done"}
Cancelling == {"cancel_requested", "cancelling", "doing_savepoint"}
JobStatus  == Final \cup Cancelling \cup {"none", "pending", "running"}

ExecFinal  == {"succeeded", "failed", "cancelled"}
ExecStatus == ExecFinal \cup {"pending", "running", "cancel_requested", "cancelling"}

\* Engine states in which the job exists and has not ended.
Alive     == {"running", "savepointing", "canceling"}
Ended     == {"finished", "failed", "canceled", "savepoint_done"}
\* Not there (yet): the call is on its way, was lost, or the job is forgotten.
Absent    == {"none", "inflight", "lost", "gone"}

\* What the engine answers of the job; "" is an empty shell.  Before a
\* resumed run is registered the engine may still show the earlier one.
Answers ==
    CASE engine = "running"        -> {"RUNNING"}
      [] engine = "savepointing"   -> {"DOING_SAVEPOINT"}
      [] engine = "canceling"      -> {"CANCELING"}
      [] engine = "finished"       -> {"FINISHED"}
      [] engine = "failed"         -> {"FAILED"}
      [] engine = "canceled"       -> {"CANCELED"}
      [] engine = "savepoint_done" -> {"SAVEPOINT_DONE"}
      [] engine = "gone"           -> {""}
      [] OTHER                     -> IF recover THEN {"", "SAVEPOINT_DONE"} ELSE {""}

normalizeJobStatus ==
    [RUNNING |-> "running", DOING_SAVEPOINT |-> "doing_savepoint",
     CANCELING |-> "cancelling", FINISHED |-> "success", FAILED |-> "failed",
     CANCELED |-> "canceled", SAVEPOINT_DONE |-> "savepoint_done"]

isFinalEngineJobStatus(raw) ==
    raw \in {"FINISHED", "FAILED", "CANCELED", "SAVEPOINT_DONE"}

\* Mutant: a job that is being stopped takes whatever the engine answers.
ObservedStatus_Raw(old, raw) ==
    IF old \in Final \/ raw = "" THEN old ELSE normalizeJobStatus[raw]

\* The status a row takes when the engine answers raw.
ObservedStatus(old, raw) ==
    IF old \in Final THEN old
    ELSE IF raw = ""
    THEN IF old \in {"cancel_requested", "cancelling"} THEN "canceled" ELSE old
    ELSE LET new == normalizeJobStatus[raw] IN
         IF old \in Cancelling
         THEN CASE new = "running" -> old
                [] new = "success" -> "canceled"
                [] OTHER           -> new
         ELSE new

\* Mutant: the record takes the name of the job's status.
executionStatusFromJob_Same(status) == status

executionStatusFromJob(status) ==
    CASE status \in {"pending", "cancel_requested", "cancelling", "failed"} -> status
      [] status = "canceled" -> "cancelled"
      [] status = "success"  -> "succeeded"
      [] OTHER               -> "running"

CanTransition(from, to) ==
    \/ from = to
    \/ from = "pending"          /\ to \in {"running", "cancel_requested", "cancelled", "failed"}
    \/ from = "running"          /\ to \in {"cancel_requested", "succeeded", "failed"}
    \/ from = "cancel_requested" /\ to \in {"running", "cancelling", "cancelled", "succeeded", "failed"}
    \/ from = "cancelling"       /\ to \in {"cancelled", "failed"}

\* The next status on the way to target; from itself when there is none.
nextExecutionStatus(from, target) ==
    IF CanTransition(from, target) THEN target
    ELSE CASE from \in {"pending", "running"} /\ target \in {"cancelling", "cancelled"} -> "cancel_requested"
           [] from = "pending" /\ target = "succeeded" -> "running"
           [] OTHER -> from

staleExecutionRefresh(current, target) ==
    \/ current = "running"          /\ target = "pending"
    \/ current = "cancel_requested" /\ target = "pending"
    \/ current = "cancelling"       /\ target \in {"pending", "running", "cancel_requested"}

-----------------------------------------------------------------------------
(* State.                                                                  *)

\* sp: the runtime status shows DOING_SAVEPOINT; bound: the execution id is set.
Row  == [status : JobStatus, outcome : {"known", "unknown", "expired"}, sp : BOOLEAN, bound : BOOLEAN]
Exec == [status : ExecStatus, ref : BOOLEAN, cancellable : BOOLEAN]

NoRow   == [status |-> "none", outcome |-> "known", sp |-> FALSE, bound |-> FALSE]
NewExec == [status |-> "pending", ref |-> FALSE, cancellable |-> TRUE]
Idle    == [pc |-> "idle", job |-> NoRow, item |-> NewExec, how |-> "plain", prev |-> "none"]

TypeOK ==
    /\ recover \in BOOLEAN
    /\ row \in Row
    /\ exec \in Exec
    /\ engine \in Alive \cup Ended \cup Absent
    /\ late \in BOOLEAN /\ givenUp \in BOOLEAN
    /\ act \in [Actors -> [pc : {"idle", "done",
                                 "wait", "save", "bind",
                                 "query", "expire",
                                 "claim", "ask", "request", "stop", "restore", "mark", "force", "close", "finish",
                                 "get", "move"},
                           job : Row, item : Exec,
                           how : {"plain", "savepoint", "execution"},
                           prev : {"none", "pending", "running"}]]
    /\ cancels \in 0 .. MaxCancels /\ crashes \in 0 .. MaxCrashes

\* The execution has just been created, and no other submit of the task is
\* waiting for its confirmation.
Init ==
    /\ recover \in BOOLEAN
    /\ row = NoRow /\ exec = NewExec
    /\ engine = "none" /\ late = FALSE /\ givenUp = FALSE
    /\ act = [a \in Actors |-> Idle]
    /\ cancels = 0 /\ crashes = 0

Become(a, state) == act' = [act EXCEPT ![a] = state]
Goto(a, pc)      == Become(a, [act[a] EXCEPT !.pc = pc])

\* The end of a handler: Execution.Cancel goes on to its own transition unless
\* CancelJob failed.
Returned(a, ok, job) ==
    IF ok /\ act[a].how = "execution"
    THEN [Idle EXCEPT !.pc = "finish", !.job.status = job.status, !.how = "execution"]
    ELSE Idle

\* syncExecutionFromJob does nothing for a row without an execution id; then
\* it looks at the status only.
Sync(a, job, how) ==
    IF job.bound THEN [Idle EXCEPT !.pc = "get", !.job.status = job.status, !.how = how]
    ELSE Returned(a, TRUE, job)

\* How a canceller goes on after the sync.
Through(a) == IF act[a].how = "execution" THEN "execution" ELSE "plain"

-----------------------------------------------------------------------------
(* The execution follows the job: syncExecutionFromJob reads it, then      *)
(* moves it step by step, each step expecting the status it knows.  For    *)
(* the runner and a refresh all this is one step, Synced: the others'      *)
(* syncs are open to it at every point.                                    *)

\* A stop that was asked for through the execution ends it as cancelled.
Target(status, item) ==
    LET target == executionStatusFromJob(status) IN
    IF item \in {"cancelling", "cancel_requested"} /\ target = "succeeded" THEN "cancelled" ELSE target

Synced(status) ==
    LET target == Target(status, exec.status) IN
    IF exec.status \in ExecFinal \cup {target} \/ staleExecutionRefresh(exec.status, target) THEN exec
    ELSE [exec EXCEPT !.status = target, !.cancellable = status \notin Final]

SyncGet(a) ==
    /\ act[a].pc = "get"
    /\ Become(a, IF Synced(act[a].job.status) = exec THEN Returned(a, TRUE, act[a].job)
                 ELSE [act[a] EXCEPT !.pc = "move", !.item.status = exec.status])
    /\ UNCHANGED <<recover, row, exec, engine, late, givenUp, cancels, crashes>>

SyncMove(a) ==
    /\ act[a].pc = "move"
    /\ LET item   == act[a].item
           target == Target(act[a].job.status, item.status)
           next   == nextExecutionStatus(item.status, target)
       IN IF next = item.status \/ exec.status # item.status
          THEN Become(a, Returned(a, FALSE, NoRow)) /\ UNCHANGED exec
          ELSE /\ exec' = [exec EXCEPT !.status = next, !.cancellable = act[a].job.status \notin Final]
               /\ IF next = target THEN Become(a, Returned(a, TRUE, act[a].job))
                  ELSE Become(a, [act[a] EXCEPT !.item.status = next])
    /\ UNCHANGED <<recover, row, engine, late, givenUp, cancels, crashes>>

-----------------------------------------------------------------------------
(* The runner.                                                             *)

Submit ==
    /\ act["runner"].pc = "idle"
    /\ Goto("runner", "wait")
    /\ engine' = "inflight"
    /\ UNCHANGED <<recover, row, exec, late, givenUp, cancels, crashes>>

\* Nothing was sent, or the engine refused: no row, and the execution fails.
SubmitRefused ==
    /\ act["runner"].pc = "wait" /\ engine = "inflight"
    /\ Goto("runner", "done")
    /\ engine' = "lost"
    /\ exec' = IF exec.status = "pending" THEN [exec EXCEPT !.status = "failed", !.cancellable = FALSE] ELSE exec
    /\ UNCHANGED <<recover, row, late, givenUp, cancels, crashes>>

\* The row is created, running or waiting for its confirmation.
Created(status, outcome) ==
    /\ act["runner"].pc = "wait"
    /\ row' = [NoRow EXCEPT !.status = status, !.outcome = outcome]
    /\ Become("runner", [act["runner"] EXCEPT !.pc = "save", !.job = row'])
    /\ UNCHANGED <<recover, exec, engine, late, givenUp, cancels, crashes>>

SubmitReplied             == engine \notin {"inflight", "lost"} /\ Created("running", "known")
recordUnknownSubmitOutcome == Created("pending", "unknown")

\* Save writes the whole row from the runner's copy.
SaveExecutionID ==
    /\ act["runner"].pc = "save"
    /\ row' = [act["runner"].job EXCEPT !.bound = TRUE]
    /\ Become("runner", [act["runner"] EXCEPT !.pc = "bind", !.job = row'])
    /\ UNCHANGED <<recover, exec, engine, late, givenUp, cancels, crashes>>

BindModuleRef ==
    /\ act["runner"].pc = "bind"
    /\ exec' = [Synced(act["runner"].job.status) EXCEPT !.ref = TRUE]
    /\ Become("runner", [Idle EXCEPT !.pc = "done"])
    /\ UNCHANGED <<recover, row, engine, late, givenUp, cancels, crashes>>

-----------------------------------------------------------------------------
(* Observers.                                                              *)

\* Mutant: a resumed run is confirmed by any status.
Waits_AnyStatus(job, raw) == job.outcome = "unknown" /\ raw = ""

\* An unknown submit is confirmed by a status only, and that of a resumed run
\* by a final one only after the deadline.
Waits(job, raw) ==
    /\ job.outcome = "unknown"
    /\ raw = "" \/ (recover /\ isFinalEngineJobStatus(raw) /\ ~late)

\* The row once the engine has answered raw to somebody who knew it as job.
Applied(job, raw) ==
    [row EXCEPT !.status  = ObservedStatus(job.status, raw),
                !.sp      = (raw = "DOING_SAVEPOINT"),
                !.outcome = IF job.outcome = "unknown" THEN "known" ELSE @]

\* UpdateJobStatus writes under the condition that the status is still expected.
UpdateJobStatus(expected, new) == IF row.status \in expected THEN row' = new ELSE UNCHANGED row

\* The reconciler lists the rows that are not final.
LoadJob ==
    /\ act["reconciler"].pc = "idle" /\ row.status \notin Final \cup {"none"}
    /\ Become("reconciler", [Idle EXCEPT !.pc = "query", !.job = row])
    /\ UNCHANGED <<recover, row, exec, engine, late, givenUp, cancels, crashes>>

\* The engine cannot be reached: recordJobSyncFailure counts it.
GetJobInfoFails ==
    /\ act["reconciler"].pc = "query"
    /\ Become("reconciler", Idle)
    /\ UNCHANGED <<recover, row, exec, engine, late, givenUp, cancels, crashes>>

\* Mutant: an unknown submit is never given up.
Expires_Never(job, raw) == FALSE

\* An unknown submit of which the engine knows nothing is given up after its
\* deadline.
Expires(job, raw) == job.outcome = "unknown" /\ raw = "" /\ late

\* The reconciler's update from the copy it has.
Update(job, raw) ==
    LET new == Applied(job, raw) IN
    /\ UpdateJobStatus({job.status}, new)
    /\ Become("reconciler", IF row.status # job.status THEN Idle
                            ELSE Sync("reconciler", [new EXCEPT !.bound = job.bound], "plain"))

\* The engine answers; a job it has forgotten has failed.
ReconcileJob ==
    /\ act["reconciler"].pc = "query"
    /\ \E raw \in Answers :
          LET job == act["reconciler"].job IN
          /\ ~Expires(job, raw)
          /\ IF Waits(job, raw) THEN UNCHANGED row /\ Become("reconciler", Idle)
             ELSE Update(job, IF raw = "" THEN "FAILED" ELSE raw)
    /\ UNCHANGED <<recover, exec, engine, late, givenUp, cancels, crashes>>

\* UpdateJobSyncMetadata writes the expired outcome whatever the row has become,
markExpired ==
    /\ act["reconciler"].pc = "query"
    /\ \E raw \in Answers : Expires(act["reconciler"].job, raw)
    /\ row' = [row EXCEPT !.outcome = "expired"]
    /\ Become("reconciler", [act["reconciler"] EXCEPT !.pc = "expire", !.job.outcome = "expired"])
    /\ givenUp' = TRUE
    /\ UNCHANGED <<recover, exec, engine, late, cancels, crashes>>

\* then the job has failed, if its status is still the one that was listed.
expireUnknownSubmit ==
    /\ act["reconciler"].pc = "expire"
    /\ Update(act["reconciler"].job, "FAILED")
    /\ UNCHANGED <<recover, exec, engine, late, givenUp, cancels, crashes>>

\* A refresh on an event, on request or for the metrics of a final row.
RefreshJob ==
    /\ row.status # "none"
    /\ \E raw \in Answers :
          /\ ~Waits(row, raw)
          /\ row' = Applied(row, raw)
          /\ exec' = IF row.bound THEN Synced(row'.status) ELSE exec
    /\ UNCHANGED <<recover, engine, late, act, givenUp, cancels, crashes>>

\* The deadline is a minute away at least: the runner has saved the row by then.
DeadlinePasses ==
    /\ row.outcome = "unknown" /\ ~late /\ act["runner"].pc # "save"
    /\ late' = TRUE
    /\ UNCHANGED <<recover, row, exec, engine, act, givenUp, cancels, crashes>>

Answered  == ReconcileJob \/ markExpired
Reconcile == LoadJob \/ Answered \/ expireUnknownSubmit

-----------------------------------------------------------------------------
(* Cancellers.                                                             *)

\* CancelJob loads the row: a final one is refused, one that is being stopped
\* is returned, unless a plain stop gives up on a savepoint.
CancelJob(c, how) ==
    Become(c, CASE row.status \in Final -> Idle
                [] row.status \notin Final \cup Cancelling ->
                       [Idle EXCEPT !.pc = "request", !.job = [row EXCEPT !.outcome = "known"], !.how = how]
                [] row.status \in Cancelling /\ how # "savepoint" /\ row.sp ->
                       [Idle EXCEPT !.pc = "force", !.job.bound = row.bound, !.how = how]
                [] OTHER -> IF how = "execution"
                            THEN [Idle EXCEPT !.pc = "finish", !.job.status = row.status, !.how = how]
                            ELSE Idle)

\* A stop of the job, plain or with a savepoint.
StopByJob(c) ==
    /\ act[c].pc = "idle" /\ cancels < MaxCancels
    /\ row.status # "none"
    /\ \E how \in {"plain", "savepoint"} : CancelJob(c, how)
    /\ cancels' = cancels + 1
    /\ UNCHANGED <<recover, row, exec, engine, late, givenUp, crashes>>

\* A stop of the execution: Execution.Cancel loads its record,
StopByExecution(c) ==
    /\ act[c].pc = "idle" /\ cancels < MaxCancels
    /\ exec.status \in {"pending", "running"} /\ exec.cancellable
    /\ Become(c, [Idle EXCEPT !.pc = "claim", !.how = "execution", !.item = exec])
    /\ cancels' = cancels + 1
    /\ UNCHANGED <<recover, row, exec, engine, late, givenUp, crashes>>

\* moves it first,
ClaimCancel(c) ==
    /\ act[c].pc = "claim"
    /\ IF exec.status = act[c].item.status
       THEN /\ exec' = [exec EXCEPT !.status = "cancel_requested"]
            /\ Become(c, [Idle EXCEPT !.pc = "ask", !.how = "execution", !.item.ref = act[c].item.ref])
       ELSE UNCHANGED exec /\ Become(c, Idle)
    /\ UNCHANGED <<recover, row, engine, late, givenUp, cancels, crashes>>

\* and asks the module; a record without a job has nothing to ask.
AskModule(c) ==
    /\ act[c].pc = "ask"
    /\ IF act[c].item.ref THEN CancelJob(c, "execution") ELSE Become(c, Idle)
    /\ UNCHANGED <<recover, row, exec, engine, late, givenUp, cancels, crashes>>

RequestCancel(c) ==
    /\ act[c].pc = "request"
    /\ UpdateJobStatus({"pending", "running"}, [row EXCEPT !.status = "cancel_requested", !.sp = act[c].job.sp])
    /\ Become(c, IF row.status \in {"pending", "running"}
                 THEN [Idle EXCEPT !.pc = "stop", !.how = act[c].how, !.job.bound = act[c].job.bound,
                                   !.prev = act[c].job.status]
                 ELSE Returned(c, TRUE, row))
    /\ UNCHANGED <<recover, exec, engine, late, givenUp, cancels, crashes>>

\* A stop that reaches the engine.
Stops(how) ==
    engine' = CASE engine = "running" -> IF how = "savepoint" THEN "savepointing" ELSE "canceling"
                [] engine = "savepointing" /\ how # "savepoint" -> "canceling"
                [] OTHER -> engine

\* The engine takes the stop, refuses it, or does not answer: then nobody
\* knows whether it has taken it.
StopJob(c) ==
    /\ act[c].pc = "stop"
    /\ \/ Stops(act[c].how) /\ Goto(c, "mark")
       \/ UNCHANGED engine /\ Goto(c, "mark")
       \/ UNCHANGED engine /\ Goto(c, "restore")
    /\ UNCHANGED <<recover, row, exec, late, givenUp, cancels, crashes>>

\* restoreJobAfterCancelFailure, and CancelJob fails.
Restore(c) ==
    /\ act[c].pc = "restore"
    /\ LET job == [act[c].job EXCEPT !.status = act[c].prev] IN
       /\ UpdateJobStatus({"cancel_requested"}, [row EXCEPT !.status = job.status])
       /\ Become(c, IF job.bound THEN Sync(c, job, "plain") ELSE Idle)
    /\ UNCHANGED <<recover, exec, engine, late, givenUp, cancels, crashes>>

MarkCancelling(c) ==
    /\ act[c].pc = "mark"
    /\ LET job == [act[c].job EXCEPT !.status = "cancelling", !.sp = (act[c].how = "savepoint")] IN
       /\ UpdateJobStatus({"cancel_requested"}, [row EXCEPT !.status = job.status, !.sp = job.sp])
       /\ IF row.status = "cancel_requested" THEN Become(c, Sync(c, job, Through(c))) ELSE Become(c, Returned(c, TRUE, row))
    /\ UNCHANGED <<recover, exec, engine, late, givenUp, cancels, crashes>>

\* A plain stop of a job that is taking its savepoint: the engine is asked
\* once, its answer ignored, and the row is closed.
ForceStop(c) ==
    /\ act[c].pc = "force"
    /\ Stops("plain") \/ UNCHANGED engine
    /\ Goto(c, "close")
    /\ UNCHANGED <<recover, row, exec, late, givenUp, cancels, crashes>>

ForceClose(c) ==
    /\ act[c].pc = "close"
    /\ LET job == [act[c].job EXCEPT !.status = "canceled", !.sp = FALSE] IN
       /\ UpdateJobStatus(Cancelling, [row EXCEPT !.status = job.status, !.sp = job.sp])
       /\ Become(c, Sync(c, job, Through(c)))
    /\ givenUp' = TRUE
    /\ UNCHANGED <<recover, exec, engine, late, cancels, crashes>>

\* The rest of Execution.Cancel: the record takes the job's status.
FinishCancel(c) ==
    /\ act[c].pc = "finish"
    /\ LET status == executionStatusFromJob(act[c].job.status) IN
       exec' = IF exec.status = "cancel_requested" /\ CanTransition("cancel_requested", status)
               THEN [exec EXCEPT !.status = status, !.cancellable = act[c].job.status \notin Final]
               ELSE exec
    /\ Become(c, Idle)
    /\ UNCHANGED <<recover, row, engine, late, givenUp, cancels, crashes>>

CancelStep(c) ==
    \/ ClaimCancel(c) \/ AskModule(c) \/ RequestCancel(c) \/ StopJob(c)
    \/ Restore(c) \/ MarkCancelling(c) \/ ForceStop(c) \/ ForceClose(c) \/ FinishCancel(c)

-----------------------------------------------------------------------------
(* The engine, and the crash of the control plane.                         *)

EngineStep ==
    /\ \/ engine = "inflight"     /\ engine' \in {"running", "lost"}
       \* A stop with a savepoint may also come from the engine's own tools.
       \/ engine = "running"      /\ engine' \in {"failed", "finished", "savepointing"}
       \/ engine = "savepointing" /\ engine' \in {"savepoint_done", "failed", "finished"}
       \/ engine = "canceling"    /\ engine' \in {"canceled", "failed", "finished"}
       \* The engine restarts, or its history expires.
       \/ engine \in Alive \cup Ended /\ engine' = "gone"
    /\ UNCHANGED <<recover, row, exec, late, act, givenUp, cancels, crashes>>

\* The rows survive, the goroutines do not.
Crash ==
    /\ crashes < MaxCrashes
    /\ crashes' = crashes + 1
    /\ act' = [a \in Actors |-> IF a = "runner" THEN [Idle EXCEPT !.pc = "done"] ELSE Idle]
    /\ UNCHANGED <<recover, row, exec, engine, late, givenUp, cancels>>

RunnerStep == SubmitReplied \/ recordUnknownSubmitOutcome \/ SaveExecutionID \/ BindModuleRef

Next ==
    \/ Submit \/ SubmitRefused \/ RunnerStep
    \/ \E a \in Actors \ {"runner"} : SyncGet(a) \/ SyncMove(a)
    \/ Reconcile \/ GetJobInfoFails \/ RefreshJob
    \/ DeadlinePasses
    \/ \E c \in Cancellers : StopByJob(c) \/ StopByExecution(c) \/ CancelStep(c)
    \/ EngineStep \/ Crash

Spec == Init /\ [][Next]_vars

\* Handlers go on to their end and deadlines pass; the reconciler ticks, and
\* the engine answers it again and again, if not always.
FairSpec ==
    /\ Spec
    /\ WF_vars(RunnerStep)
    /\ \A a \in Actors \ {"runner"} : WF_vars(SyncGet(a) \/ SyncMove(a))
    /\ \A c \in Cancellers : WF_vars(CancelStep(c))
    /\ WF_vars(DeadlinePasses)
    /\ WF_vars(Reconcile)
    /\ SF_vars(Answered)

-----------------------------------------------------------------------------
(* Properties.                                                             *)

\* The engine may still work on the job.
MayRun == engine \in Alive \cup {"inflight"}

\* Given up on: by the deadline of its submit, or by a plain stop that does
\* not wait for a savepoint.
GivenUp == givenUp \/ (recover /\ late)

\* A row is final, and its execution ended, only when the job in the engine
\* has ended: whatever copy an observer, the runner or a canceller acts on,
\* and although a resumed run still shows the end of the run before it.
EndedIsTrue == (row.status \in Final \/ exec.status \in ExecFinal) /\ ~GivenUp => ~MayRun

\* Nobody takes back a stop that is under way, except the canceller whose
\* stop the engine refused (and the runner, which saves its first copy).
CancelKept ==
    [][row.status \in Cancelling /\ row'.status \in {"pending", "running"}
       => \/ act["runner"].pc = "save"
          \/ \E c \in Cancellers : act[c].pc = "restore"]_vars

\* The row of a job that has ended, was lost or forgotten becomes final, through
\* outages, restarts, expired submits and stops.
Settles == (row.status # "none" /\ ~MayRun) ~> (row.status \in Final)
=============================================================================
