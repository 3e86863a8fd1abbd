----------------------------- MODULE SelfUpgrade -----------------------------
(***************************************************************************)
(* The upgrade of the control plane by itself (internal/apps/selfupgrade): *)
(* a task swaps the executable, hands over to a watchdog that runs in a    *)
(* session of its own, and ends with the process; the watchdog starts the  *)
(* new version or lets the process manager do it, waits until it is ready, *)
(* brings the old version back if it is not, and writes a result that      *)
(* whichever control plane runs then turns into the task's record.         *)
(*                                                                         *)
(* Either process may die at any step, files may fail to be written, the   *)
(* new version may not start, or start and never serve, or take too long.  *)
(* Renames and removals succeed.  An upgrade goes to the next version, and *)
(* begins with whatever executable an earlier one has left, which need not *)
(* be the version that runs.  Agents and proxies are rolled out by steps   *)
(* that pass or fail.  A wait for the watchdog may end before a frontend   *)
(* that starts slowly; it has ended before the next task is handed over.   *)
(***************************************************************************)
EXTENDS Integers

CONSTANTS
    Latest,     \* versions are 1 to Latest
    MaxTasks,   \* bound: upgrades
    MaxFaults   \* bound: deaths, failed writes, starts and manager commands

ASSUME BoundsAssumption == {Latest, MaxTasks, MaxFaults} \subseteq Nat /\ Latest > 0

Versions == 1..Latest
None     == 0    \* no file
Torn     == -1   \* a file with something in it that was not copied to its end

VARIABLES
    managed,    \* a process manager runs the control plane, else nobody does
    defect,     \* what is wrong with each version: nothing, it dies while
                \* starting ("boot"), or it never answers ("serve")
    exe, bak,   \* the executable and its backup
    ahead,      \* the frontend of the task's target is in place
    cp,         \* the control plane: its state, its version, whether it is the
                \* process that handed over, its upgrade goroutine, its wait for the
                \* result and the result it found, and whether it holds a live task
    asked,      \* the process manager was asked to restart the control plane
    active,     \* the file with the task
    plan,       \* the file with the restart plan
    ready,      \* the ready marker: none, of the process that runs, or a dead one's
    result,     \* the file with the watchdog's result
    watchdog,   \* where the watchdog is, and the result it has reached
    from,       \* the version that ran when the last task was executed
    began,      \* history: the executable it began with
    rec,        \* its record in the history: the status, whether the task failed
                \* before it had touched anything, and how often it was recorded
    unwatched,  \* history: the task was left without a watchdog that could help,
                \* or began with an executable that does not run
    tasks, faults

files  == <<exe, bak>>
papers == <<active, plan>>
fixed  == <<managed, defect>>
counts == <<tasks, faults>>
vars   == <<fixed, files, ahead, cp, asked, papers, ready, result, watchdog, from, began, rec, unwatched, counts>>

target == from + 1
Startable == exe \in Versions
Runnable(v) == v \in Versions /\ defect[v] = "none"
Fault  == faults < MaxFaults /\ faults' = faults + 1

Down    == [st |-> "down", ver |-> 1, first |-> FALSE, job |-> "idle", await |-> "none", seen |-> "none", live |-> FALSE]
Boot(v) == [Down EXCEPT !.st = "boot", !.ver = v]
NoDog   == [at |-> "none", res |-> "none"]
NoRec   == [status |-> "none", early |-> FALSE, times |-> 0]

\* Mutant: the marker of a dead process counts.
Ends_Trusted == UNCHANGED ready

\* A process that ends leaves its ready marker behind.
Ends == ready' = IF ready = "live" THEN "stale" ELSE ready

Init ==
    /\ managed \in BOOLEAN
    /\ defect \in [Versions -> {"none", "boot", "serve"}] /\ defect[1] = "none"
    /\ exe = 1 /\ bak = None /\ ahead = FALSE
    /\ cp = [Down EXCEPT !.st = "up"] /\ asked = FALSE
    /\ active = FALSE /\ plan = FALSE /\ ready = "none" /\ result = "none"
    /\ watchdog = NoDog /\ from = 1 /\ began = 1 /\ rec = NoRec /\ unwatched = FALSE
    /\ tasks = 0 /\ faults = 0

-----------------------------------------------------------------------------
(* The task, up to the hand-over.                                          *)

Goes(job) == cp' = [cp EXCEPT !.job = job]

Execute ==
    /\ tasks < MaxTasks /\ tasks' = tasks + 1
    /\ cp.st = "up" /\ ~cp.live /\ cp.ver < Latest
    /\ from' = cp.ver /\ began' = exe /\ unwatched' = ~Runnable(exe)
    /\ rec' = NoRec /\ ahead' = FALSE
    /\ cp' = [cp EXCEPT !.job = "begin", !.live = TRUE]
    /\ UNCHANGED <<fixed, files, asked, papers, ready, result, watchdog, faults>>

\* The first step begins, or the task was cancelled before, or has no package.
BeginSwap ==
    /\ cp.job = "begin"
    /\ \/ bak' = exe /\ exe' = Torn /\ Goes("copy")
       \/ Goes("early") /\ UNCHANGED files
    /\ UNCHANGED <<fixed, ahead, asked, papers, ready, result, watchdog, from, began, rec, unwatched, counts>>

CopyBinary ==
    /\ cp.job = "copy"
    /\ \/ exe' = target /\ Goes("rollout") /\ UNCHANGED <<bak, faults>>
       \/ Fault /\ Goes("undo") /\ IF bak = None THEN UNCHANGED files ELSE exe' = bak /\ bak' = None
    /\ UNCHANGED <<fixed, ahead, asked, papers, ready, result, watchdog, from, began, rec, unwatched, tasks>>

\* Agents and proxies, rolled back by the same goroutine if a step fails.
Rollout ==
    /\ cp.job = "rollout"
    /\ Goes("persist") \/ Goes("undo")
    /\ UNCHANGED <<fixed, files, ahead, asked, papers, ready, result, watchdog, from, began, rec, unwatched, counts>>

\* The backup is put over the executable, if there is one.
rollbackLocked == IF bak # None THEN exe' = bak /\ bak' = None ELSE UNCHANGED files

Record(status, early) == rec' = [status |-> status, early |-> early, times |-> rec.times + 1]

failExecute ==
    /\ cp.job \in {"early", "undo"}
    /\ rollbackLocked
    /\ Record(IF bak # None THEN "rolled_back" ELSE "failed", cp.job = "early")
    /\ cp' = [cp EXCEPT !.job = "idle", !.live = FALSE]
    /\ UNCHANGED <<fixed, ahead, asked, papers, ready, result, watchdog, from, began, unwatched, counts>>

\* There is a way back; what an earlier restart left is removed, the task saved.
\* The watchdog of an earlier task has ended by now.
PersistTask ==
    /\ cp.job = "persist" /\ watchdog.at = "none"
    /\ IF bak = None THEN Goes("undo") /\ UNCHANGED <<active, ready, result, faults>>
       ELSE /\ ready' = "none" /\ result' = "none"
            /\ \/ active' = TRUE /\ Goes("plan") /\ UNCHANGED faults
               \/ Fault /\ Goes("undo") /\ UNCHANGED active
    /\ UNCHANGED <<fixed, files, ahead, asked, plan, watchdog, from, began, rec, unwatched, tasks>>

\* A process manager restarts the frontend too, so that is put in place first.
PersistPlan ==
    /\ cp.job = "plan"
    /\ \E put \in IF managed THEN BOOLEAN ELSE {FALSE} : ahead' = put
    /\ \/ plan' = TRUE /\ Goes("spawn") /\ UNCHANGED <<active, faults>>
       \/ Fault /\ active' = FALSE /\ Goes("undo") /\ UNCHANGED plan
    /\ UNCHANGED <<fixed, files, asked, ready, result, watchdog, from, began, rec, unwatched, tasks>>

\* A control plane that is managed waits for the result as long as it runs.
SpawnWatchdog ==
    /\ cp.job = "spawn"
    /\ \/ /\ watchdog' = [NoDog EXCEPT !.at = "exit"]
          /\ cp' = [cp EXCEPT !.job = "leave", !.first = TRUE, !.await = IF managed THEN "handover" ELSE "none"]
          /\ UNCHANGED <<papers, faults>>
       \/ Fault /\ active' = FALSE /\ plan' = FALSE /\ Goes("undo") /\ UNCHANGED watchdog
    /\ UNCHANGED <<fixed, files, ahead, asked, ready, result, from, began, rec, unwatched, tasks>>

\* The command may be lost: nobody waits for what it does.
AsksManager == \/ asked' = TRUE /\ UNCHANGED <<unwatched, faults>>
               \/ Fault /\ unwatched' = TRUE /\ UNCHANGED asked

\* The process ends, or asks its manager for a restart.
Leave ==
    /\ cp.job = "leave"
    /\ IF managed
       THEN Goes("idle") /\ UNCHANGED ready /\ AsksManager
       ELSE cp' = Down /\ Ends /\ UNCHANGED <<asked, unwatched, faults>>
    /\ UNCHANGED <<fixed, files, ahead, papers, result, watchdog, from, began, rec, tasks>>

-----------------------------------------------------------------------------
(* A control plane that starts, and the end of the task.                   *)

\* A task without a plan was interrupted before the hand-over.
resumeAfterRestart ==
    /\ cp.st = "boot" /\ defect[cp.ver] # "boot"
    /\ \/ ~active /\ cp' = [cp EXCEPT !.st = "begun"] /\ UNCHANGED <<ready, faults>>
       \/ /\ active /\ ~plan
          /\ cp' = [cp EXCEPT !.st = "begun", !.live = TRUE, !.await = "found", !.seen = "failed"]
          /\ UNCHANGED <<ready, faults>>
       \/ /\ active /\ plan
          /\ cp' = [cp EXCEPT !.st = "begun", !.live = TRUE, !.await = "wait"]
          /\ \/ ready' = "live" /\ UNCHANGED faults
             \/ Fault /\ UNCHANGED ready
    /\ UNCHANGED <<fixed, files, ahead, asked, papers, result, watchdog, from, began, rec, unwatched, tasks>>

\* It serves requests unless it is defective.
Serve ==
    /\ cp.st = "begun" /\ defect[cp.ver] # "serve"
    /\ cp' = [cp EXCEPT !.st = "up"]
    /\ UNCHANGED <<fixed, files, ahead, asked, papers, ready, result, watchdog, from, began, rec, unwatched, counts>>

\* The watchdog is gone, or restarts a frontend that does not start.
Late == watchdog.at = "none" \/ (watchdog.at = "frontend" /\ ~managed)

\* The result is there, or the time is up.  A success is left to the process
\* that runs the target.
awaitRestartOutcome ==
    /\ cp.await \in {"handover", "wait"}
    /\ result # "none" \/ (Late /\ cp.job = "idle")
    /\ cp' = [cp EXCEPT !.seen = result,
                        !.await = IF result = "succeeded" /\ (@ = "handover" \/ cp.ver # target) THEN "none" ELSE "found"]
    /\ UNCHANGED <<fixed, files, ahead, asked, papers, ready, result, watchdog, from, began, rec, unwatched, counts>>

\* Mutant: the files are removed after the task is recorded.
finishRestart_KeepsFiles ==
    /\ cp.await = "found"
    /\ cp' = [cp EXCEPT !.await = IF active THEN "book" ELSE "none"]
    /\ UNCHANGED <<fixed, files, ahead, asked, papers, ready, result, watchdog, from, began, rec, unwatched, counts>>

\* Only the process that still finds the task's file concludes it.
finishRestart ==
    /\ cp.await = "found"
    /\ IF active
       THEN /\ active' = FALSE /\ plan' = FALSE /\ ready' = "none" /\ result' = "none"
            /\ cp' = [cp EXCEPT !.await = "book"]
       ELSE cp' = [cp EXCEPT !.await = "none"] /\ UNCHANGED <<papers, ready, result>>
    /\ UNCHANGED <<fixed, files, ahead, asked, watchdog, from, began, rec, unwatched, counts>>

\* The version that runs decides.  An executable that is not the backup yet is
\* replaced by it.
Conclude ==
    /\ cp.await = "book"
    /\ IF cp.ver = target THEN Record("succeeded", FALSE) /\ UNCHANGED files
       ELSE /\ IF exe = bak THEN UNCHANGED files ELSE rollbackLocked
            /\ Record(IF bak # None \/ cp.seen = "rolled_back" THEN "rolled_back" ELSE "failed", FALSE)
    /\ cp' = [cp EXCEPT !.await = "none", !.live = FALSE]
    /\ UNCHANGED <<fixed, ahead, asked, papers, ready, result, watchdog, from, began, unwatched, counts>>

-----------------------------------------------------------------------------
(* The watchdog.                                                           *)

Dog(at)        == watchdog' = [watchdog EXCEPT !.at = at]
Reports(res)   == watchdog' = [at |-> "write", res |-> res]
dogStays       == <<fixed, ahead, asked, papers, result, from, began, rec, tasks>>

\* The old process is gone, or it stays: a manager did not restart it.  That
\* takes a minute, and the manager was asked after a second.
waitProcessExit ==
    /\ watchdog.at = "exit"
    /\ \/ ~cp.first /\ Dog("start") /\ UNCHANGED unwatched
       \/ cp.first /\ managed /\ cp.job = "idle" /\ Reports("failed") /\ unwatched' = TRUE
    /\ UNCHANGED <<dogStays, files, cp, ready, faults>>

\* The first start, and the one after the rollback; a manager is asked for the second.
startControlPlane ==
    /\ watchdog.at \in {"start", "restart"}
    /\ LET waits == IF watchdog.at = "start" THEN "ready" ELSE "back"
           Fails == IF watchdog.at = "start" THEN Dog("kill") ELSE Reports("failed") IN
       \/ /\ managed /\ Dog(waits) /\ UNCHANGED <<cp, ready>>
          /\ IF waits = "back" THEN AsksManager ELSE UNCHANGED <<asked, unwatched, faults>>
       \/ /\ ~managed /\ UNCHANGED <<asked, unwatched>>
          /\ \/ Startable /\ cp' = Boot(exe) /\ Ends /\ Dog(waits) /\ UNCHANGED faults
             \/ ~Startable /\ Fails /\ UNCHANGED <<cp, ready, faults>>
             \/ Fault /\ Fails /\ UNCHANGED <<cp, ready>>
    /\ UNCHANGED <<fixed, files, ahead, papers, result, from, began, rec, tasks>>

\* Mutant: a live marker is enough.
Healthy_Marker(v) == ready = "live" /\ cp.ver = v

\* The marker is of a process that runs, of this version, and it answers.
Healthy(v) == ready = "live" /\ cp.ver = v /\ cp.st = "up"

\* The watchdog goes on, or gives up waiting before the process is ready.
waitControlPlaneReady ==
    /\ \/ /\ watchdog.at = "ready"
          /\ IF Healthy(target) THEN Dog("frontend") ELSE Dog("kill")
       \/ /\ watchdog.at = "back"
          /\ IF Healthy(from) THEN Reports("rolled_back") ELSE Reports("failed")
    /\ UNCHANGED <<dogStays, files, cp, ready, unwatched, faults>>

\* Without a manager the frontend is replaced now, and put back if it does not
\* start.  If the task was concluded meanwhile, it is not the next task's.
restartFrontend ==
    /\ watchdog.at = "frontend" /\ Reports("succeeded")
    /\ \E put \in IF managed \/ ~active THEN {ahead} ELSE BOOLEAN : ahead' = put
    /\ UNCHANGED <<fixed, files, cp, asked, papers, ready, result, from, began, rec, unwatched, counts>>

\* A process that the watchdog has started is killed; a manager's goes on.
StopNew ==
    /\ watchdog.at = "kill" /\ Dog("restore")
    /\ ahead' = FALSE
    /\ IF managed THEN UNCHANGED <<cp, ready>> ELSE cp' = Down /\ Ends
    /\ UNCHANGED <<fixed, files, asked, papers, result, from, began, rec, unwatched, counts>>

\* Mutant: the backup is moved back, not copied.
restoreBinary_Moves ==
    /\ \/ /\ watchdog.at = "restore"
          /\ IF bak = None THEN Reports("failed") /\ UNCHANGED files
             ELSE Dog("copy") /\ exe' = None /\ bak' = None
          /\ UNCHANGED <<ready, unwatched, faults>>
       \/ /\ watchdog.at = "copy"
          /\ exe' = began /\ ready' = "none" /\ Dog("restart") /\ UNCHANGED <<bak, unwatched, faults>>
    /\ UNCHANGED <<dogStays, cp>>

\* The executable is moved aside, then a copy of the backup takes its place and
\* the old marker is removed.
restoreBinary ==
    /\ \/ /\ watchdog.at = "restore"
          /\ IF bak = None THEN Reports("failed") /\ UNCHANGED exe ELSE Dog("copy") /\ exe' = None
          /\ UNCHANGED <<ready, unwatched, faults>>
       \/ /\ watchdog.at = "copy"
          /\ \/ exe' = bak /\ ready' = "none" /\ Dog("restart") /\ UNCHANGED <<unwatched, faults>>
             \/ Fault /\ Reports("failed") /\ unwatched' = TRUE /\ UNCHANGED <<exe, ready>>
    /\ UNCHANGED <<dogStays, bak, cp>>

\* The result is written, or the write fails; the watchdog ends.
WriteResult ==
    /\ watchdog.at = "write" /\ watchdog' = NoDog
    /\ \/ result' = watchdog.res /\ UNCHANGED faults
       \/ Fault /\ UNCHANGED result
    /\ UNCHANGED <<fixed, files, ahead, cp, asked, papers, ready, from, began, rec, unwatched, tasks>>

-----------------------------------------------------------------------------
(* The environment.                                                        *)

Begins(v) == IF v \in Versions THEN Boot(v) ELSE Down

\* The process manager does what it was asked for.
ManagerRestarts ==
    /\ asked /\ asked' = FALSE
    /\ cp' = Begins(exe) /\ Ends
    /\ unwatched' = (unwatched \/ watchdog.at = "none" \/ ~active)
    /\ UNCHANGED <<fixed, files, ahead, papers, result, watchdog, from, began, rec, counts>>

\* The manager restarts a process that died; without one an operator does, when
\* no watchdog is at work.
StartAgain ==
    /\ cp.st = "down" /\ Startable /\ (managed \/ watchdog.at = "none")
    /\ cp' = Boot(exe)
    /\ UNCHANGED <<fixed, files, ahead, asked, papers, ready, result, watchdog, from, began, rec, unwatched, counts>>

\* A version with a defect dies before it has looked at the task.
BootFails ==
    /\ cp.st = "boot" /\ defect[cp.ver] = "boot"
    /\ cp' = Down /\ Ends
    /\ UNCHANGED <<fixed, files, ahead, asked, papers, result, watchdog, from, began, rec, unwatched, counts>>

ControlPlaneDies ==
    /\ cp.st # "down" /\ Fault
    /\ cp' = Down /\ Ends
    /\ unwatched' = (unwatched \/ watchdog.at = "none" \/ ~active)
    /\ UNCHANGED <<fixed, files, ahead, asked, papers, result, watchdog, from, began, rec, tasks>>

WatchdogDies ==
    /\ watchdog.at # "none" /\ Fault
    /\ watchdog' = NoDog /\ unwatched' = TRUE
    /\ UNCHANGED <<fixed, files, ahead, cp, asked, papers, ready, result, from, began, rec, tasks>>

Upgrades == BeginSwap \/ CopyBinary \/ Rollout \/ failExecute \/ PersistTask \/ PersistPlan \/ SpawnWatchdog \/ Leave
Resumes  == awaitRestartOutcome \/ finishRestart \/ Conclude
Starts   == resumeAfterRestart \/ Serve \/ BootFails \/ ManagerRestarts \/ StartAgain
Watches  == \/ waitProcessExit \/ startControlPlane \/ waitControlPlaneReady \/ restartFrontend
            \/ StopNew \/ restoreBinary \/ WriteResult

Next == Execute \/ Upgrades \/ Resumes \/ Starts \/ Watches \/ ControlPlaneDies \/ WatchdogDies

Spec == Init /\ [][Next]_vars

\* Goroutines and the watchdog go on, a process that starts gets through its
\* start, and one that is down is started again.
FairSpec == Spec /\ WF_vars(Upgrades) /\ WF_vars(Resumes) /\ WF_vars(Starts) /\ WF_vars(Watches)

-----------------------------------------------------------------------------
(* Properties.                                                             *)

TypeOK ==
    /\ managed \in BOOLEAN /\ defect \in [Versions -> {"none", "boot", "serve"}]
    /\ {exe, bak, began} \subseteq Versions \cup {None, Torn}
    /\ cp.st \in {"down", "boot", "begun", "up"} /\ cp.ver \in Versions
    /\ cp.job \in {"idle", "begin", "copy", "rollout", "early", "undo", "persist", "plan", "spawn", "leave"}
    /\ cp.await \in {"none", "handover", "wait", "found", "book"}
    /\ {cp.first, cp.live, ahead, asked, active, plan} \subseteq BOOLEAN
    /\ ready \in {"none", "live", "stale"}
    /\ {cp.seen, result, watchdog.res} \subseteq {"none", "succeeded", "failed", "rolled_back"}
    /\ watchdog.at \in {"none", "exit", "start", "ready", "frontend", "kill", "restore", "copy", "restart", "back", "write"}
    /\ from \in Versions /\ rec.status \in {"none", "succeeded", "failed", "rolled_back"}
    \* A live marker is the running process's, and only a task in a process is worked on.
    /\ ready = "live" => cp.st \in {"begun", "up"}
    /\ cp.job # "idle" \/ cp.await \in {"handover", "wait"} => cp.live

\* A task is recorded at most once, and the record is true of the files: after
\* a failure the executable is the one the task began with, with its own frontend
\* where no manager restarts it, and after a success without a manager it is the
\* target (finishRestart, failExecute).  That is the version the task is recorded
\* to have started from only if the task began with it: after an earlier upgrade
\* failed early, or was concluded by a manager's process over an executable that
\* the watchdog had put back, it begins with an older one, or with none.  The
\* exceptions are a task that failed before it touched anything, which puts an
\* older upgrade's backup in place, and one that began with no executable.
RecordIsTrue ==
    /\ rec.times <= 1
    /\ rec.status \in {"failed", "rolled_back"} /\ ~rec.early =>
           (began # None => exe = began) /\ (ahead => managed)
    /\ rec.status = "succeeded" /\ ~managed => exe = target

\* The executable a task began with is never lost before the task is recorded,
\* wherever the control plane, the watchdog or a copy stops (applyStep,
\* restoreBinary).  A version that runs from elsewhere, because the task began
\* with another executable, is not kept.
OldKept == rec.status = "none" /\ began # None => began \in {exe, bak}

\* Nothing that could run is there to be started, or what runs never answers.
Stuck == ~Startable \/ defect[exe] = "boot" \/ (cp.st = "begun" /\ defect[cp.ver] = "serve")

\* Whatever fails and whoever dies, a task that was handed over is concluded and
\* a control plane serves again, on the new version or the old.  The exception:
\* what can run is defective or missing, and the control plane has died, or was
\* restarted, where no watchdog was at work for its task, or the watchdog has died
\* or has given up on a manager that is late, or its copy of the backup or the
\* command to the manager has failed, or the task began with an executable
\* that does not run (watchdogRun, resumeAfterRestart).
Concludes == []<>((~active /\ cp.st = "up") \/ (unwatched /\ Stuck))
=============================================================================
