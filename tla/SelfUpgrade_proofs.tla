-------------------------- MODULE SelfUpgrade_proofs --------------------------
(***************************************************************************)
(* Type correctness and safety of SelfUpgrade: the executable a task       *)
(* began with is kept until the task is recorded, it is recorded once, the *)
(* record says what the files hold, and nobody writes beside a watchdog    *)
(* that still decides the upgrade.                                         *)
(***************************************************************************)
EXTENDS SelfUpgrade, TLAPS

Results == {"none", "succeeded", "failed", "rolled_back"}

Files == /\ managed \in BOOLEAN /\ defect \in [Versions -> {"none", "boot", "serve"}]
         /\ {exe, bak, began} \subseteq Versions \cup {None, Torn} /\ from \in Versions
         /\ {ahead, asked, active, plan} \subseteq BOOLEAN
         /\ ready \in {"none", "live", "stale"} /\ result \in Results

Jobs == {"begin", "copy", "rollout", "early", "undo", "persist", "plan", "spawn", "leave"}

Processes == [st: {"down", "boot", "begun", "up"}, ver: Versions, first: BOOLEAN,
              job: Jobs \cup {"idle"}, await: {"none", "handover", "wait", "found", "book"},
              seen: Results, live: BOOLEAN]

ControlPlane == cp \in Processes

Watchdog == watchdog \in [at: {"none", "exit", "start", "ready", "frontend", "kill", "restore",
                               "copy", "restart", "back", "write"}, res: Results]

Recorded == rec \in [status: Results, early: BOOLEAN, times: {0, 1}]

\* The types, of whole records.
Types == Files /\ ControlPlane /\ Watchdog /\ Recorded

\* A process that has looked for a task works on it or waits for its end; the
\* goroutine that executed the task outlives the hand-over only to wait.
InProcess ==
    /\ cp.st \in {"down", "boot"} => cp.job = "idle" /\ cp.await = "none" /\ ~cp.live /\ ready # "live"
    /\ cp.job # "idle" \/ cp.await # "none" => cp.live
    /\ cp.job # "idle" /\ cp.await # "none" => cp.job = "leave" /\ cp.await = "handover"
    /\ cp.await = "handover" => managed
    /\ cp.st \in {"begun", "up"} /\ ~cp.live => ~active

\* A watchdog that has found the new version ready, without a manager, has only
\* the frontend left: the wait for its result may end before it does.
Passed == ~managed /\ (watchdog.at = "frontend" \/ (watchdog.at = "write" /\ watchdog.res = "succeeded"))

\* The files of the task are there from the hand-over to its end, the watchdog's
\* result only once the watchdog has gone.
Handed ==
    /\ plan => active
    /\ result # "none" => watchdog.at = "none"
    /\ active => bak = began /\ began # None
    /\ watchdog.at # "none" /\ ~Passed => active /\ cp.await \notin {"found", "book"}
    /\ watchdog.at # "none" /\ active => plan /\ cp.job \in {"idle", "leave"}
    /\ cp.job \in {"plan", "spawn", "leave"} => active /\ result = "none"
    /\ cp.job = "plan" => ~plan
    /\ cp.job \in {"spawn", "leave"} => plan
    /\ cp.job \in Jobs \ {"plan", "spawn", "leave"} => ~active
    /\ cp.job = "leave" => cp.first /\ watchdog.at \in {"none", "exit"}
    /\ cp.await = "book" => ~active /\ bak = began /\ began # None

\* Nothing is recorded before the end.
Open ==
    /\ rec.times = 0 <=> rec.status = "none"
    /\ active \/ cp.job # "idle" \/ cp.await = "book" => rec.times = 0 /\ from < Latest
    /\ rec.times = 0 => began \in {None, exe, bak}

\* What the steps of the goroutine and the watchdog's have done to the files.
Swapped ==
    /\ cp.job \in {"begin", "early"} => exe = began
    /\ cp.job = "copy" => bak = began
    /\ cp.job \in {"rollout", "persist", "plan", "spawn", "leave"} => bak = began /\ exe = target
    /\ cp.job = "undo" => \/ bak = began
                          \/ bak = None /\ exe = began
    /\ watchdog.at \in {"exit", "start", "ready", "kill", "restore"} => exe = target
    /\ watchdog.at = "frontend" /\ active => exe = target

\* Without a manager only the watchdog starts the control plane while it is at
\* work, so what runs is the executable, and it is down while that is replaced.
Unmanaged ==
    ~managed =>
        /\ ~asked
        /\ cp.st # "down" /\ cp.job = "idle" /\ (active \/ cp.await = "book") => exe = cp.ver
        /\ watchdog.at \in {"start", "restore", "copy", "restart"} => cp.st = "down"
        /\ watchdog.at = "exit" => cp.st = "down" \/ cp.job = "leave"
        /\ cp.job # "idle" => ~ahead
        /\ ahead /\ rec.times = 0 => exe = target /\ watchdog.at \in {"none", "write"}

Inv == Types /\ InProcess /\ Handed /\ Open /\ Swapped /\ Unmanaged /\ RecordIsTrue

-----------------------------------------------------------------------------
(* The steps.                                                              *)

LEMMA OneIsVersion == 1 \in Versions
BY BoundsAssumption DEF Versions

LEMMA DownType == Down \in Processes
BY OneIsVersion, Zenon DEF Down, Processes, Jobs, Results

LEMMA BootType == ASSUME NEW v \in Versions PROVE Boot(v) \in Processes
BY DEF Boot, Down, Processes, Jobs, Results

\* What a start leaves: a process of the executable, or none.
LEMMA BeginsFacts ==
    ASSUME NEW v
    PROVE  /\ Begins(v).st \in {"down", "boot"} /\ Begins(v).job = "idle" /\ Begins(v).await = "none"
           /\ ~Begins(v).first
           /\ Begins(v).st # "down" => Begins(v).ver = v
<1>1. CASE v \in Versions
  BY <1>1 DEF Begins, Boot, Down
<1>2. CASE v \notin Versions
  BY <1>2 DEF Begins, Boot, Down
<1> QED
  BY <1>1, <1>2

-----------------------------------------------------------------------------
(* The task, up to the hand-over.                                          *)

LEMMA ExecuteInv == Inv /\ Execute => Inv'
<1> SUFFICES ASSUME Inv, Execute PROVE Inv'
  OBVIOUS
<1>1. Types'
  <2>1. /\ UNCHANGED <<managed, defect, exe, bak, asked, active, plan, ready, result, watchdog>>
        /\ from' = cp.ver /\ began' = exe /\ rec' = NoRec /\ ahead' = FALSE
        /\ cp' = [cp EXCEPT !.job = "begin", !.live = TRUE]
    BY DEF Execute, fixed, files, papers
  <2>2. cp \in Processes /\ Files /\ Watchdog
    BY DEF Inv, Types, ControlPlane
  <2>3. ControlPlane' /\ from' \in Versions
    BY <2>1, <2>2 DEF ControlPlane, Processes, Jobs
  <2>4. Files' /\ Watchdog'
    BY <2>1, <2>2, <2>3 DEF Files, Watchdog, None
  <2>5. Recorded'
    BY <2>1 DEF Recorded, NoRec, Results
  <2> QED
    BY <2>3, <2>4, <2>5 DEF Types
<1>2. InProcess'
  BY BoundsAssumption DEF Inv, InProcess, Execute
<1>3. Handed'
  BY BoundsAssumption DEF Inv, Handed, InProcess, Execute, files, papers, Passed, Unmanaged,
         Jobs, fixed
<1>4. Open'
  BY BoundsAssumption DEF Open, Execute, NoRec, fixed, files
<1>5. Swapped'
  <2>1. cp'.job = "begin" /\ began' = exe' /\ ~active' /\ UNCHANGED <<managed, watchdog>>
    BY DEF Execute, Inv, Processes, InProcess, files, fixed, papers
  <2>2. watchdog.at \in {"none", "frontend", "write"}
    BY <2>1 DEF Execute, Inv, Handed, Passed, papers
  <2> QED
    BY <2>1, <2>2 DEF Swapped
<1>6. Unmanaged'
  BY BoundsAssumption DEF Inv, Unmanaged, InProcess, Execute, NoRec, fixed
<1>7. RecordIsTrue'
  BY BoundsAssumption DEF RecordIsTrue, Execute, NoRec
<1> QED
  BY <1>1, <1>2, <1>3, <1>4, <1>5, <1>6, <1>7 DEF Inv

LEMMA BeginSwapInv == Inv /\ BeginSwap => Inv'
<1> SUFFICES ASSUME Inv, BeginSwap PROVE Inv'
  OBVIOUS
<1>1. Types'
  BY BoundsAssumption DEF Inv, Types, Files, ControlPlane, Processes, Watchdog, Recorded, Results,
         Jobs, InProcess, Handed, Swapped, BeginSwap, Torn, Goes, files, fixed, papers
<1>2. InProcess'
  BY BoundsAssumption DEF Inv, Types, ControlPlane, Processes, InProcess, BeginSwap, Torn, Goes
<1>0. /\ cp'.job \in {"copy", "early"} /\ cp'.await = "none" /\ ~active /\ UNCHANGED cp.first
      /\ exe = began /\ watchdog.at \in {"none", "frontend", "write"}
      /\ UNCHANGED <<managed, papers, ready, result, watchdog, from, began>>
      /\ \/ cp'.job = "copy" /\ bak' = exe
         \/ cp'.job = "early" /\ UNCHANGED files
  BY DEF Inv, Types, ControlPlane, Processes, Jobs, InProcess, Handed, Passed, Swapped, BeginSwap,
         Goes, fixed
<1>3. Handed'
  BY <1>0 DEF Inv, Handed, Passed, Jobs, papers
<1>4. Open'
  BY BoundsAssumption DEF Inv, Open, Swapped, BeginSwap, files, fixed
<1>5. Swapped'
  BY <1>0 DEF Swapped, papers, files
<1>6. Unmanaged'
  BY BoundsAssumption DEF Inv, Types, ControlPlane, Processes, Watchdog, Jobs, Unmanaged, BeginSwap,
         Torn, Goes, files, fixed
<1>7. RecordIsTrue'
  BY BoundsAssumption DEF Inv, RecordIsTrue, Open, BeginSwap
<1> QED
  BY <1>1, <1>2, <1>3, <1>4, <1>5, <1>6, <1>7 DEF Inv

LEMMA CopyBinaryInv == Inv /\ CopyBinary => Inv'
<1> SUFFICES ASSUME Inv, CopyBinary PROVE Inv'
  OBVIOUS
<1>1. Types'
  <2>1. /\ UNCHANGED <<managed, defect, from, began, ahead, asked, active, plan, ready, result, watchdog, rec>>
        /\ \/ exe' = target /\ bak' = bak /\ cp' = [cp EXCEPT !.job = "rollout"]
           \/ exe' \in {exe, bak} /\ bak' \in {bak, None} /\ cp' = [cp EXCEPT !.job = "undo"]
        /\ cp.job = "copy"
    BY DEF CopyBinary, Goes, fixed, files, papers
  <2>2. cp \in Processes /\ Files /\ Watchdog /\ Recorded
    BY DEF Inv, Types, ControlPlane
  <2>3. ControlPlane'
    BY <2>1, <2>2 DEF ControlPlane, Processes, Jobs
  <2>4. from < Latest
    BY <2>1 DEF Inv, Open
  <2>5. target \in Versions
    BY <2>2, <2>4, BoundsAssumption DEF Files, target, Versions
  <2>6. Files'
    BY <2>1, <2>2, <2>5 DEF Files
  <2> QED
    BY <2>1, <2>2, <2>3, <2>6 DEF Types, Watchdog, Recorded
<1>2. InProcess'
  BY BoundsAssumption DEF Inv, Types, ControlPlane, Processes, InProcess, CopyBinary, target, Goes
<1>3. Handed'
  BY BoundsAssumption DEF Inv, Types, ControlPlane, Processes, Handed, InProcess, CopyBinary,
         target, Goes, fixed, papers, Passed, Unmanaged
<1>4. Open'
  BY BoundsAssumption DEF Inv, Open, Swapped, CopyBinary
<1>5. Swapped'
  BY BoundsAssumption DEF Inv, Types, ControlPlane, Processes, Swapped, Handed, CopyBinary, target,
         Goes, Passed, None, files, papers, InProcess
<1>6. Unmanaged'
  BY BoundsAssumption DEF Inv, Types, ControlPlane, Processes, Unmanaged, CopyBinary, target, Goes,
         Fault, None, fixed, Handed, Passed, papers
<1>7. RecordIsTrue'
  BY BoundsAssumption DEF Inv, RecordIsTrue, Open, CopyBinary
<1> QED
  BY <1>1, <1>2, <1>3, <1>4, <1>5, <1>6, <1>7 DEF Inv

LEMMA RolloutInv == Inv /\ Rollout => Inv'
<1> SUFFICES ASSUME Inv, Rollout PROVE Inv'
  OBVIOUS
<1>1. Types'
  BY BoundsAssumption DEF Inv, Types, Files, ControlPlane, Processes, Watchdog, Recorded, Results,
         Jobs, Rollout, Goes, fixed, files, papers
<1>2. InProcess'
  BY BoundsAssumption DEF Inv, Types, ControlPlane, Processes, InProcess, Rollout, Goes
<1>3. Handed'
  BY BoundsAssumption DEF Inv, Types, ControlPlane, Processes, Handed, Rollout, Goes, fixed, files,
         papers, Passed, InProcess, Unmanaged, Passed
<1>4. Open'
  BY BoundsAssumption DEF Inv, Open, Rollout, files
<1>5. Swapped'
  BY BoundsAssumption DEF Inv, Types, ControlPlane, Processes, Watchdog, Jobs, Swapped, Rollout,
         Goes, fixed, files, Versions, target
<1>6. Unmanaged'
  BY BoundsAssumption DEF Inv, Types, ControlPlane, Processes, Watchdog, Jobs, Unmanaged, Rollout,
         Goes, fixed, files, Handed
<1>7. RecordIsTrue'
  BY BoundsAssumption DEF Inv, RecordIsTrue, Rollout, Goes, fixed, files, Versions, target
<1> QED
  BY <1>1, <1>2, <1>3, <1>4, <1>5, <1>6, <1>7 DEF Inv

LEMMA failExecuteInv == Inv /\ failExecute => Inv'
<1> SUFFICES ASSUME Inv, failExecute PROVE Inv'
  OBVIOUS
<1>1. Types'
  <2>1. cp' = [cp EXCEPT !.job = "idle", !.live = FALSE]
    BY DEF failExecute
  <2>2. ControlPlane'
    BY <2>1 DEF Inv, Types, ControlPlane, Processes
  <2>3. exe' \in {exe, bak} /\ bak' \in {bak, None} /\ UNCHANGED <<fixed, from, began, ahead, asked, papers, ready, result, watchdog>>
    BY DEF failExecute, rollbackLocked, files
  <2>4. Files'
    BY <2>3 DEF Inv, Types, Files, fixed, papers
  <2>5. \E s \in {"rolled_back", "failed"} : rec' = [status |-> s, early |-> cp.job = "early", times |-> rec.times + 1]
    BY DEF failExecute, Record
  <2>6. rec.times = 0
    BY DEF failExecute, Inv, Open
  <2>7. Recorded'
    BY <2>5, <2>6 DEF Recorded, Results
  <2> QED
    BY <2>2, <2>3, <2>4, <2>7 DEF Inv, Types, Watchdog
<1>2. InProcess'
  BY BoundsAssumption DEF Inv, Jobs, InProcess, Handed, failExecute, papers
<1>3. Handed'
  BY BoundsAssumption DEF Inv, Jobs, Handed, InProcess, failExecute, papers, counts, Passed,
         Processes, files, fixed, rollbackLocked
<1>4. Open'
  BY BoundsAssumption DEF Inv, Jobs, Open, InProcess, Handed, failExecute, rollbackLocked, Record,
         None, fixed, papers
<1>5. Swapped'
  BY BoundsAssumption DEF Inv, Swapped, Handed, failExecute, Passed, None, files, rollbackLocked,
         papers, InProcess, fixed, target
<1>6. Unmanaged'
  BY BoundsAssumption DEF Inv, Types, Jobs, Unmanaged, InProcess, Handed, failExecute,
         rollbackLocked, fixed, papers
<1>7. RecordIsTrue'
  BY BoundsAssumption DEF Inv, Types, Files, ControlPlane, Processes, Watchdog, RecordIsTrue,
         InProcess, Handed, Open, Swapped, Unmanaged, failExecute, rollbackLocked, Record, None,
         fixed, papers, counts, files
<1> QED
  BY <1>1, <1>2, <1>3, <1>4, <1>5, <1>6, <1>7 DEF Inv

LEMMA PersistTaskInv == Inv /\ PersistTask => Inv'
<1> SUFFICES ASSUME Inv, PersistTask PROVE Inv'
  OBVIOUS
<1>1. Types'
  <2>1. ready' \in {ready, "none"} /\ result' \in {result, "none"} /\ active' \in {active, TRUE}
    BY DEF PersistTask, papers
  <2>2. UNCHANGED <<managed, defect, exe, bak, from, began, ahead, asked, plan, watchdog, rec>>
    BY DEF PersistTask, fixed, files, Goes
  <2>3. Files'
    BY <2>1, <2>2 DEF Inv, Types, Files, Results
  <2>4. \E job \in {"undo", "plan"} : cp' = [cp EXCEPT !.job = job]
    BY DEF PersistTask, Goes
  <2>5. ControlPlane'
    BY <2>4 DEF Inv, Types, ControlPlane, Processes, Jobs
  <2> QED
    BY <2>2, <2>3, <2>5 DEF Inv, Types, Watchdog, Recorded
<1>2. InProcess'
  BY BoundsAssumption DEF Inv, Types, ControlPlane, Processes, InProcess, PersistTask, None, Goes
<1>3. Handed'
  BY BoundsAssumption DEF Inv, Types, Files, ControlPlane, Processes, Watchdog, Jobs, Handed,
         InProcess, Swapped, PersistTask, None, Goes, Fault, fixed, files, Passed, Unmanaged,
         Passed, papers
<1>4. Open'
  BY BoundsAssumption DEF Inv, Open, PersistTask, files
<1>5. Swapped'
  BY BoundsAssumption DEF Inv, Types, Files, ControlPlane, Processes, Watchdog, Jobs, Swapped,
         PersistTask, None, Goes, Fault, fixed, files, Versions, target
<1>6. Unmanaged'
  BY BoundsAssumption DEF Inv, Types, ControlPlane, Processes, Unmanaged, PersistTask, None, Goes,
         Fault, fixed
<1>7. RecordIsTrue'
  BY BoundsAssumption DEF Inv, RecordIsTrue, PersistTask, None, fixed, files, Versions, target
<1> QED
  BY <1>1, <1>2, <1>3, <1>4, <1>5, <1>6, <1>7 DEF Inv

LEMMA PersistPlanInv == Inv /\ PersistPlan => Inv'
<1> SUFFICES ASSUME Inv, PersistPlan PROVE Inv'
  OBVIOUS
<1>1. Types'
  <2>1. /\ ahead' \in BOOLEAN /\ active' \in {active, FALSE} /\ plan' \in {plan, TRUE}
        /\ cp' = [cp EXCEPT !.job = "spawn"] \/ cp' = [cp EXCEPT !.job = "undo"]
    BY DEF PersistPlan, Goes
  <2>2. UNCHANGED <<managed, defect, exe, bak, from, began, asked, ready, result, watchdog, rec>>
    BY DEF PersistPlan, fixed, files
  <2>3. Files'
    BY <2>1, <2>2 DEF Inv, Types, Files
  <2>4. ControlPlane'
    BY <2>1 DEF Inv, Types, ControlPlane, Processes, Jobs
  <2> QED
    BY <2>2, <2>3, <2>4 DEF Inv, Types, Watchdog, Recorded
<1>2. InProcess'
  BY BoundsAssumption DEF Inv, Types, ControlPlane, Processes, Watchdog, Jobs, InProcess,
         PersistPlan, Goes
<1>3. Handed'
  <2>1. cp.job = "plan" /\ UNCHANGED <<result, watchdog, bak, from, began>>
    BY DEF PersistPlan, files
  <2>2. cp.await = "none" /\ active /\ result = "none" /\ ~plan /\ watchdog.at = "none" /\ bak = began /\ began # None
    BY <2>1 DEF Inv, InProcess, Handed
  <2>3. CASE plan' = TRUE /\ cp' = [cp EXCEPT !.job = "spawn"] /\ UNCHANGED active
    <3>1. cp'.job = "spawn" /\ cp'.await = "none"
      BY <2>2, <2>3 DEF Inv, Types, ControlPlane, Processes
    <3> QED
      BY <2>1, <2>2, <2>3, <3>1 DEF Handed, Jobs
  <2>4. CASE active' = FALSE /\ cp' = [cp EXCEPT !.job = "undo"] /\ UNCHANGED plan
    <3>1. cp'.job = "undo" /\ cp'.await = "none"
      BY <2>2, <2>4 DEF Inv, Types, ControlPlane, Processes
    <3> QED
      BY <2>1, <2>2, <2>4, <3>1 DEF Handed, Jobs
  <2> QED
    BY <2>3, <2>4 DEF PersistPlan, Goes
<1>4. Open'
  BY BoundsAssumption DEF Inv, Open, PersistPlan, files
<1>5. Swapped'
  BY BoundsAssumption DEF Inv, Types, Files, ControlPlane, Processes, Watchdog, Jobs, Swapped,
         PersistPlan, Goes, files, Versions, target, None
<1>6. Unmanaged'
  BY BoundsAssumption DEF Inv, Types, ControlPlane, Processes, Watchdog, Jobs, Unmanaged,
         PersistPlan, Goes, Fault, fixed, Handed
<1>7. RecordIsTrue'
  BY BoundsAssumption DEF Inv, RecordIsTrue, PersistPlan, Goes, Fault, fixed, files, Versions,
         target, None
<1> QED
  BY <1>1, <1>2, <1>3, <1>4, <1>5, <1>6, <1>7 DEF Inv

LEMMA SpawnWatchdogInv == Inv /\ SpawnWatchdog => Inv'
<1> SUFFICES ASSUME Inv, SpawnWatchdog PROVE Inv'
  OBVIOUS
<1> DEFINE handedOver == /\ watchdog' = [NoDog EXCEPT !.at = "exit"]
                         /\ cp' = [cp EXCEPT !.job = "leave", !.first = TRUE,
                                             !.await = IF managed THEN "handover" ELSE "none"]
                         /\ UNCHANGED papers
           undone == active' = FALSE /\ plan' = FALSE /\ cp' = [cp EXCEPT !.job = "undo"] /\ UNCHANGED watchdog
<1>0. handedOver \/ undone
  BY DEF SpawnWatchdog, Goes
<1>1. /\ cp.job = "spawn"
      /\ UNCHANGED <<managed, defect, exe, bak, from, began, ahead, asked, ready, result, rec>>
  BY DEF SpawnWatchdog, fixed, files
<1>2. cp \in Processes /\ Files /\ Watchdog /\ Recorded
  BY DEF Inv, Types, ControlPlane
<1>3. /\ active /\ plan /\ result = "none" /\ watchdog.at = "none" /\ bak = began /\ began # None /\ cp.await = "none" /\ cp.live
      /\ cp.st \notin {"down", "boot"}
  BY <1>1 DEF Inv, InProcess, Handed, None
<1>4. exe = target /\ rec.times = 0 /\ from < Latest
  BY <1>1 DEF Inv, Swapped, Open
<1>5. CASE handedOver
  <2>1. /\ cp' \in Processes /\ cp'.job = "leave" /\ cp'.first /\ cp'.st = cp.st /\ cp'.ver = cp.ver /\ cp'.live
        /\ cp'.await \in {"handover", "none"} /\ (cp'.await = "handover" => managed)
    BY <1>2, <1>3, <1>5 DEF Processes, Jobs
  <2>2. watchdog'.at = "exit" /\ Watchdog' /\ active' = active /\ plan' = plan
    BY <1>5 DEF Watchdog, Results, NoDog, papers
  <2>3. Types'
    BY <1>1, <1>2, <2>1, <2>2 DEF Types, Files, ControlPlane, Recorded
  <2>4. InProcess'
    BY <1>1, <1>3, <2>1, <2>2 DEF InProcess
  <2>5. Handed'
    BY <1>1, <1>3, <2>1, <2>2 DEF Handed, Passed, Jobs
  <2>6. Open'
    BY <1>1, <1>4, <2>1, <2>2 DEF Inv, Open
  <2>7. Swapped'
    BY <1>1, <1>3, <1>4, <2>1, <2>2 DEF Swapped, target
  <2>8. Unmanaged'
    BY <1>1, <1>3, <2>1, <2>2 DEF Inv, Unmanaged, target
  <2>9. RecordIsTrue'
    BY <1>1 DEF Inv, RecordIsTrue, target
  <2> QED
    BY <2>3, <2>4, <2>5, <2>6, <2>7, <2>8, <2>9 DEF Inv
<1>6. CASE undone
  <2>1. /\ cp' \in Processes /\ cp'.job = "undo" /\ cp'.st = cp.st /\ cp'.ver = cp.ver /\ cp'.live
        /\ cp'.await = "none"
    BY <1>2, <1>3, <1>6 DEF Processes, Jobs
  <2>2. watchdog' = watchdog /\ ~active' /\ ~plan' /\ active' \in BOOLEAN /\ plan' \in BOOLEAN
    BY <1>6
  <2>3. Types'
    BY <1>1, <1>2, <2>1, <2>2 DEF Types, Files, ControlPlane, Watchdog, Recorded
  <2>4. InProcess'
    BY <1>1, <1>3, <2>1, <2>2 DEF InProcess
  <2>5. Handed'
    BY <1>1, <1>3, <2>1, <2>2 DEF Handed, Passed, Jobs
  <2>6. Open'
    BY <1>1, <1>4, <2>1, <2>2 DEF Inv, Open
  <2>7. Swapped'
    BY <1>1, <1>3, <2>1, <2>2 DEF Swapped
  <2>8. Unmanaged'
    BY <1>1, <1>3, <2>1, <2>2 DEF Inv, Unmanaged, target
  <2>9. RecordIsTrue'
    BY <1>1 DEF Inv, RecordIsTrue, target
  <2> QED
    BY <2>3, <2>4, <2>5, <2>6, <2>7, <2>8, <2>9 DEF Inv
<1> QED
  BY <1>0, <1>5, <1>6

LEMMA LeaveInv == Inv /\ Leave => Inv'
<1> SUFFICES ASSUME Inv, Leave PROVE Inv'
  OBVIOUS
<1>1. Types'
  <2>1. /\ cp' = [cp EXCEPT !.job = "idle"] \/ cp' = Down
        /\ ready' \in {ready, "stale"} /\ asked' \in {asked, TRUE}
    BY DEF Leave, Goes, Ends, AsksManager
  <2>2. UNCHANGED <<managed, defect, exe, bak, from, began, ahead, active, plan, result, watchdog, rec>>
    BY DEF Leave, fixed, files, papers
  <2>3. Files'
    BY <2>1, <2>2 DEF Inv, Types, Files
  <2>4. ControlPlane'
    BY <2>1, DownType DEF Inv, Types, ControlPlane, Processes
  <2> QED
    BY <2>2, <2>3, <2>4 DEF Inv, Types, Watchdog, Recorded
<1>2. InProcess'
  BY BoundsAssumption DEF Inv, Types, Files, ControlPlane, Processes, Watchdog, Jobs, InProcess,
         Leave, Goes, AsksManager, Down, Ends, fixed
<1>3. Handed'
  BY BoundsAssumption DEF Inv, Types, Files, ControlPlane, Processes, Watchdog, Jobs, Handed, Leave,
         Goes, AsksManager, Down, files, papers, Passed, InProcess
<1>4. Open'
  BY BoundsAssumption DEF Inv, Open, Leave, Goes, files, papers
<1>5. Swapped'
  BY BoundsAssumption DEF Inv, Types, Files, ControlPlane, Processes, Watchdog, Jobs, Swapped,
         Leave, Goes, AsksManager, Down, files, papers, target, None
<1>6. Unmanaged'
  BY BoundsAssumption DEF Inv, Jobs, Unmanaged, Leave, Goes, AsksManager, Down, Ends, fixed, Handed,
         Passed
<1>7. RecordIsTrue'
  BY BoundsAssumption DEF Inv, RecordIsTrue, Leave, Goes, Ends, fixed, files, papers, target, None
<1> QED
  BY <1>1, <1>2, <1>3, <1>4, <1>5, <1>6, <1>7 DEF Inv

-----------------------------------------------------------------------------
(* A control plane that starts, and the end of the task.                   *)

LEMMA resumeAfterRestartInv == Inv /\ resumeAfterRestart => Inv'
<1> SUFFICES ASSUME Inv, resumeAfterRestart PROVE Inv'
  OBVIOUS
<1>1. /\ cp.st = "boot" /\ ready' \in {ready, "live"}
      /\ UNCHANGED <<managed, defect, exe, bak, from, began, ahead, asked, active, plan, result, watchdog, rec>>
      /\ \/ ~active /\ cp' = [cp EXCEPT !.st = "begun"]
         \/ active /\ ~plan /\ cp' = [cp EXCEPT !.st = "begun", !.live = TRUE, !.await = "found", !.seen = "failed"]
         \/ active /\ plan /\ cp' = [cp EXCEPT !.st = "begun", !.live = TRUE, !.await = "wait"]
  BY DEF resumeAfterRestart, fixed, files, papers
<1>2. cp \in Processes /\ Files /\ Watchdog /\ Recorded
  BY DEF Inv, Types, ControlPlane
<1>3. cp.job = "idle" /\ cp.await = "none" /\ ~cp.live
  BY <1>1 DEF Inv, InProcess
<1>4. cp' \in Processes
  <2>1. \/ cp' = [cp EXCEPT !.st = "begun"]
        \/ cp' = [cp EXCEPT !.st = "begun", !.live = TRUE, !.await = "found", !.seen = "failed"]
        \/ cp' = [cp EXCEPT !.st = "begun", !.live = TRUE, !.await = "wait"]
    BY <1>1
  <2>2. CASE cp' = [cp EXCEPT !.st = "begun"]
    BY <1>2, <2>2 DEF Processes
  <2>3. CASE cp' = [cp EXCEPT !.st = "begun", !.live = TRUE, !.await = "found", !.seen = "failed"]
    BY <1>2, <2>3 DEF Processes, Results
  <2>4. CASE cp' = [cp EXCEPT !.st = "begun", !.live = TRUE, !.await = "wait"]
    BY <1>2, <2>4 DEF Processes
  <2> QED
    BY <2>1, <2>2, <2>3, <2>4
<1>5. /\ cp'.st = "begun" /\ cp'.job = "idle" /\ cp'.ver = cp.ver
      /\ \/ ~active /\ cp'.await = "none" /\ ~cp'.live
         \/ active /\ ~plan /\ cp'.await = "found" /\ cp'.live
         \/ active /\ plan /\ cp'.await = "wait" /\ cp'.live
  BY <1>1, <1>2, <1>3 DEF Processes
<1>6. Types'
  BY <1>1, <1>2, <1>4 DEF Types, Files, ControlPlane, Watchdog, Recorded
<1>7. InProcess'
  BY <1>1, <1>5 DEF InProcess
<1>8. Handed'
  BY <1>1, <1>3, <1>5 DEF Inv, Handed, Jobs, Passed
<1>9. Open'
  BY <1>1, <1>3, <1>5 DEF Inv, Open
<1>10. Swapped'
  BY <1>1, <1>5 DEF Inv, Swapped, target
<1>11. Unmanaged'
  BY <1>1, <1>3, <1>5 DEF Inv, Unmanaged, target
<1>12. RecordIsTrue'
  BY <1>1 DEF Inv, RecordIsTrue, target
<1> QED
  BY <1>6, <1>7, <1>8, <1>9, <1>10, <1>11, <1>12 DEF Inv

LEMMA ServeInv == Inv /\ Serve => Inv'
<1> SUFFICES ASSUME Inv, Serve PROVE Inv'
  OBVIOUS
<1>1. Types'
  BY BoundsAssumption DEF Inv, Types, Files, ControlPlane, Processes, Watchdog, Recorded, Results,
         Jobs, Serve, fixed, files, papers, counts
<1>2. InProcess'
  BY BoundsAssumption DEF Inv, InProcess, Serve, fixed, papers
<1>3. Handed'
  BY BoundsAssumption DEF Inv, Handed, Serve, fixed, files, papers, Unmanaged, Passed
<1>4. Open'
  BY BoundsAssumption DEF Inv, Open, Serve, files, papers
<1>5. Swapped'
  BY BoundsAssumption DEF Inv, Swapped, Serve, fixed, files, papers, target, None
<1>6. Unmanaged'
  BY BoundsAssumption DEF Inv, Unmanaged, Serve, fixed, files, papers, target, None
<1>7. RecordIsTrue'
  BY BoundsAssumption DEF Inv, RecordIsTrue, Serve, fixed, files, papers, target, None
<1> QED
  BY <1>1, <1>2, <1>3, <1>4, <1>5, <1>6, <1>7 DEF Inv

LEMMA awaitRestartOutcomeInv == Inv /\ awaitRestartOutcome => Inv'
<1> SUFFICES ASSUME Inv, awaitRestartOutcome PROVE Inv'
  OBVIOUS
<1>1. Types'
  <2>1. \E a \in {"none", "found"} : cp' = [cp EXCEPT !.seen = result, !.await = a]
    BY DEF awaitRestartOutcome, Late
  <2>2. ControlPlane'
    BY <2>1 DEF Inv, Types, ControlPlane, Processes, Files
  <2>3. UNCHANGED <<fixed, files, from, began, ahead, asked, papers, ready, result, watchdog, rec>>
    BY DEF awaitRestartOutcome, Late
  <2> QED
    BY <2>2, <2>3 DEF Inv, Types, Files, Watchdog, Recorded, fixed, files, papers
<1>2. InProcess'
  BY BoundsAssumption DEF Inv, InProcess, Handed, awaitRestartOutcome
<1>3. Handed'
  BY BoundsAssumption DEF Inv, Handed, awaitRestartOutcome, Late, target, fixed, files, papers,
         counts, Passed, InProcess, Unmanaged
<1>4. Open'
  BY BoundsAssumption DEF Inv, Open, awaitRestartOutcome, Late, files, papers
<1>5. Swapped'
  BY BoundsAssumption DEF Inv, Swapped, awaitRestartOutcome, Late, target, fixed, files, papers
<1>6. Unmanaged'
  BY BoundsAssumption DEF Inv, Unmanaged, awaitRestartOutcome, Late, target, fixed, files, papers
<1>7. RecordIsTrue'
  BY BoundsAssumption DEF Inv, RecordIsTrue, awaitRestartOutcome, target, fixed, files
<1> QED
  BY <1>1, <1>2, <1>3, <1>4, <1>5, <1>6, <1>7 DEF Inv

LEMMA finishRestartInv == Inv /\ finishRestart => Inv'
<1> SUFFICES ASSUME Inv, finishRestart PROVE Inv'
  OBVIOUS
<1>1. Types'
  <2>1. /\ ready' \in {ready, "none"} /\ result' \in {result, "none"}
        /\ active' \in {active, FALSE} /\ plan' \in {plan, FALSE}
    BY DEF finishRestart, papers
  <2>2. UNCHANGED <<managed, defect, exe, bak, from, began, ahead, asked, watchdog, rec>>
    BY DEF finishRestart, fixed, files
  <2>3. Files'
    BY <2>1, <2>2 DEF Inv, Types, Files, Results
  <2>4. \E a \in {"none", "book"} : cp' = [cp EXCEPT !.await = a]
    BY DEF finishRestart
  <2>5. ControlPlane'
    BY <2>4 DEF Inv, Types, ControlPlane, Processes
  <2> QED
    BY <2>2, <2>3, <2>5 DEF Inv, Types, Watchdog, Recorded
<1>2. InProcess'
  BY BoundsAssumption DEF Inv, Types, ControlPlane, Processes, InProcess, finishRestart
<1>3. Handed'
  BY BoundsAssumption DEF Inv, Types, ControlPlane, Processes, Watchdog, Jobs, Handed, InProcess,
         finishRestart, papers, fixed, files, Passed, Unmanaged
<1>4. Open'
  BY BoundsAssumption DEF Inv, Types, ControlPlane, Processes, Open, finishRestart, papers, fixed,
         files
<1>5. Swapped'
  BY BoundsAssumption DEF Inv, Types, Files, ControlPlane, Processes, Watchdog, Jobs, Swapped,
         finishRestart, papers, fixed, files, target, None
<1>6. Unmanaged'
  BY BoundsAssumption DEF Inv, Types, ControlPlane, Processes, Watchdog, Jobs, Unmanaged, InProcess,
         finishRestart, papers, fixed, files, counts, Versions, target, Handed
<1>7. RecordIsTrue'
  BY BoundsAssumption DEF Inv, RecordIsTrue, finishRestart, papers, fixed, files, target, None
<1> QED
  BY <1>1, <1>2, <1>3, <1>4, <1>5, <1>6, <1>7 DEF Inv

LEMMA ConcludeInv == Inv /\ Conclude => Inv'
<1> SUFFICES ASSUME Inv, Conclude PROVE Inv'
  OBVIOUS
<1>1. Types'
  <2>1. cp' = [cp EXCEPT !.await = "none", !.live = FALSE]
    BY DEF Conclude
  <2>2. ControlPlane'
    BY <2>1 DEF Inv, Types, ControlPlane, Processes
  <2>3. \E s \in {"succeeded", "rolled_back", "failed"} : rec' = [status |-> s, early |-> FALSE, times |-> rec.times + 1]
    BY DEF Conclude, Record
  <2>4. rec.times = 0
    BY DEF Inv, Open, Conclude
  <2>5. Recorded'
    BY <2>3, <2>4 DEF Recorded, Results
  <2>6. exe' \in {exe, bak} /\ bak' \in {bak, None} /\ UNCHANGED <<fixed, from, began, ahead, asked, papers, ready, result, watchdog>>
    BY DEF Conclude, rollbackLocked, files
  <2>7. Files'
    BY <2>6 DEF Inv, Types, Files, fixed, papers
  <2> QED
    BY <2>2, <2>5, <2>6, <2>7 DEF Inv, Types, Watchdog
<1>2. InProcess'
  BY BoundsAssumption DEF Inv, InProcess, Handed, Conclude, papers
<1>3. Handed'
  BY BoundsAssumption DEF Inv, Jobs, Handed, Conclude, target, fixed, papers, Passed
<1>4. Open'
  BY BoundsAssumption DEF Inv, Jobs, Open, InProcess, Handed, Conclude, target, Record, files,
         fixed, papers
<1>5. Swapped'
  BY BoundsAssumption DEF Inv, Swapped, InProcess, Handed, Conclude, target, Passed, papers
<1>6. Unmanaged'
  BY BoundsAssumption DEF Inv, Types, Recorded, Results, Jobs, Unmanaged, Handed, Conclude, target,
         Record, None, fixed, papers, counts
<1>7. RecordIsTrue'
  BY BoundsAssumption DEF Inv, Types, Files, RecordIsTrue, InProcess, Handed, Open, Swapped,
         Unmanaged, Conclude, target, Record, files, rollbackLocked, None, fixed, papers, counts,
         Versions, Torn
<1> QED
  BY <1>1, <1>2, <1>3, <1>4, <1>5, <1>6, <1>7 DEF Inv

-----------------------------------------------------------------------------
(* The watchdog.                                                           *)

LEMMA waitProcessExitInv == Inv /\ waitProcessExit => Inv'
<1> SUFFICES ASSUME Inv, waitProcessExit PROVE Inv'
  OBVIOUS
<1>1. Types'
  BY BoundsAssumption DEF Inv, Types, Files, ControlPlane, Processes, Watchdog, Recorded, Results,
         Jobs, waitProcessExit, Dog, Reports, dogStays, files, fixed, papers
<1>2. InProcess'
  BY BoundsAssumption DEF Inv, Jobs, InProcess, waitProcessExit, dogStays, files, fixed, papers
<1>3. Handed'
  BY BoundsAssumption DEF Inv, Jobs, Handed, waitProcessExit, Dog, Reports, dogStays, files, fixed,
         papers, Versions, Passed
<1>4. Open'
  BY BoundsAssumption DEF Inv, Jobs, Open, waitProcessExit, dogStays, files, fixed, papers
<1>5. Swapped'
  BY BoundsAssumption DEF Inv, Jobs, Swapped, waitProcessExit, dogStays, files, fixed, target
<1>6. Unmanaged'
  BY BoundsAssumption DEF Inv, Unmanaged, Handed, waitProcessExit, dogStays, files, fixed
<1>7. RecordIsTrue'
  BY BoundsAssumption DEF Inv, Jobs, RecordIsTrue, waitProcessExit, dogStays, files, fixed, target
<1> QED
  BY <1>1, <1>2, <1>3, <1>4, <1>5, <1>6, <1>7 DEF Inv

LEMMA startControlPlaneInv == Inv /\ startControlPlane => Inv'
<1> SUFFICES ASSUME Inv, startControlPlane PROVE Inv'
  OBVIOUS
<1>1. Types'
  <2>1. /\ cp' = cp \/ (exe \in Versions /\ cp' = Boot(exe))
        /\ ready' \in {ready, "stale"} /\ asked' \in {asked, TRUE}
    BY DEF startControlPlane, Startable, Ends, AsksManager
  <2>2. UNCHANGED <<managed, defect, exe, bak, from, began, ahead, active, plan, result, rec>>
    BY DEF startControlPlane, fixed, files, papers
  <2>3. Files'
    BY <2>1, <2>2 DEF Inv, Types, Files
  <2>4. ControlPlane'
    BY <2>1, BootType DEF Inv, Types, ControlPlane
  <2>5. Watchdog'
    BY DEF startControlPlane, Inv, Types, Watchdog, Results, Dog, Reports
  <2> QED
    BY <2>2, <2>3, <2>4, <2>5 DEF Inv, Types, Recorded
<1>2. InProcess'
  BY BoundsAssumption DEF Inv, InProcess, startControlPlane, Dog, Boot, Ends, Fault, fixed, files,
         papers, Versions, Down
<1>3. Handed'
  BY BoundsAssumption DEF Inv, Handed, startControlPlane, Dog, Boot, Ends, Fault, fixed, files,
         papers, Versions, Down, target, Passed, InProcess, Unmanaged
<1>4. Open'
  BY BoundsAssumption DEF Inv, Open, startControlPlane, Dog, Boot, Ends, Fault, fixed, files,
         papers, Versions, Down
<1>5. Swapped'
  <2>1. /\ UNCHANGED <<exe, bak, from, began>>
        /\ cp' = cp \/ cp' = Boot(exe)
        /\ \/ watchdog.at = "start" /\ watchdog'.at \in {"ready", "kill"}
           \/ watchdog'.at \in {"back", "write"}
    BY DEF startControlPlane, files, Dog, Reports, Inv, Types, Watchdog
  <2>2. cp'.job = cp.job \/ cp'.job = "idle"
    BY <2>1 DEF Boot, Down
  <2> QED
    BY <2>1, <2>2 DEF Inv, Swapped, target
<1>6. Unmanaged'
  BY BoundsAssumption DEF Inv, Types, Processes, Watchdog, Unmanaged, startControlPlane, Dog, Boot,
         Ends, Fault, fixed, files, papers, Versions, Down, target
<1>7. RecordIsTrue'
  BY BoundsAssumption DEF Inv, RecordIsTrue, startControlPlane, fixed, files, papers, target
<1> QED
  BY <1>1, <1>2, <1>3, <1>4, <1>5, <1>6, <1>7 DEF Inv

LEMMA waitControlPlaneReadyInv == Inv /\ waitControlPlaneReady => Inv'
<1> SUFFICES ASSUME Inv, waitControlPlaneReady PROVE Inv'
  OBVIOUS
<1>1. Types'
  BY BoundsAssumption DEF Inv, Types, Files, ControlPlane, Processes, Watchdog, Recorded, Results,
         Jobs, waitControlPlaneReady, Dog, Reports, dogStays, files, fixed, papers
<1>2. InProcess'
  BY BoundsAssumption DEF Inv, Jobs, InProcess, waitControlPlaneReady, dogStays, files, fixed,
         papers
<1>3. Handed'
  BY BoundsAssumption DEF Inv, Jobs, Handed, waitControlPlaneReady, Healthy, Reports, dogStays,
         files, fixed, papers, Versions, Passed
<1>4. Open'
  BY BoundsAssumption DEF Inv, Jobs, Open, waitControlPlaneReady, dogStays, files, fixed, papers
<1>5. Swapped'
  BY BoundsAssumption DEF Inv, Jobs, Swapped, waitControlPlaneReady, Healthy, target, Dog, Reports,
         dogStays, files
<1>6. Unmanaged'
  BY BoundsAssumption DEF Inv, Types, Processes, Watchdog, Jobs, Unmanaged, waitControlPlaneReady,
         Healthy, target, Dog, Reports, dogStays, files, fixed, papers, Versions
<1>7. RecordIsTrue'
  BY BoundsAssumption DEF Inv, Jobs, RecordIsTrue, waitControlPlaneReady, Healthy, target, dogStays,
         files, fixed
<1> QED
  BY <1>1, <1>2, <1>3, <1>4, <1>5, <1>6, <1>7 DEF Inv

LEMMA restartFrontendInv == Inv /\ restartFrontend => Inv'
<1> SUFFICES ASSUME Inv, restartFrontend PROVE Inv'
  OBVIOUS
<1>1. Types'
  BY BoundsAssumption DEF Inv, Types, Files, ControlPlane, Processes, Watchdog, Recorded, Results,
         Jobs, restartFrontend, Reports, fixed, files, papers
<1>2. InProcess'
  BY BoundsAssumption DEF Inv, InProcess, restartFrontend, fixed, papers
<1>3. Handed'
  BY BoundsAssumption DEF Inv, Handed, restartFrontend, Reports, fixed, files, papers, Passed
<1>4. Open'
  BY BoundsAssumption DEF Inv, Open, restartFrontend, files, papers
<1>5. Swapped'
  BY BoundsAssumption DEF Inv, Swapped, restartFrontend, Reports, fixed, files, Versions, target
<1>6. Unmanaged'
  BY BoundsAssumption DEF Inv, Types, Jobs, Unmanaged, InProcess, Handed, Swapped, restartFrontend,
         Reports, fixed, files, papers, target, None
<1>7. RecordIsTrue'
  BY BoundsAssumption DEF Inv, RecordIsTrue, Handed, Open, restartFrontend, Reports, Passed, fixed,
         files, target
<1> QED
  BY <1>1, <1>2, <1>3, <1>4, <1>5, <1>6, <1>7 DEF Inv

LEMMA StopNewInv == Inv /\ StopNew => Inv'
<1> SUFFICES ASSUME Inv, StopNew PROVE Inv'
  OBVIOUS
<1>1. Types'
  <2>1. /\ cp' = cp \/ cp' = Down
        /\ ahead' = FALSE /\ ready' \in {ready, "stale"} /\ watchdog' = [watchdog EXCEPT !.at = "restore"]
    BY DEF StopNew, Ends, Dog
  <2>2. UNCHANGED <<managed, defect, exe, bak, from, began, asked, active, plan, result, rec>>
    BY DEF StopNew, fixed, files, papers
  <2>3. Files'
    BY <2>1, <2>2 DEF Inv, Types, Files
  <2>4. ControlPlane'
    BY <2>1, DownType DEF Inv, Types, ControlPlane
  <2>5. Watchdog'
    BY <2>1 DEF Inv, Types, Watchdog
  <2> QED
    BY <2>2, <2>3, <2>4, <2>5 DEF Inv, Types, Recorded
<1>2. InProcess'
  BY BoundsAssumption DEF Inv, Jobs, InProcess, StopNew, Dog, Down, Ends, fixed, files, papers
<1>3. Handed'
  BY BoundsAssumption DEF Inv, Jobs, Handed, StopNew, Dog, Down, Ends, fixed, files, papers, counts,
         Passed
<1>4. Open'
  BY BoundsAssumption DEF Inv, Jobs, Open, StopNew, Dog, Down, files, papers
<1>5. Swapped'
  BY BoundsAssumption DEF Inv, Jobs, Swapped, StopNew, Dog, Down, files, Versions, target
<1>6. Unmanaged'
  BY BoundsAssumption DEF Inv, Unmanaged, StopNew, Dog, Down, Ends, fixed, Handed
<1>7. RecordIsTrue'
  BY BoundsAssumption DEF Inv, Jobs, RecordIsTrue, StopNew, Dog, fixed, files, Versions, target
<1> QED
  BY <1>1, <1>2, <1>3, <1>4, <1>5, <1>6, <1>7 DEF Inv

LEMMA restoreBinaryInv == Inv /\ restoreBinary => Inv'
<1> SUFFICES ASSUME Inv, restoreBinary PROVE Inv'
  OBVIOUS
<1>1. Types'
  BY BoundsAssumption DEF Inv, Types, Files, ControlPlane, Processes, Watchdog, Recorded, Results,
         Jobs, restoreBinary, None, Reports, Dog, Fault, dogStays, fixed, papers, Versions
<1>2. InProcess'
  BY BoundsAssumption DEF Inv, Jobs, InProcess, restoreBinary, dogStays, fixed, papers
<1>3. Handed'
  BY BoundsAssumption DEF Inv, Handed, restoreBinary, None, Fault, dogStays, fixed, papers, Passed,
         InProcess, Unmanaged
<1>4. Open'
  BY BoundsAssumption DEF Inv, Open, Handed, restoreBinary, dogStays, fixed, Passed
<1>5. Swapped'
  BY BoundsAssumption DEF Inv, Types, Watchdog, Jobs, Swapped, Handed, restoreBinary, None, Reports,
         Dog, Passed
<1>6. Unmanaged'
  BY BoundsAssumption DEF Inv, Jobs, Unmanaged, restoreBinary, dogStays, fixed
<1>7. RecordIsTrue'
  BY BoundsAssumption DEF Inv, Types, Jobs, RecordIsTrue, Handed, Open, restoreBinary, None, Fault,
         dogStays, Passed
<1> QED
  BY <1>1, <1>2, <1>3, <1>4, <1>5, <1>6, <1>7 DEF Inv

LEMMA WriteResultInv == Inv /\ WriteResult => Inv'
<1> SUFFICES ASSUME Inv, WriteResult PROVE Inv'
  OBVIOUS
<1>1. Types'
  BY BoundsAssumption DEF Inv, Types, Files, ControlPlane, Processes, Watchdog, Recorded, Results,
         Jobs, WriteResult, NoDog, Fault, fixed, files, papers, Versions
<1>2. InProcess'
  BY BoundsAssumption DEF Inv, InProcess, WriteResult, NoDog, Fault, fixed, files, papers
<1>3. Handed'
  BY BoundsAssumption DEF Inv, Handed, WriteResult, NoDog, files, papers
<1>4. Open'
  BY BoundsAssumption DEF Inv, Open, WriteResult, files, papers
<1>5. Swapped'
  BY BoundsAssumption DEF Inv, Swapped, WriteResult, NoDog, files, papers, Versions, target
<1>6. Unmanaged'
  BY BoundsAssumption DEF Inv, Unmanaged, WriteResult, NoDog, Fault, fixed, files, papers, Versions,
         target, Handed, Passed
<1>7. RecordIsTrue'
  BY BoundsAssumption DEF Inv, RecordIsTrue, WriteResult, NoDog, Fault, fixed, files, papers,
         Versions, target
<1> QED
  BY <1>1, <1>2, <1>3, <1>4, <1>5, <1>6, <1>7 DEF Inv

-----------------------------------------------------------------------------
(* The environment.                                                        *)

LEMMA ManagerRestartsInv == Inv /\ ManagerRestarts => Inv'
<1> SUFFICES ASSUME Inv, ManagerRestarts PROVE Inv'
  OBVIOUS
<1>1. Types'
  <2>1. cp' = Begins(exe) /\ ready' \in {ready, "stale"} /\ asked' = FALSE
    BY DEF ManagerRestarts, Ends
  <2>2. UNCHANGED <<managed, defect, exe, bak, from, began, ahead, active, plan, result, watchdog, rec>>
    BY DEF ManagerRestarts, fixed, files, papers
  <2>3. Files'
    BY <2>1, <2>2 DEF Inv, Types, Files
  <2>4. ControlPlane'
    BY <2>1, DownType, BootType DEF ControlPlane, Begins
  <2> QED
    BY <2>2, <2>3, <2>4 DEF Inv, Types, Watchdog, Recorded
<1>2. InProcess'
  BY BoundsAssumption DEF InProcess, ManagerRestarts, Begins, Ends, Boot, Down
<1>3. Handed'
  BY BoundsAssumption DEF Inv, Jobs, Handed, ManagerRestarts, Begins, files, papers, Boot, Down,
         Passed, InProcess, Unmanaged, Passed
<1>4. Open'
  BY BoundsAssumption DEF Inv, Jobs, Open, ManagerRestarts, Begins, files, papers, Boot, Down
<1>5. Swapped'
  BY BoundsAssumption DEF Inv, Swapped, ManagerRestarts, Begins, files, papers, Boot, Down, target,
         None
<1>6. Unmanaged'
  BY DEF ManagerRestarts, Inv, Unmanaged, fixed
<1>7. RecordIsTrue'
  BY BoundsAssumption DEF Inv, Jobs, RecordIsTrue, ManagerRestarts, fixed, files, target
<1> QED
  BY <1>1, <1>2, <1>3, <1>4, <1>5, <1>6, <1>7 DEF Inv

LEMMA StartAgainInv == Inv /\ StartAgain => Inv'
<1> SUFFICES ASSUME Inv, StartAgain PROVE Inv'
  OBVIOUS
<1>1. Types'
  <2>1. cp' = Boot(exe) /\ exe \in Versions
    BY DEF StartAgain, Startable
  <2>2. ControlPlane'
    BY <2>1, BootType DEF ControlPlane
  <2> QED
    BY <2>2 DEF StartAgain, Inv, Types, Files, Watchdog, Recorded, fixed, files, papers
<1>2. InProcess'
  BY BoundsAssumption DEF Inv, InProcess, StartAgain, Startable, Boot, fixed, Down
<1>3. Handed'
  BY BoundsAssumption DEF Inv, Jobs, Handed, StartAgain, Startable, Boot, fixed, files, papers,
         Down, target, Passed
<1>4. Open'
  BY BoundsAssumption DEF Inv, Jobs, Open, StartAgain, Startable, Boot, fixed, files, papers, Down
<1>5. Swapped'
  BY BoundsAssumption DEF Inv, Jobs, Swapped, StartAgain, Startable, Boot, fixed, files, papers,
         Down, target
<1>6. Unmanaged'
  BY BoundsAssumption DEF Inv, Unmanaged, StartAgain, Startable, Boot, fixed, files, papers, Down,
         target, Handed
<1>7. RecordIsTrue'
  BY BoundsAssumption DEF Inv, Jobs, RecordIsTrue, StartAgain, fixed, files, target
<1> QED
  BY <1>1, <1>2, <1>3, <1>4, <1>5, <1>6, <1>7 DEF Inv

LEMMA BootFailsInv == Inv /\ BootFails => Inv'
<1> SUFFICES ASSUME Inv, BootFails PROVE Inv'
  OBVIOUS
<1>1. Types'
  BY BoundsAssumption DEF Inv, Types, Files, ControlPlane, Processes, Watchdog, Recorded, Results,
         Jobs, BootFails, Down, Ends, fixed, files, papers, counts, Versions, target
<1>2. InProcess'
  BY BoundsAssumption DEF InProcess, BootFails, Down, Ends
<1>3. Handed'
  BY BoundsAssumption DEF Inv, Handed, BootFails, Down, files, papers, Passed, InProcess, Unmanaged,
         Passed, fixed
<1>4. Open'
  BY BoundsAssumption DEF Inv, Open, BootFails, Down, files, papers
<1>5. Swapped'
  BY BoundsAssumption DEF Inv, Swapped, BootFails, Down, files, papers, target
<1>6. Unmanaged'
  BY BoundsAssumption DEF Inv, Unmanaged, BootFails, Down, Ends, fixed, files, papers, target, None,
         Handed
<1>7. RecordIsTrue'
  BY BoundsAssumption DEF Inv, Jobs, RecordIsTrue, BootFails, fixed, files, papers, target
<1> QED
  BY <1>1, <1>2, <1>3, <1>4, <1>5, <1>6, <1>7 DEF Inv

LEMMA ControlPlaneDiesInv == Inv /\ ControlPlaneDies => Inv'
<1> SUFFICES ASSUME Inv, ControlPlaneDies PROVE Inv'
  OBVIOUS
<1>1. Types'
  BY BoundsAssumption DEF Inv, Types, Files, ControlPlane, Processes, Watchdog, Recorded, Results,
         Jobs, ControlPlaneDies, Fault, Down, Ends, fixed, files, papers, Versions, target
<1>2. InProcess'
  BY BoundsAssumption DEF InProcess, ControlPlaneDies, Down, Ends
<1>3. Handed'
  BY BoundsAssumption DEF Inv, Jobs, Handed, ControlPlaneDies, Fault, Down, Ends, fixed, files,
         papers, Versions, Passed
<1>4. Open'
  BY BoundsAssumption DEF Inv, Jobs, Open, ControlPlaneDies, Fault, Down, files, papers
<1>5. Swapped'
  BY BoundsAssumption DEF Inv, Swapped, ControlPlaneDies, Fault, Down, Ends, fixed, files, target,
         None, papers
<1>6. Unmanaged'
  BY BoundsAssumption DEF Inv, Unmanaged, ControlPlaneDies, Fault, Down, Ends, fixed, files, target,
         None, Handed
<1>7. RecordIsTrue'
  BY BoundsAssumption DEF Inv, RecordIsTrue, ControlPlaneDies, Fault, fixed, files, target
<1> QED
  BY <1>1, <1>2, <1>3, <1>4, <1>5, <1>6, <1>7 DEF Inv

LEMMA WatchdogDiesInv == Inv /\ WatchdogDies => Inv'
<1> SUFFICES ASSUME Inv, WatchdogDies PROVE Inv'
  OBVIOUS
<1>1. Types'
  BY BoundsAssumption DEF Inv, Types, Files, ControlPlane, Processes, Watchdog, Recorded, Results,
         Jobs, WatchdogDies, Fault, NoDog, fixed, files, papers, Versions
<1>2. InProcess'
  BY BoundsAssumption DEF Inv, InProcess, WatchdogDies, Fault, NoDog, fixed, files, papers
<1>3. Handed'
  BY BoundsAssumption DEF Inv, Handed, WatchdogDies, Fault, NoDog, fixed, files, papers, Passed
<1>4. Open'
  BY BoundsAssumption DEF Inv, Open, WatchdogDies, files, papers
<1>5. Swapped'
  BY BoundsAssumption DEF Inv, Swapped, WatchdogDies, Fault, NoDog, fixed, files, papers, Versions,
         target
<1>6. Unmanaged'
  BY BoundsAssumption DEF Inv, Unmanaged, WatchdogDies, Fault, NoDog, fixed, files, papers,
         Versions, target, Handed, Passed
<1>7. RecordIsTrue'
  BY BoundsAssumption DEF Inv, RecordIsTrue, WatchdogDies, Fault, NoDog, fixed, files, papers,
         Versions, target
<1> QED
  BY <1>1, <1>2, <1>3, <1>4, <1>5, <1>6, <1>7 DEF Inv

-----------------------------------------------------------------------------
(* The theorems.                                                           *)

LEMMA InitInv == Init => Inv
<1> SUFFICES ASSUME Init PROVE Inv
  OBVIOUS
<1>1. cp = [Down EXCEPT !.st = "up"] /\ 1 \in Versions
  BY OneIsVersion DEF Init
<1>2. cp.job = "idle" /\ cp.await = "none" /\ ~cp.live /\ cp.st = "up" /\ cp.ver = 1
  BY <1>1 DEF Down
<1>3. ControlPlane
  BY <1>1, DownType DEF ControlPlane, Processes
<1>4. Types
  BY <1>1, <1>3 DEF Init, Types, Files, Watchdog, Recorded, Results, NoDog, NoRec
<1>5. InProcess /\ Handed
  BY <1>2 DEF Init, InProcess, Handed, NoDog, Jobs
<1>6. Open /\ Swapped /\ Unmanaged /\ RecordIsTrue
  BY <1>2 DEF Init, Open, Swapped, Unmanaged, RecordIsTrue, NoDog, NoRec
<1> QED
  BY <1>4, <1>5, <1>6 DEF Inv

LEMMA StutterInv == Inv /\ UNCHANGED vars => Inv'
BY DEF vars, fixed, files, papers, counts, Inv, Types, Files, ControlPlane, Watchdog, Recorded,
       InProcess, Handed, Passed, Open, Swapped, Unmanaged, RecordIsTrue, target

LEMMA NextInv == Inv /\ [Next]_vars => Inv'
<1> SUFFICES ASSUME Inv, [Next]_vars PROVE Inv'
  OBVIOUS
<1>1. CASE Upgrades
  BY <1>1, BeginSwapInv, CopyBinaryInv, RolloutInv, failExecuteInv, PersistTaskInv, PersistPlanInv,
         SpawnWatchdogInv, LeaveInv DEF Upgrades
<1>2. CASE Resumes
  BY <1>2, awaitRestartOutcomeInv, finishRestartInv, ConcludeInv DEF Resumes
<1>3. CASE Starts
  BY <1>3, resumeAfterRestartInv, ServeInv, BootFailsInv, ManagerRestartsInv, StartAgainInv
         DEF Starts
<1>4. CASE Watches
  BY <1>4, waitProcessExitInv, startControlPlaneInv, waitControlPlaneReadyInv, restartFrontendInv,
         StopNewInv, restoreBinaryInv, WriteResultInv DEF Watches
<1> QED
  BY <1>1, <1>2, <1>3, <1>4, ExecuteInv, ControlPlaneDiesInv, WatchdogDiesInv, StutterInv DEF Next

LEMMA Safe == Spec => []Inv
BY InitInv, NextInv, PTL DEF Spec

\* Every variable keeps its type, a live ready marker is the running process's,
\* and only a task in a process is worked on.
THEOREM TypeCorrect == Spec => []TypeOK
<1>1. Inv => TypeOK
  BY DEF Inv, Types, Files, ControlPlane, Processes, Watchdog, Recorded, Results, Jobs, InProcess,
         TypeOK
<1> QED
  BY <1>1, Safe, PTL

\* The executable a task began with, whichever version that is, is kept until the
\* task is recorded, whatever dies and whatever write or copy fails (applyStep,
\* restoreBinary).
THEOREM OldVersionSafe == Spec => []OldKept
<1>1. Inv => OldKept
  BY DEF Inv, Open, OldKept, Types, Recorded
<1> QED
  BY <1>1, Safe, PTL

\* A task is recorded once, and the record says what the files hold
\* (finishRestart, failExecute).
THEOREM RecordTrue == Spec => []RecordIsTrue
<1>1. Inv => RecordIsTrue
  BY DEF Inv
<1> QED
  BY <1>1, Safe, PTL

\* While a watchdog is at work nobody else touches what it works with: executable
\* and backup, the frontend, the files of the task, its result and its record; a
\* control plane that starts, resumes the task or dies meanwhile included (Execute,
\* resumeAfterRestart, finishRestart).  Where no manager runs that ends with the
\* new version's readiness: the watchdog has only the frontend left, and the wait
\* for its result may end before that.
THEOREM OneWrites ==
    Spec => [][watchdog.at # "none" /\ ~Passed /\ UNCHANGED watchdog
               => UNCHANGED <<files, ahead, papers, result, from, began, rec>>]_vars
<1>1. ASSUME Inv, [Next]_vars, watchdog.at # "none", ~Passed, UNCHANGED watchdog
      PROVE  UNCHANGED <<files, ahead, papers, result, from, began, rec>>
  <2>1. /\ cp.job \in {"idle", "leave"} /\ cp.await \notin {"found", "book"}
        /\ cp.st = "up" => cp.live
    BY <1>1 DEF Inv, Handed, InProcess, Passed
  <2>2. watchdog = [at |-> watchdog.at, res |-> watchdog.res]
    BY <1>1 DEF Inv, Types, Watchdog
  <2>3. (~Execute /\ ~Upgrades) \/ Leave
    BY <2>1 DEF Execute, Upgrades, BeginSwap, CopyBinary, Rollout, failExecute, PersistTask,
           PersistPlan, SpawnWatchdog
  <2>4. CASE Leave
    BY <2>4 DEF Leave
  <2>5. CASE Resumes
    BY <2>1, <2>5 DEF Resumes, awaitRestartOutcome, Late, finishRestart, Conclude
  <2>6. CASE Starts \/ ControlPlaneDies
    BY <2>6 DEF Starts, resumeAfterRestart, Serve, BootFails, ManagerRestarts, StartAgain,
           ControlPlaneDies, files
  <2>7. ~Watches
    <3>1. ~waitProcessExit /\ ~waitControlPlaneReady /\ ~restartFrontend /\ ~StopNew
      BY <1>1, <2>2 DEF waitProcessExit, waitControlPlaneReady, restartFrontend, StopNew, Dog,
             Reports
    <3>2. ~startControlPlane
      BY <1>1, <2>2 DEF startControlPlane, Dog, Reports
    <3>3. ~restoreBinary /\ ~WriteResult
      BY <1>1, <2>2 DEF restoreBinary, WriteResult, Dog, Reports, NoDog
    <3> QED
      BY <3>1, <3>2, <3>3 DEF Watches
  <2>8. ~WatchdogDies
    BY <1>1 DEF WatchdogDies, NoDog
  <2>9. CASE UNCHANGED vars
    BY <2>9 DEF vars
  <2> QED
    BY <1>1, <2>3, <2>4, <2>5, <2>6, <2>7, <2>8, <2>9 DEF Next
<1> QED
  BY <1>1, Safe, PTL DEF Spec

-----------------------------------------------------------------------------
(* Where the upgrade may come to rest.                                     *)

\* A step that only the code has to take: of the goroutine, of what follows a
\* restart, of a start, of the watchdog.
UpgradeDue == cp.job # "idle" /\ (cp.job = "persist" => watchdog.at = "none")

ResumeDue ==
    \/ cp.await \in {"found", "book"}
    \/ cp.await \in {"handover", "wait"} /\ (result # "none" \/ (Late /\ cp.job = "idle"))

StartDue ==
    \/ cp.st = "boot" \/ asked
    \/ cp.st = "begun" /\ defect[cp.ver] # "serve"
    \/ cp.st = "down" /\ Startable /\ (managed \/ watchdog.at = "none")

WatchDue ==
    \/ watchdog.at \notin {"none", "exit"}
    \/ watchdog.at = "exit" /\ (cp.first => managed /\ cp.job = "idle")

\* Where nothing is left to do the task is concluded and a control plane serves,
\* or nobody could help and what is left does not run.
RestsWell ==
    ~(UpgradeDue \/ ResumeDue \/ StartDue \/ WatchDue)
    => (~active /\ cp.st = "up") \/ (unwatched /\ Stuck)

\* What serves is without a defect, only that executes a task, and the process
\* that handed over waits for its end until it is replaced.
Runs ==
    /\ cp.st = "begun" => defect[cp.ver] # "boot"
    /\ cp.st = "up" => Runnable(cp.ver)
    /\ cp.job # "idle" => cp.st = "up"
    /\ cp.st \in {"down", "boot"} => ~cp.first
    /\ cp.await = "handover" => cp.first
    /\ cp.job = "leave" => (managed => cp.await = "handover") /\ (watchdog.at = "exit" \/ unwatched)

\* The executable that is kept would run, unless the task began without one
\* that does, and the watchdog starts it again.
WayBack ==
    /\ unwatched \/ Runnable(began)
    /\ watchdog.at \in {"restart", "back"} => exe = began

\* The new version was ready.
Won == watchdog.at = "frontend" \/ (watchdog.at = "write" /\ watchdog.res = "succeeded") \/ result = "succeeded"

\* A success is the target's: whatever runs is that, and not the old process.
Succeeds ==
    /\ watchdog.at \in {"start", "ready", "frontend"} => ~cp.first
    /\ Won /\ active => exe = target /\ ~cp.first /\ (cp.st # "down" => cp.ver = target)

\* A process that has begun to run does not forget the task.
Cares == cp.st \in {"begun", "up"} /\ active => cp.job # "idle" \/ cp.await # "none"

\* Where the watchdog has the target to try, or to take back.
Busy == {"exit", "start", "ready", "kill", "restore", "copy"}

\* Outside of that, unless the task was left alone, the executable would run, or
\* a process serves for as long as it lives; and the process works, or it is about
\* to be replaced.
Saved ==
    ~unwatched /\ cp.job = "idle" /\ watchdog.at \notin Busy =>
        /\ Runnable(exe) \/ (cp.st = "up" /\ ~active)
        /\ asked \/ watchdog.at = "restart" \/ cp.st = "down" \/ Runnable(cp.ver)

Onward == Runs /\ WayBack /\ Succeeds /\ Cares /\ Saved

LEMMA ExecuteOnward == Inv /\ Onward /\ Execute => Onward'
<1> SUFFICES ASSUME Inv, Onward, Execute PROVE Onward'
  OBVIOUS
<1>1. Runs'
  BY DEF Onward, Runs, Runnable, Execute, fixed
<1>2. WayBack'
  BY DEF WayBack, Runs, Runnable, Execute, fixed, files, Inv
<1>3. Succeeds'
  BY DEF Succeeds, Inv, InProcess, Handed, Execute, Onward, Runs, target, Passed, papers, files
<1>4. Cares'
  BY DEF Cares, Execute, Inv, Handed
<1>5. Saved'
  BY DEF Saved, Execute
<1> QED
  BY <1>1, <1>2, <1>3, <1>4, <1>5 DEF Onward

LEMMA BeginSwapOnward == Inv /\ Onward /\ BeginSwap => Onward'
<1> SUFFICES ASSUME Inv, Onward, BeginSwap PROVE Onward'
  OBVIOUS
<1>1. Runs'
  BY DEF Onward, Runs, Runnable, Inv, Types, ControlPlane, Processes, BeginSwap, Goes, fixed
<1>2. WayBack'
  BY DEF Onward, WayBack, Runnable, Inv, Handed, Swapped, BeginSwap, fixed, files, Passed
<1>3. Succeeds'
  BY DEF Onward, Succeeds, Runnable, Inv, Swapped, Versions, target, BeginSwap, Runs, Handed,
         Passed, papers, files, Types, ControlPlane, Processes, Jobs, Goes
<1>4. Cares'
  BY DEF Cares, Inv, Types, ControlPlane, Processes, BeginSwap, Goes, Handed
<1>5. Saved'
  BY DEF Saved, Inv, Types, ControlPlane, Processes, BeginSwap, Goes, Handed
<1> QED
  BY <1>1, <1>2, <1>3, <1>4, <1>5 DEF Onward

LEMMA CopyBinaryOnward == Inv /\ Onward /\ CopyBinary => Onward'
<1> SUFFICES ASSUME Inv, Onward, CopyBinary PROVE Onward'
  OBVIOUS
<1>1. Runs'
  BY DEF Onward, Runs, Runnable, Inv, Types, ControlPlane, Processes, CopyBinary, Goes, fixed
<1>2. WayBack'
  BY DEF Onward, WayBack, Runnable, Inv, Handed, CopyBinary, fixed, Passed
<1>3. Succeeds'
  BY DEF Succeeds, Won, Inv, Jobs, Handed, CopyBinary, Onward, Runs, target, Passed, papers, files,
         Types, ControlPlane, Processes, Goes
<1>4. Cares'
  BY DEF Cares, Inv, Types, ControlPlane, Processes, CopyBinary, Goes, Handed
<1>5. Saved'
  BY DEF Saved, Inv, Types, ControlPlane, Processes, CopyBinary, Goes, Handed
<1> QED
  BY <1>1, <1>2, <1>3, <1>4, <1>5 DEF Onward

LEMMA RolloutOnward == Inv /\ Onward /\ Rollout => Onward'
<1> SUFFICES ASSUME Inv, Onward, Rollout PROVE Onward'
  OBVIOUS
<1>1. Runs'
  BY DEF Onward, Runs, Runnable, Inv, Types, ControlPlane, Processes, Rollout, Goes, fixed
<1>2. WayBack'
  BY DEF Onward, WayBack, Runnable, Rollout, fixed, files
<1>3. Succeeds'
  BY DEF Onward, Succeeds, Won, Inv, Types, ControlPlane, Processes, target, Rollout, Goes, files,
         Runs, Handed, Passed, papers
<1>4. Cares'
  BY DEF Cares, Inv, Types, ControlPlane, Processes, Rollout, Goes, Handed
<1>5. Saved'
  BY DEF Saved, Inv, Types, ControlPlane, Processes, Rollout, Goes, Handed
<1> QED
  BY <1>1, <1>2, <1>3, <1>4, <1>5 DEF Onward

LEMMA failExecuteOnward == Inv /\ Onward /\ failExecute => Onward'
<1> SUFFICES ASSUME Inv, Onward, failExecute PROVE Onward'
  OBVIOUS
<1>1. Runs'
  BY DEF Onward, Runs, Runnable, failExecute, fixed
<1>2. WayBack'
  BY DEF Onward, WayBack, Runnable, Inv, Handed, failExecute, rollbackLocked, fixed, files, Passed
<1>3. Succeeds'
  BY DEF Succeeds, Inv, Jobs, Handed, failExecute, Onward, Runs, target, Passed, papers, files
<1>4. Cares'
  BY DEF Cares, Inv, Jobs, Handed, failExecute, papers
<1>5. Saved'
  BY DEF Onward, Saved, Runs, WayBack, Runnable, Inv, Swapped, Versions, None, failExecute,
         rollbackLocked, fixed, files, Handed, Passed, papers
<1> QED
  BY <1>1, <1>2, <1>3, <1>4, <1>5 DEF Onward

LEMMA PersistTaskOnward == Inv /\ Onward /\ PersistTask => Onward'
<1> SUFFICES ASSUME Inv, Onward, PersistTask PROVE Onward'
  OBVIOUS
<1>1. Runs'
  BY DEF Onward, Runs, Runnable, Inv, Types, ControlPlane, Processes, PersistTask, Goes, fixed
<1>2. WayBack'
  BY DEF Onward, WayBack, Runnable, PersistTask, fixed, files
<1>3. Succeeds'
  BY DEF Succeeds, WayBack, Won, Runnable, Inv, Handed, Versions, None, PersistTask, Runs, target
<1>4. Cares'
  BY DEF Cares, Inv, Types, ControlPlane, Processes, PersistTask, Goes, Handed
<1>5. Saved'
  BY DEF Saved, Inv, Types, ControlPlane, Processes, PersistTask, Goes, Handed
<1> QED
  BY <1>1, <1>2, <1>3, <1>4, <1>5 DEF Onward

LEMMA PersistPlanOnward == Inv /\ Onward /\ PersistPlan => Onward'
<1> SUFFICES ASSUME Inv, Onward, PersistPlan PROVE Onward'
  OBVIOUS
<1>1. Runs'
  BY DEF Onward, Runs, Runnable, Inv, Types, ControlPlane, Processes, PersistPlan, Goes, fixed
<1>2. WayBack'
  BY DEF Onward, WayBack, Runnable, PersistPlan, fixed, files
<1>3. Succeeds'
  BY DEF Succeeds, Won, Inv, Handed, PersistPlan
<1>4. Cares'
  BY DEF Cares, Inv, Types, ControlPlane, Processes, PersistPlan, Goes, Handed
<1>5. Saved'
  BY DEF Saved, Inv, Types, ControlPlane, Processes, PersistPlan, Goes, Handed
<1> QED
  BY <1>1, <1>2, <1>3, <1>4, <1>5 DEF Onward

LEMMA SpawnWatchdogOnward == Inv /\ Onward /\ SpawnWatchdog => Onward'
<1> SUFFICES ASSUME Inv, Onward, SpawnWatchdog PROVE Onward'
  OBVIOUS
<1>1. Runs'
  <2>1. /\ cp.job = "spawn" /\ UNCHANGED defect
        /\ \/ cp' = [cp EXCEPT !.job = "undo"]
           \/ /\ cp' = [cp EXCEPT !.job = "leave", !.first = TRUE, !.await = IF managed THEN "handover" ELSE "none"]
              /\ watchdog'.at = "exit"
        /\ managed' = managed
    BY DEF SpawnWatchdog, Goes, NoDog, fixed
  <2>2. cp.st = "up" /\ Runnable(cp.ver) /\ cp \in Processes /\ (cp.await = "handover" => cp.first)
    BY <2>1 DEF Onward, Runs, Inv, Types, ControlPlane
  <2> QED
    BY <2>1, <2>2 DEF Runs, Runnable, Processes
<1>2. WayBack'
  BY DEF Onward, WayBack, Runnable, SpawnWatchdog, NoDog, fixed, files, Inv
<1>3. Succeeds'
  BY DEF Succeeds, Won, Inv, Handed, SpawnWatchdog, NoDog
<1>4. Cares'
  BY DEF Cares, Inv, Types, ControlPlane, Processes, SpawnWatchdog
<1>5. Saved'
  BY DEF Saved, Inv, Types, ControlPlane, Processes, SpawnWatchdog, Goes, Handed
<1> QED
  BY <1>1, <1>2, <1>3, <1>4, <1>5 DEF Onward

LEMMA LeaveOnward == Inv /\ Onward /\ Leave => Onward'
<1> SUFFICES ASSUME Inv, Onward, Leave PROVE Onward'
  OBVIOUS
<1>1. Runs'
  BY DEF Onward, Runs, Runnable, Inv, Types, ControlPlane, Processes, Leave, Goes, Down, fixed
<1>2. WayBack'
  BY DEF Onward, WayBack, Runnable, Leave, fixed, files, Passed, AsksManager
<1>3. Succeeds'
  BY DEF Succeeds, Won, target, Leave, Down, files, Inv, Handed, Passed, papers
<1>4. Cares'
  BY DEF Onward, Cares, Runs, Inv, Types, ControlPlane, Processes, Leave, Goes, Down
<1>5. Saved'
  BY DEF Onward, Saved, Runs, Busy, Leave, AsksManager
<1> QED
  BY <1>1, <1>2, <1>3, <1>4, <1>5 DEF Onward

LEMMA resumeAfterRestartOnward == Inv /\ Onward /\ resumeAfterRestart => Onward'
<1> SUFFICES ASSUME Inv, Onward, resumeAfterRestart PROVE Onward'
  OBVIOUS
<1>1. Runs'
  <2>1. /\ cp.st = "boot" /\ defect[cp.ver] # "boot" /\ UNCHANGED defect
        /\ \/ cp' = [cp EXCEPT !.st = "begun"]
           \/ cp' = [cp EXCEPT !.st = "begun", !.live = TRUE, !.await = "found", !.seen = "failed"]
           \/ cp' = [cp EXCEPT !.st = "begun", !.live = TRUE, !.await = "wait"]
    BY DEF resumeAfterRestart, fixed
  <2>2. cp \in Processes /\ cp.job = "idle" /\ cp.await = "none"
    BY <2>1 DEF Inv, Types, ControlPlane, InProcess
  <2> QED
    BY <2>1, <2>2 DEF Runs, Processes
<1>2. WayBack'
  BY DEF Onward, WayBack, Runnable, resumeAfterRestart, fixed, files
<1>3. Succeeds'
  BY DEF Onward, Succeeds, Won, Inv, Types, ControlPlane, Processes, target, resumeAfterRestart,
         files, Runs, Handed, Passed, papers
<1>4. Cares'
  BY DEF Cares, Inv, Types, ControlPlane, Processes, resumeAfterRestart, papers, Handed
<1>5. Saved'
  BY DEF Onward, Saved, Runnable, Inv, Types, ControlPlane, Processes, resumeAfterRestart, fixed,
         files, Handed, Passed
<1> QED
  BY <1>1, <1>2, <1>3, <1>4, <1>5 DEF Onward

LEMMA ServeOnward == Inv /\ Onward /\ Serve => Onward'
<1> SUFFICES ASSUME Inv, Onward, Serve PROVE Onward'
  OBVIOUS
<1>1. Runs'
  BY DEF Onward, Runs, Runnable, Inv, Types, Files, ControlPlane, Processes, Serve, fixed
<1>2. WayBack'
  BY DEF Onward, WayBack, Runnable, Serve, fixed, files
<1>3. Succeeds'
  BY DEF Onward, Succeeds, Won, target, Serve, files, papers
<1>4. Cares'
  BY DEF Onward, Cares, Serve, papers
<1>5. Saved'
  BY DEF Onward, Saved, Runnable, Serve, fixed, files
<1> QED
  BY <1>1, <1>2, <1>3, <1>4, <1>5 DEF Onward

LEMMA awaitRestartOutcomeOnward == Inv /\ Onward /\ awaitRestartOutcome => Onward'
<1> SUFFICES ASSUME Inv, Onward, awaitRestartOutcome PROVE Onward'
  OBVIOUS
<1>1. Runs'
  BY DEF Onward, Runs, Runnable, Inv, Handed, awaitRestartOutcome, Late, fixed
<1>2. WayBack'
  BY DEF Onward, WayBack, Runnable, awaitRestartOutcome, Late, fixed, files, Inv
<1>3. Succeeds'
  BY DEF Onward, Succeeds, Won, target, awaitRestartOutcome, Late, files, Runs, Inv, Handed, Passed,
         papers
<1>4. Cares'
  BY DEF Onward, Cares, Runs, Won, Succeeds, awaitRestartOutcome, Handed, papers
<1>5. Saved'
  BY DEF Onward, Saved, Runnable, awaitRestartOutcome, Late, fixed, files, Inv, papers
<1> QED
  BY <1>1, <1>2, <1>3, <1>4, <1>5 DEF Onward

LEMMA finishRestartOnward == Inv /\ Onward /\ finishRestart => Onward'
<1> SUFFICES ASSUME Inv, Onward, finishRestart PROVE Onward'
  OBVIOUS
<1>1. Runs'
  BY DEF Onward, Runs, Runnable, Inv, Types, ControlPlane, Processes, finishRestart, fixed
<1>2. WayBack'
  BY DEF Onward, WayBack, Runnable, finishRestart, fixed, files
<1>3. Succeeds'
  BY DEF Succeeds, Inv, Handed, finishRestart, Onward, papers, files, Types, ControlPlane, Processes
<1>4. Cares'
  BY DEF Cares, finishRestart, papers, Inv, Handed
<1>5. Saved'
  BY DEF Onward, Saved, Runnable, Inv, Types, ControlPlane, Processes, finishRestart, fixed, files,
         Handed, Passed, papers
<1> QED
  BY <1>1, <1>2, <1>3, <1>4, <1>5 DEF Onward

LEMMA ConcludeOnward == Inv /\ Onward /\ Conclude => Onward'
<1> SUFFICES ASSUME Inv, Onward, Conclude PROVE Onward'
  OBVIOUS
<1>1. Runs'
  BY DEF Onward, Runs, Runnable, Conclude, fixed
<1>2. WayBack'
  BY DEF Onward, WayBack, Runnable, Inv, Handed, Conclude, rollbackLocked, fixed, files, Passed
<1>3. Succeeds'
  BY DEF Succeeds, Won, Inv, Handed, Conclude, Onward, Passed, papers
<1>4. Cares'
  BY DEF Cares, Inv, Handed, Conclude, papers
<1>5. Saved'
  <2>1. /\ cp.await = "book" /\ bak = began /\ began # None /\ ~active /\ cp.job = "idle"
        /\ UNCHANGED <<defect, asked, active, watchdog, unwatched, began>>
    BY DEF Inv, Handed, InProcess, Conclude, fixed, papers
  <2>2. /\ cp'.st = cp.st /\ cp'.ver = cp.ver /\ cp'.job = cp.job
        /\ (cp.ver = target /\ exe' = exe) \/ (cp.ver # target /\ exe' = began)
    BY <2>1 DEF Inv, Types, ControlPlane, Processes, Conclude, rollbackLocked, files
  <2> QED
    BY <2>1, <2>2 DEF Onward, Saved, WayBack, Runnable, Inv, Types, Handed
<1> QED
  BY <1>1, <1>2, <1>3, <1>4, <1>5 DEF Onward

LEMMA waitProcessExitOnward == Inv /\ Onward /\ waitProcessExit => Onward'
<1> SUFFICES ASSUME Inv, Onward, waitProcessExit PROVE Onward'
  OBVIOUS
<1>1. Runs'
  BY DEF Onward, Runs, Runnable, Inv, Handed, waitProcessExit, dogStays, fixed
<1>2. WayBack'
  BY DEF Onward, WayBack, Runnable, Inv, Types, Watchdog, waitProcessExit, dogStays, Dog, Reports,
         fixed, files
<1>3. Succeeds'
  BY DEF Onward, Succeeds, Won, Inv, Types, Watchdog, target, waitProcessExit, dogStays, Dog,
         Reports, files, Runs, Handed, Passed, papers
<1>4. Cares'
  BY DEF Onward, Cares, waitProcessExit, dogStays, papers
<1>5. Saved'
  BY DEF Saved, Busy, Inv, Types, Watchdog, waitProcessExit, Dog, Handed
<1> QED
  BY <1>1, <1>2, <1>3, <1>4, <1>5 DEF Onward

LEMMA startControlPlaneOnward == Inv /\ Onward /\ startControlPlane => Onward'
<1> SUFFICES ASSUME Inv, Onward, startControlPlane PROVE Onward'
  OBVIOUS
<1>1. Runs'
  BY DEF Onward, Runs, Runnable, Inv, Unmanaged, startControlPlane, AsksManager, Boot, Down, fixed
<1>2. WayBack'
  BY DEF Onward, WayBack, Runnable, Inv, Types, Watchdog, startControlPlane, Dog, fixed, files,
         Handed, Passed, AsksManager
<1>3. Succeeds'
  <2>1. /\ watchdog.at \in {"start", "restart"} /\ UNCHANGED <<exe, result, from>>
        /\ watchdog'.at \in {"ready", "back", "kill"} \/ (watchdog'.at = "write" /\ watchdog'.res = "failed")
        /\ watchdog'.at = "ready" => watchdog.at = "start"
    BY DEF startControlPlane, Dog, Reports, files, Inv, Types, Watchdog
  <2>2. cp' = cp \/ ~cp'.first
    BY DEF startControlPlane, Boot, Down
  <2>3. result # "succeeded"
    BY <2>1 DEF Inv, Handed
  <2> QED
    BY <2>1, <2>2, <2>3 DEF Onward, Succeeds, Won
<1>4. Cares'
  BY DEF Onward, Cares, startControlPlane, Boot, Down, papers
<1>5. Saved'
  <2>1. /\ UNCHANGED <<defect, exe>> /\ (~unwatched' => ~unwatched)
        /\ watchdog.at = "start" => watchdog'.at \in {"ready", "kill"}
    BY DEF startControlPlane, AsksManager, Dog, Inv, Types, Watchdog, fixed, files
  <2>2. CASE watchdog.at = "start"
    BY <2>1, <2>2 DEF Saved, Busy
  <2>3. CASE watchdog.at = "restart"
    <3>1. ~unwatched' => Runnable(exe)'
      BY <2>1, <2>3 DEF Onward, WayBack, Runnable
    <3>2. CASE managed
      BY <2>3, <3>1, <3>2 DEF startControlPlane, AsksManager, Saved
    <3>3. CASE ~managed
      <4>1. \/ cp' = Boot(exe)
            \/ cp' = cp /\ cp.st = "down"
        BY <2>3, <3>3 DEF startControlPlane, Inv, Unmanaged
      <4>2. cp'.st = "down" \/ cp'.ver = exe'
        BY <2>1, <4>1 DEF Boot, Down
      <4> QED
        BY <2>1, <3>1, <4>2 DEF Saved, Runnable
    <3> QED
      BY <3>2, <3>3
  <2> QED
    BY <2>2, <2>3 DEF startControlPlane
<1> QED
  BY <1>1, <1>2, <1>3, <1>4, <1>5 DEF Onward

LEMMA waitControlPlaneReadyOnward == Inv /\ Onward /\ waitControlPlaneReady => Onward'
<1> SUFFICES ASSUME Inv, Onward, waitControlPlaneReady PROVE Onward'
  OBVIOUS
<1>1. Runs'
  BY DEF Onward, Runs, Runnable, waitControlPlaneReady, dogStays, fixed
<1>2. WayBack'
  BY DEF Onward, WayBack, Runnable, Inv, Types, Watchdog, waitControlPlaneReady, dogStays, Dog,
         fixed, files, Handed
<1>3. Succeeds'
  BY DEF Onward, Succeeds, Won, Inv, Types, Watchdog, Swapped, target, waitControlPlaneReady,
         Healthy, dogStays, Dog, Reports, files, Runs, Handed
<1>4. Cares'
  BY DEF Onward, Cares, waitControlPlaneReady, dogStays, papers
<1>5. Saved'
  BY DEF Onward, Saved, Runs, Runnable, Busy, Inv, Types, Watchdog, Swapped, waitControlPlaneReady,
         Healthy, dogStays, Dog, fixed, files, Handed, Passed, papers
<1> QED
  BY <1>1, <1>2, <1>3, <1>4, <1>5 DEF Onward

LEMMA restartFrontendOnward == Inv /\ Onward /\ restartFrontend => Onward'
<1> SUFFICES ASSUME Inv, Onward, restartFrontend PROVE Onward'
  OBVIOUS
<1>1. Runs'
  BY DEF Onward, Runs, Runnable, restartFrontend, fixed
<1>2. WayBack'
  BY DEF Onward, WayBack, Runnable, restartFrontend, Reports, fixed
<1>3. Succeeds'
  BY DEF Onward, Succeeds, Won, target, restartFrontend, files, papers
<1>4. Cares'
  BY DEF Onward, Cares, restartFrontend, papers
<1>5. Saved'
  BY DEF Onward, Saved, Runnable, Busy, restartFrontend, fixed, files, Inv, papers
<1> QED
  BY <1>1, <1>2, <1>3, <1>4, <1>5 DEF Onward

LEMMA StopNewOnward == Inv /\ Onward /\ StopNew => Onward'
<1> SUFFICES ASSUME Inv, Onward, StopNew PROVE Onward'
  OBVIOUS
<1>1. Runs'
  BY DEF Onward, Runs, Runnable, StopNew, Down, fixed
<1>2. WayBack'
  BY DEF Onward, WayBack, Runnable, StopNew, Dog, fixed
<1>3. Succeeds'
  BY DEF Succeeds, Won, target, StopNew, Dog, Inv, Handed, Passed
<1>4. Cares'
  BY DEF Onward, Cares, StopNew, Down, papers
<1>5. Saved'
  BY DEF Saved, Busy, StopNew, Dog
<1> QED
  BY <1>1, <1>2, <1>3, <1>4, <1>5 DEF Onward

LEMMA restoreBinaryOnward == Inv /\ Onward /\ restoreBinary => Onward'
<1> SUFFICES ASSUME Inv, Onward, restoreBinary PROVE Onward'
  OBVIOUS
<1>1. Runs'
  BY DEF Onward, Runs, Runnable, restoreBinary, dogStays, fixed
<1>2. WayBack'
  BY DEF Onward, WayBack, Runnable, Inv, Types, Watchdog, Handed, restoreBinary, dogStays, Dog,
         Reports, fixed, Passed
<1>3. Succeeds'
  BY DEF Succeeds, Won, Inv, Types, Watchdog, Handed, restoreBinary, dogStays, Dog, Reports, Onward,
         Runs
<1>4. Cares'
  BY DEF Onward, Cares, restoreBinary, dogStays, papers
<1>5. Saved'
  BY DEF Onward, Saved, WayBack, Runnable, Busy, Inv, Types, Watchdog, Handed, Versions, None,
         restoreBinary, dogStays, Dog, fixed, Passed
<1> QED
  BY <1>1, <1>2, <1>3, <1>4, <1>5 DEF Onward

LEMMA WriteResultOnward == Inv /\ Onward /\ WriteResult => Onward'
<1> SUFFICES ASSUME Inv, Onward, WriteResult PROVE Onward'
  OBVIOUS
<1>1. Runs'
  BY DEF Onward, Runs, Runnable, WriteResult, fixed
<1>2. WayBack'
  BY DEF Onward, WayBack, Runnable, WriteResult, NoDog, fixed
<1>3. Succeeds'
  BY DEF Onward, Succeeds, Won, target, WriteResult, NoDog, files, Runs, Inv, Handed, Passed, papers
<1>4. Cares'
  BY DEF Onward, Cares, WriteResult, papers
<1>5. Saved'
  BY DEF Onward, Saved, Runnable, Busy, WriteResult, fixed, files, Inv, papers
<1> QED
  BY <1>1, <1>2, <1>3, <1>4, <1>5 DEF Onward

LEMMA ManagerRestartsOnward == Inv /\ Onward /\ ManagerRestarts => Onward'
<1> SUFFICES ASSUME Inv, Onward, ManagerRestarts PROVE Onward'
  OBVIOUS
<1>1. /\ cp'.st \in {"down", "boot"} /\ cp'.job = "idle" /\ cp'.await = "none" /\ ~cp'.first
      /\ cp'.st # "down" => cp'.ver = exe
  BY BeginsFacts DEF ManagerRestarts
<1>2. /\ UNCHANGED <<managed, defect, exe, bak, from, began, active, result, watchdog>>
      /\ ~unwatched' => ~unwatched /\ watchdog.at # "none" /\ active
  BY DEF ManagerRestarts, fixed, files, papers
<1>3. Runs' /\ Cares'
  BY <1>1 DEF Runs, Cares
<1>4. WayBack'
  BY <1>2 DEF Onward, WayBack, Runnable
<1>5. Succeeds'
  BY <1>1, <1>2 DEF Onward, Succeeds, Won, target
<1>6. Saved'
  <2>1. ~unwatched' /\ watchdog.at \notin Busy => cp.job = "idle"
    BY <1>2 DEF Inv, Handed, Busy
  <2> QED
    BY <1>1, <1>2, <2>1 DEF Onward, Saved, Runnable
<1> QED
  BY <1>3, <1>4, <1>5, <1>6 DEF Onward

LEMMA StartAgainOnward == Inv /\ Onward /\ StartAgain => Onward'
<1> SUFFICES ASSUME Inv, Onward, StartAgain PROVE Onward'
  OBVIOUS
<1>1. Runs'
  BY DEF Runs, StartAgain, Boot, Down
<1>2. WayBack'
  BY DEF Onward, WayBack, Runnable, StartAgain, fixed, files
<1>3. Succeeds'
  BY DEF Onward, Succeeds, Won, target, StartAgain, Boot, Down, files, Runs, papers
<1>4. Cares'
  BY DEF Cares, StartAgain, Boot, Inv, Handed
<1>5. Saved'
  BY DEF Onward, Saved, Runs, Runnable, StartAgain, Boot, fixed, files, Inv
<1> QED
  BY <1>1, <1>2, <1>3, <1>4, <1>5 DEF Onward

LEMMA BootFailsOnward == Inv /\ Onward /\ BootFails => Onward'
<1> SUFFICES ASSUME Inv, Onward, BootFails PROVE Onward'
  OBVIOUS
<1>1. Runs'
  BY DEF Runs, BootFails, Down
<1>2. WayBack'
  BY DEF Onward, WayBack, Runnable, BootFails, fixed, files
<1>3. Succeeds'
  BY DEF Onward, Succeeds, Won, target, BootFails, Down, files, Runs, Inv, Handed, Passed, papers
<1>4. Cares'
  BY DEF Cares, BootFails, Down, Inv, Handed
<1>5. Saved'
  BY DEF Onward, Saved, Runs, Runnable, BootFails, fixed, files, Inv
<1> QED
  BY <1>1, <1>2, <1>3, <1>4, <1>5 DEF Onward

LEMMA ControlPlaneDiesOnward == Inv /\ Onward /\ ControlPlaneDies => Onward'
<1> SUFFICES ASSUME Inv, Onward, ControlPlaneDies PROVE Onward'
  OBVIOUS
<1>1. Runs'
  BY DEF Runs, ControlPlaneDies, Down
<1>2. WayBack'
  BY DEF Onward, WayBack, Runnable, ControlPlaneDies, fixed, files
<1>3. Succeeds'
  BY DEF Onward, Succeeds, Won, target, ControlPlaneDies, Down, files, Runs, Inv, Handed, Passed,
         papers
<1>4. Cares'
  BY DEF Cares, ControlPlaneDies, Down, Inv, Handed
<1>5. Saved'
  BY DEF Onward, Saved, Runnable, Busy, Inv, Handed, ControlPlaneDies, Down, fixed, files, Passed,
         papers
<1> QED
  BY <1>1, <1>2, <1>3, <1>4, <1>5 DEF Onward

LEMMA WatchdogDiesOnward == Inv /\ Onward /\ WatchdogDies => Onward'
<1> SUFFICES ASSUME Inv, Onward, WatchdogDies PROVE Onward'
  OBVIOUS
<1>1. Runs'
  BY DEF Onward, Runs, Runnable, WatchdogDies, fixed
<1>2. WayBack'
  BY DEF WayBack, WatchdogDies, NoDog
<1>3. Succeeds'
  BY DEF Succeeds, Won, target, WatchdogDies, NoDog, files, Runs, Inv, Handed, Passed, papers
<1>4. Cares'
  BY DEF Onward, Cares, WatchdogDies, papers
<1>5. Saved'
  BY DEF Saved, WatchdogDies
<1> QED
  BY <1>1, <1>2, <1>3, <1>4, <1>5 DEF Onward

LEMMA InitOnward == Init => Onward
<1> SUFFICES ASSUME Init PROVE Onward
  OBVIOUS
<1>1. cp.job = "idle" /\ cp.await = "none" /\ cp.st = "up" /\ cp.ver = 1 /\ 1 \in Versions
  BY OneIsVersion DEF Init, Down
<1> QED
  BY <1>1 DEF Init, NoDog, Onward, Runs, WayBack, Won, Succeeds, Cares, Saved, Runnable

LEMMA StutterOnward == Onward /\ UNCHANGED vars => Onward'
BY DEF vars, fixed, files, papers, counts, target, Onward, Runs, WayBack, Won, Succeeds, Cares,
       Saved, Runnable

LEMMA NextOnward == Inv /\ Onward /\ [Next]_vars => Onward'
<1> SUFFICES ASSUME Inv, Onward, [Next]_vars PROVE Onward'
  OBVIOUS
<1>1. CASE Upgrades
  BY <1>1, BeginSwapOnward, CopyBinaryOnward, RolloutOnward, failExecuteOnward, PersistTaskOnward,
         PersistPlanOnward, SpawnWatchdogOnward, LeaveOnward DEF Upgrades
<1>2. CASE Resumes
  BY <1>2, awaitRestartOutcomeOnward, finishRestartOnward, ConcludeOnward DEF Resumes
<1>3. CASE Starts
  BY <1>3, resumeAfterRestartOnward, ServeOnward, BootFailsOnward, ManagerRestartsOnward,
         StartAgainOnward DEF Starts
<1>4. CASE Watches
  BY <1>4, waitProcessExitOnward, startControlPlaneOnward, waitControlPlaneReadyOnward,
         restartFrontendOnward, StopNewOnward, restoreBinaryOnward, WriteResultOnward DEF Watches
<1> QED
  BY <1>1, <1>2, <1>3, <1>4, ExecuteOnward, ControlPlaneDiesOnward, WatchdogDiesOnward,
         StutterOnward DEF Next

\* The upgrade comes to rest only where it should: with the task concluded and a
\* control plane that serves, or, after the task was left to itself, with nothing
\* that could run.  No process waits for a result nobody writes, and no watchdog
\* for a process that stays (awaitRestartOutcome, watchdogRun).
THEOREM RestsOnlyWell == Spec => []RestsWell
<1>1. ASSUME Inv, Onward, ~UpgradeDue, ~ResumeDue, ~StartDue, ~WatchDue
      PROVE  (~active /\ cp.st = "up") \/ (unwatched /\ Stuck)
  <2>1. ~asked /\ cp.st # "boot"
    BY <1>1 DEF StartDue
  <2>2. watchdog.at = "none" /\ cp.job = "idle"
    <3>1. watchdog.at \in {"none", "exit"}
      BY <1>1 DEF WatchDue
    <3>2. CASE watchdog.at = "none"
      BY <1>1, <3>2 DEF UpgradeDue
    <3>3. CASE watchdog.at = "exit"
      <4>1. active
        BY <3>3, <1>1 DEF Inv, Handed, Passed
      <4>2. cp.job = "idle"
        BY <1>1, <3>3, <4>1 DEF UpgradeDue, Inv, Handed
      <4> QED
        BY <1>1, <3>3, <4>2 DEF WatchDue, Inv, Unmanaged, Onward, Runs
    <3> QED
      BY <3>1, <3>2, <3>3
  <2>3. cp.await = "none"
    BY <1>1, <2>1, <2>2 DEF ResumeDue, Late, Inv, Types, ControlPlane, Processes
  <2>4. CASE cp.st = "up"
    BY <1>1, <2>2, <2>3, <2>4 DEF Onward, Cares
  <2>5. CASE cp.st = "begun"
    <3>1. defect[cp.ver] = "serve"
      BY <1>1, <2>5 DEF StartDue
    <3>2. unwatched
      BY <1>1, <2>1, <2>2, <2>5, <3>1 DEF Onward, Saved, Runnable, Busy
    <3> QED
      BY <2>5, <3>1, <3>2 DEF Stuck
  <2>6. CASE cp.st = "down"
    <3>1. ~Startable
      BY <1>1, <2>2, <2>6 DEF StartDue
    <3>2. unwatched
      BY <1>1, <2>1, <2>2, <2>6, <3>1 DEF Onward, Saved, Runnable, Busy, Startable
    <3> QED
      BY <3>1, <3>2 DEF Stuck
  <2> QED
    BY <1>1, <2>1, <2>4, <2>5, <2>6 DEF Inv, Types, ControlPlane, Processes
<1>2. Inv /\ Onward => RestsWell
  BY <1>1 DEF RestsWell
<1>3. Spec => []Onward
  BY Safe, InitOnward, NextOnward, PTL DEF Spec
<1> QED
  BY <1>2, <1>3, Safe, PTL
=============================================================================
