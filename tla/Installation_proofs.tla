-------------------------- MODULE Installation_proofs --------------------------
(***************************************************************************)
(* Safety of Installation and of the PackageDownload it waits for, for any *)
(* number of downloads and installations: a download that has ended has no *)
(* worker, a completed one has left a whole package, a success is earned,  *)
(* and installations overlap only after a cancellation.                    *)
(***************************************************************************)
EXTENDS Installation, TLAPS

-----------------------------------------------------------------------------
(* The invariant of the downloads.                                         *)

DownloadPcs == {"none", "begin", "request", "write", "check", "rename", "source", "publish", "done"}

\* Tasks are started in order; without company, only the last one is at work.
Ranked ==
    /\ \A d \in Tasks : task[d].pc = "none" <=> d > latest
    /\ ~together => \A d \in Tasks : Active(d) => d = latest

\* What the last task has made, as long as nobody else touched its files.
Made ==
    ~together /\ latest # NoTask =>
        /\ task[latest].pc = "write" => temp # NoFile /\ file[temp].writer = latest
        /\ task[latest].pc \in {"check", "rename"} => temp # NoFile /\ file[temp].whole
        /\ task[latest].pc \in {"source", "publish"} \/ task[latest].status = "completed"
           => final # NoFile /\ file[final].whole

DownloadInv == DownloadTypeOK /\ EndedMeansStopped /\ Ranked /\ Made

-----------------------------------------------------------------------------
(* The invariant of the installations.                                     *)

RunPcs == {"none", "begin", "package", "wait", "transfer", "send", "poll", "register", "start", "done"}

RunTypes ==
    /\ current \in Runs \cup {NoRun}
    /\ run \in [Runs -> [status : Statuses, online : BOOLEAN, plan : AllPlans, pc : RunPcs]]
    /\ command \in [Runs -> {"none", "running", "success", "failed"}]
    /\ install \in [Runs -> {"none", "running", "done", "failed"}]
    /\ node \in [Runs -> {"none", "registered", "started"}]
    /\ scale \in [run : Runs \cup {NoRun}, outcome : {"none", "success", "failed"}]
    /\ cancelled \in SUBSET Runs

\* Everything that was asked for is done.
Earned(i) ==
    /\ install[i] = "done"
    /\ run[i].plan # "standalone" => node[i] # "none"
    /\ run[i].plan = "start" => node[i] = "started"

\* What each run has reached: a success says so only after the last step.
Honest(i) ==
    /\ run[i].pc = "none" <=> i > current
    /\ run[i].pc = "none" => run[i].status = "none"
    /\ run[i].status = "success" => run[i].pc = "done" /\ Earned(i)
    /\ command[i] = "success" \/ run[i].pc \in {"register", "start"} => install[i] = "done"
    /\ run[i].pc \in {"register", "start"} => run[i].plan # "standalone"
    /\ run[i].pc = "start" => node[i] # "none" /\ run[i].plan # "deferred"

\* The run of a scale-out is a deferred one, and its success is real.
ScaleHonest ==
    /\ scale.run # NoRun => scale.run <= current /\ run[scale.run].plan = "deferred"
    /\ scale.outcome = "success" =>
          scale.run # NoRun /\ install[scale.run] = "done" /\ node[scale.run] # "none"

\* A run that is not cancelled shows that it runs; one that was followed by
\* another has ended, or was cancelled.
Succeeded(i) ==
    Alive(i) => i \in cancelled \/ (i = current /\ run[i].status = "running")

RunInv == RunTypes /\ (\A i \in Runs : Honest(i) /\ Succeeded(i)) /\ ScaleHonest

Inv == DownloadInv /\ RunInv

-----------------------------------------------------------------------------
(* Downloads.                                                              *)

\* Task d goes to a status and a place, the others stay.
Moves(d, status, pc) ==
    /\ task'[d].status = status /\ task'[d].pc = pc
    /\ \A e \in Tasks \ {d} : task'[e] = task[e]
    /\ task' \in [Tasks -> [status : {"none", "pending", "downloading", "cancelling"} \cup Ended,
                            pc : DownloadPcs, handle : Tasks \cup {NoFile}]]

LEMMA EndsMoves ==
    ASSUME DownloadTypeOK, NEW d \in Tasks, NEW status \in Ended, Ends(d, status)
    PROVE  Moves(d, status, "done")
<1>1. task' = [task EXCEPT ![d].status = status, ![d].pc = "done"]
  BY DEF Ends
<1>2. /\ task'[d] = [task[d] EXCEPT !.status = status, !.pc = "done"] /\ DOMAIN task' = Tasks
      /\ \A e \in Tasks \ {d} : task'[e] = task[e]
      /\ task' = [e \in Tasks |-> task'[e]]
  BY <1>1 DEF DownloadTypeOK
<1>3. task[d] \in [status : {"none", "pending", "downloading", "cancelling"} \cup Ended, pc : DownloadPcs, handle : Tasks \cup {NoFile}]
  BY DEF DownloadTypeOK, DownloadPcs
<1>4. task'[d] \in [status : {"none", "pending", "downloading", "cancelling"} \cup Ended, pc : DownloadPcs, handle : Tasks \cup {NoFile}]
      /\ task'[d].status = status /\ task'[d].pc = "done"
  BY <1>2, <1>3 DEF DownloadPcs
<1>5. \A e \in Tasks \ {d} :
         task'[e] \in [status : {"none", "pending", "downloading", "cancelling"} \cup Ended, pc : DownloadPcs, handle : Tasks \cup {NoFile}]
  BY <1>2 DEF DownloadTypeOK, DownloadPcs
<1> QED
  BY <1>2, <1>4, <1>5 DEF Moves

LEMMA GoesMoves ==
    ASSUME DownloadTypeOK, NEW d \in Tasks, NEW pc \in DownloadPcs, Goes(d, pc)
    PROVE  Moves(d, task[d].status, pc)
BY DEF Goes, Moves, DownloadTypeOK, DownloadPcs

\* A worker that moves: what is left to show is what it does to the files.
LEMMA MovesInv ==
    ASSUME DownloadInv, NEW d \in Tasks, Active(d), NEW status, NEW pc, Moves(d, status, pc), pc # "none",
           status \in Ended => pc = "done", UNCHANGED <<latest, together>>,
           temp' \in Tasks \cup {NoFile}, final' \in Tasks \cup {NoFile},
           file' \in [Tasks -> [writer : Tasks \cup {NoTask}, whole : BOOLEAN]],
           ~together /\ d = latest =>
              /\ pc = "write" => temp' # NoFile /\ file'[temp'].writer = latest
              /\ pc \in {"check", "rename"} => temp' # NoFile /\ file'[temp'].whole
              /\ pc \in {"source", "publish"} \/ status = "completed" => final' # NoFile /\ file'[final'].whole
    PROVE  DownloadInv'
<1>1. DownloadTypeOK'
  BY DEF DownloadInv, DownloadTypeOK, Moves, DownloadPcs
<1>2. EndedMeansStopped'
  BY DEF DownloadInv, EndedMeansStopped, Moves, Active
<1>3. Ranked'
  BY DEF DownloadInv, Ranked, Moves, Active
<1>4. Made'
  <2> SUFFICES ASSUME ~together, latest # NoTask
               PROVE  /\ task'[latest].pc = "write" => temp' # NoFile /\ file'[temp'].writer = latest
                      /\ task'[latest].pc \in {"check", "rename"} => temp' # NoFile /\ file'[temp'].whole
                      /\ task'[latest].pc \in {"source", "publish"} \/ task'[latest].status = "completed"
                         => final' # NoFile /\ file'[final'].whole
    BY DEF Made
  <2>1. d = latest
    BY DEF DownloadInv, Ranked
  <2> QED
    BY <2>1 DEF Moves
<1> QED
  BY <1>1, <1>2, <1>3, <1>4 DEF DownloadInv

\* What a worker finds.
LEMMA WorkerFinds ==
    ASSUME DownloadInv, NEW d \in Tasks, Active(d)
    PROVE  /\ task[d].status \notin Ended
           /\ temp \in Tasks \cup {NoFile} /\ final \in Tasks \cup {NoFile}
           /\ file \in [Tasks -> [writer : Tasks \cup {NoTask}, whole : BOOLEAN]]
           /\ d = latest /\ ~together =>
                 /\ task[d].pc = "write" => temp # NoFile /\ file[temp].writer = d
                 /\ task[d].pc \in {"check", "rename"} => temp # NoFile /\ file[temp].whole
                 /\ task[d].pc \in {"source", "publish"} => final # NoFile /\ file[final].whole
<1>1. latest # NoTask \/ d # latest
  BY DEF Tasks, NoTask
<1> QED
  BY <1>1 DEF DownloadInv, DownloadTypeOK, EndedMeansStopped, Made

LEMMA BeginDownloadInv == ASSUME DownloadInv, NEW d \in Tasks, BeginDownload(d) PROVE DownloadInv'
<1>1. Active(d) /\ UNCHANGED <<latest, temp, final, file, together>> /\ DownloadTypeOK
  BY DEF BeginDownload, Active, DownloadInv
<1>2. CASE Ends(d, "cancelled")
  BY <1>1, <1>2, EndsMoves, MovesInv, WorkerFinds DEF Ended
<1>3. CASE task' = [task EXCEPT ![d].status = "downloading", ![d].pc = "request"]
  <2>1. Moves(d, "downloading", "request")
    <3>1. task[d] \in [status : {"none", "pending", "downloading", "cancelling"} \cup Ended, pc : DownloadPcs, handle : Tasks \cup {NoFile}]
      BY <1>1 DEF DownloadTypeOK, DownloadPcs
    <3>2. /\ task'[d] = [task[d] EXCEPT !.status = "downloading", !.pc = "request"]
          /\ \A e \in Tasks \ {d} : task'[e] = task[e]
          /\ task' = [e \in Tasks |-> task'[e]]
      BY <1>1, <1>3 DEF DownloadTypeOK
    <3>3. task'[d] \in [status : {"none", "pending", "downloading", "cancelling"} \cup Ended, pc : DownloadPcs, handle : Tasks \cup {NoFile}]
          /\ task'[d].status = "downloading" /\ task'[d].pc = "request"
      BY <3>1, <3>2 DEF DownloadPcs
    <3> QED
      <4>1. \A e \in Tasks : task[e] \in [status : {"none", "pending", "downloading", "cancelling"} \cup Ended,
                                         pc : DownloadPcs, handle : Tasks \cup {NoFile}]
        BY <1>1 DEF DownloadTypeOK, DownloadPcs
      <4>2. \A e \in Tasks : task'[e] \in [status : {"none", "pending", "downloading", "cancelling"} \cup Ended,
                                          pc : DownloadPcs, handle : Tasks \cup {NoFile}]
        BY <3>2, <3>3, <4>1
      <4> QED
        BY <3>2, <3>3, <4>2 DEF Moves
  <2> QED
    BY <1>1, <2>1, MovesInv, WorkerFinds DEF Ended
<1> QED
  BY <1>2, <1>3 DEF BeginDownload

LEMMA CreateTempInv == ASSUME DownloadInv, NEW d \in Tasks, CreateTemp(d) PROVE DownloadInv'
<1> DEFINE f == IF temp = NoFile THEN d ELSE temp
<1>1. /\ task[d].pc = "request" /\ Active(d) /\ UNCHANGED <<latest, final, together>> /\ DownloadTypeOK
      /\ temp' = f /\ task' = [task EXCEPT ![d].pc = "write", ![d].handle = f]
      /\ file' = [file EXCEPT ![f] = [writer |-> d, whole |-> FALSE]]
  BY DEF CreateTemp, Active, DownloadInv
<1>2. f \in Tasks /\ f # NoFile
  BY <1>1, TasksAssumption DEF DownloadTypeOK, Tasks, NoFile
<1> HIDE DEF f
<1>3. Moves(d, task[d].status, "write")
  <2>1. task[d] \in [status : {"none", "pending", "downloading", "cancelling"} \cup Ended, pc : DownloadPcs, handle : Tasks \cup {NoFile}]
    BY <1>1 DEF DownloadTypeOK, DownloadPcs
  <2>2. /\ task'[d] = [task[d] EXCEPT !.pc = "write", !.handle = f]
        /\ \A e \in Tasks \ {d} : task'[e] = task[e]
        /\ task' = [e \in Tasks |-> task'[e]]
    BY <1>1 DEF DownloadTypeOK
  <2>3. task'[d] \in [status : {"none", "pending", "downloading", "cancelling"} \cup Ended, pc : DownloadPcs, handle : Tasks \cup {NoFile}]
        /\ task'[d].status = task[d].status /\ task'[d].pc = "write"
    BY <1>2, <2>1, <2>2 DEF DownloadPcs
  <2> QED
    BY <1>1, <2>2, <2>3 DEF Moves, DownloadTypeOK, DownloadPcs
<1>4. file' \in [Tasks -> [writer : Tasks \cup {NoTask}, whole : BOOLEAN]] /\ file'[f].writer = d
  BY <1>1, <1>2 DEF DownloadTypeOK
<1> QED
  BY <1>1, <1>2, <1>3, <1>4, MovesInv, WorkerFinds DEF Ended

LEMMA FailsInv ==
    ASSUME DownloadInv, NEW d \in Tasks, RequestFails(d) \/ WriteFails(d) \/ StopCancelled(d) PROVE DownloadInv'
<1>1. Active(d) /\ UNCHANGED <<latest, final, file, together>> /\ DownloadTypeOK /\ temp' \in {temp, NoFile}
  BY DEF RequestFails, WriteFails, StopCancelled, Active, DownloadInv
<1>2. PICK status \in {"failed", "cancelled"} : Ends(d, status)
  BY DEF RequestFails, WriteFails, StopCancelled
<1> QED
  BY <1>1, <1>2, EndsMoves, MovesInv, WorkerFinds DEF Ended

LEMMA WriteEndsInv == ASSUME DownloadInv, NEW d \in Tasks, WriteEnds(d) PROVE DownloadInv'
<1>1. /\ task[d].pc = "write" /\ Goes(d, "check") /\ Active(d) /\ UNCHANGED <<latest, temp, final, together>> /\ DownloadTypeOK
      /\ file' = [f \in Tasks |-> IF file[f].writer = d THEN [file[f] EXCEPT !.whole = TRUE] ELSE file[f]]
  BY DEF WriteEnds, Active, DownloadInv
<1>2. file' \in [Tasks -> [writer : Tasks \cup {NoTask}, whole : BOOLEAN]]
  BY <1>1 DEF DownloadTypeOK
<1>3. \A f \in Tasks : file[f].writer = d => file'[f].whole
  BY <1>1 DEF DownloadTypeOK
<1>4. ~together /\ d = latest => temp # NoFile /\ file'[temp].whole
  BY <1>1, <1>3, WorkerFinds
<1>5. Moves(d, task[d].status, "check")
  BY <1>1, GoesMoves DEF DownloadPcs
<1> QED
  BY <1>1, <1>2, <1>4, <1>5, MovesInv, WorkerFinds DEF Ended

LEMMA CheckCancelledInv == ASSUME DownloadInv, NEW d \in Tasks, CheckCancelled(d) PROVE DownloadInv'
<1>1. /\ task[d].pc = "check" /\ Goes(d, "rename") /\ Active(d) /\ UNCHANGED <<latest, temp, final, file, together>>
      /\ DownloadTypeOK
  BY DEF CheckCancelled, Active, DownloadInv
<1>2. Moves(d, task[d].status, "rename")
  BY <1>1, GoesMoves DEF DownloadPcs
<1> QED
  BY <1>1, <1>2, MovesInv, WorkerFinds DEF Ended

LEMMA RenameInv == ASSUME DownloadInv, NEW d \in Tasks, Rename(d) PROVE DownloadInv'
<1>1. task[d].pc = "rename" /\ temp' = NoFile /\ Active(d) /\ UNCHANGED <<latest, file, together>> /\ DownloadTypeOK
  BY DEF Rename, Active, DownloadInv
<1>2. CASE temp # NoFile /\ final' = temp /\ \E pc \in {"source", "publish"} : Goes(d, pc)
  <2>1. PICK pc \in {"source", "publish"} : Goes(d, pc)
    BY <1>2
  <2>2. ~together /\ d = latest => final' # NoFile /\ file'[final'].whole
    BY <1>1, <1>2, WorkerFinds
  <2>3. Moves(d, task[d].status, pc)
    BY <1>1, <2>1, GoesMoves DEF DownloadPcs
  <2> QED
    BY <1>1, <1>2, <2>2, <2>3, MovesInv, WorkerFinds
<1>3. CASE UNCHANGED final /\ Ends(d, "failed")
  BY <1>1, <1>3, EndsMoves, MovesInv, WorkerFinds DEF Ended
<1> QED
  BY <1>2, <1>3 DEF Rename

LEMMA FetchSourceInv == ASSUME DownloadInv, NEW d \in Tasks, FetchSource(d) PROVE DownloadInv'
<1>1. /\ task[d].pc = "source" /\ Goes(d, "publish") /\ Active(d) /\ UNCHANGED <<latest, temp, final, file, together>>
      /\ DownloadTypeOK
  BY DEF FetchSource, Active, DownloadInv
<1>2. Moves(d, task[d].status, "publish")
  BY <1>1, GoesMoves DEF DownloadPcs
<1> QED
  BY <1>1, <1>2, MovesInv, WorkerFinds DEF Ended

LEMMA PublishInv == ASSUME DownloadInv, NEW d \in Tasks, Publish(d) PROVE DownloadInv'
<1>1. task[d].pc = "publish" /\ Active(d) /\ UNCHANGED <<latest, file, together>> /\ DownloadTypeOK
  BY DEF Publish, Active, DownloadInv
<1>2. CASE Ends(d, "cancelled") /\ final' = NoFile /\ temp' = NoFile
  BY <1>1, <1>2, EndsMoves, MovesInv, WorkerFinds DEF Ended
<1>3. CASE Ends(d, "completed") /\ UNCHANGED <<temp, final>>
  BY <1>1, <1>3, EndsMoves, MovesInv, WorkerFinds DEF Ended
<1> QED
  BY <1>2, <1>3 DEF Publish

\* The next task is alone if nobody was at work.
LEMMA StartDownloadInv == DownloadInv /\ StartDownload => DownloadInv'
<1> SUFFICES ASSUME DownloadInv, StartDownload PROVE DownloadInv'
  OBVIOUS
<1> DEFINE d == latest + 1
<1>1. /\ latest < MaxTasks /\ latest' = d /\ task' = [task EXCEPT ![d].status = "pending", ![d].pc = "begin"]
      /\ together' = (together \/ \E e \in Tasks : Active(e)) /\ UNCHANGED <<temp, final, file>> /\ DownloadTypeOK
  BY DEF StartDownload, DownloadInv
<1>2. latest \in 0 .. MaxTasks /\ MaxTasks \in Nat
  BY <1>1, TasksAssumption DEF DownloadTypeOK, Tasks, NoTask
<1>3. d \in Tasks /\ latest < d /\ d # NoTask /\ \A e \in Tasks \ {d} : (e > latest) <=> (e > d)
  BY <1>1, <1>2 DEF Tasks, NoTask
<1> HIDE DEF d
<1>4. Moves(d, "pending", "begin")
  <2>1. task[d] \in [status : {"none", "pending", "downloading", "cancelling"} \cup Ended, pc : DownloadPcs, handle : Tasks \cup {NoFile}]
    BY <1>1, <1>3 DEF DownloadTypeOK, DownloadPcs
  <2>2. /\ task'[d] = [task[d] EXCEPT !.status = "pending", !.pc = "begin"]
        /\ \A e \in Tasks \ {d} : task'[e] = task[e]
        /\ task' = [e \in Tasks |-> task'[e]]
    BY <1>1, <1>3 DEF DownloadTypeOK
  <2>3. task'[d] \in [status : {"none", "pending", "downloading", "cancelling"} \cup Ended, pc : DownloadPcs, handle : Tasks \cup {NoFile}]
        /\ task'[d].status = "pending" /\ task'[d].pc = "begin"
    BY <2>1, <2>2 DEF DownloadPcs
  <2> QED
    BY <1>1, <2>2, <2>3 DEF Moves, DownloadTypeOK, DownloadPcs
<1>5. DownloadTypeOK'
  BY <1>1, <1>3, <1>4 DEF DownloadTypeOK, Moves, DownloadPcs
<1>6. EndedMeansStopped'
  BY <1>3, <1>4 DEF DownloadInv, EndedMeansStopped, Moves, Active, Ended
<1>7. Ranked'
  <2>1. \A e \in Tasks : task'[e].pc = "none" <=> e > latest'
    <3> SUFFICES ASSUME NEW e \in Tasks PROVE task'[e].pc = "none" <=> e > latest'
      OBVIOUS
    <3>1. CASE e = d
      BY <1>1, <1>3, <1>4, <3>1 DEF Moves, Tasks
    <3>2. CASE e # d
      BY <1>1, <1>3, <1>4, <3>2 DEF Moves, DownloadInv, Ranked
    <3> QED
      BY <3>1, <3>2
  <2>2. ~together' => \A e \in Tasks : Active(e)' => e = latest'
    BY <1>1, <1>4 DEF Moves, Active
  <2> QED
    BY <2>1, <2>2 DEF Ranked
<1>8. Made'
  BY <1>1, <1>4 DEF Made, Moves
<1> QED
  BY <1>5, <1>6, <1>7, <1>8 DEF DownloadInv

\* A cancellation is only asked for: it ends nothing.
LEMMA CancelDownloadInv == DownloadInv /\ CancelDownload => DownloadInv'
<1> SUFFICES ASSUME DownloadInv, CancelDownload PROVE DownloadInv'
  OBVIOUS
<1>1. /\ task' = [task EXCEPT ![latest].status = "cancelling"] /\ UNCHANGED <<latest, temp, final, file, together>> /\ DownloadTypeOK
      /\ DownloadStatus # "none"
  BY DEF CancelDownload, DownloadInv
<1>2. latest \in Tasks
  BY <1>1 DEF DownloadTypeOK, DownloadStatus
<1>3. Moves(latest, "cancelling", task[latest].pc)
  BY <1>1, <1>2 DEF Moves, DownloadTypeOK, DownloadPcs
<1>4. DownloadTypeOK' /\ EndedMeansStopped'
  BY <1>1, <1>2, <1>3 DEF DownloadInv, DownloadTypeOK, EndedMeansStopped, Moves, Active, DownloadPcs, Ended
<1>5. Ranked' /\ Made'
  BY <1>1, <1>2, <1>3 DEF DownloadInv, Ranked, Made, Moves, Active
<1> QED
  BY <1>4, <1>5 DEF DownloadInv

LEMMA DownloadStepInv == DownloadInv /\ (DownloadNext \/ UNCHANGED downloadVars) => DownloadInv'
<1> SUFFICES ASSUME DownloadInv, DownloadNext \/ UNCHANGED downloadVars PROVE DownloadInv'
  OBVIOUS
<1>1. CASE UNCHANGED downloadVars
  BY <1>1 DEF DownloadInv, DownloadTypeOK, EndedMeansStopped, Ranked, Made, Active, downloadVars
<1>2. ASSUME NEW d \in Tasks, Worker(d) PROVE DownloadInv'
  BY <1>2, BeginDownloadInv, CreateTempInv, FailsInv, WriteEndsInv, CheckCancelledInv, RenameInv, FetchSourceInv, PublishInv
  DEF Worker
<1> QED
  BY <1>1, <1>2, StartDownloadInv, CancelDownloadInv DEF DownloadNext

-----------------------------------------------------------------------------
(* Installations.                                                          *)

RunType == [status : Statuses, online : BOOLEAN, plan : AllPlans, pc : RunPcs]

\* Run i shows a status and goes to a place, the others stay.
Turns(i, status, pc) ==
    /\ run'[i].status = status /\ run'[i].pc = pc /\ run'[i].plan = run[i].plan
    /\ \A j \in Runs \ {i} : run'[j] = run[j]
    /\ run' \in [Runs -> RunType]

LEMMA TurnsTo ==
    ASSUME RunInv, NEW i \in Runs, NEW status \in Statuses, NEW pc \in RunPcs,
           run' = [run EXCEPT ![i].status = status, ![i].pc = pc]
    PROVE  Turns(i, status, pc)
<1>1. \A j \in Runs : run[j] \in RunType
  BY DEF RunInv, RunTypes, RunType
<1>2. /\ run'[i] = [run[i] EXCEPT !.status = status, !.pc = pc]
      /\ \A j \in Runs \ {i} : run'[j] = run[j]
      /\ run' = [j \in Runs |-> run'[j]]
  BY DEF RunInv, RunTypes
<1>3. run'[i] \in RunType /\ run'[i].status = status /\ run'[i].pc = pc /\ run'[i].plan = run[i].plan
  <2>1. PICK r \in RunType : r = run[i]
    BY <1>1
  <2>2. /\ [r EXCEPT !.status = status, !.pc = pc] \in RunType
        /\ [r EXCEPT !.status = status, !.pc = pc].status = status
        /\ [r EXCEPT !.status = status, !.pc = pc].pc = pc
        /\ [r EXCEPT !.status = status, !.pc = pc].plan = r.plan
    BY DEF RunType
  <2>3. run'[i] = [r EXCEPT !.status = status, !.pc = pc]
    BY <1>2, <2>1
  <2> QED
    BY <2>1, <2>2, <2>3
<1>4. \A j \in Runs : run'[j] \in RunType
  BY <1>1, <1>2, <1>3
<1> QED
  BY <1>2, <1>3, <1>4 DEF Turns

LEMMA RunEndsTurns ==
    ASSUME RunInv, NEW i \in Runs, NEW status \in Statuses, RunEnds(i, status)
    PROVE  Turns(i, status, "done")
BY TurnsTo DEF RunEnds, RunPcs

LEMMA RunGoesTurns ==
    ASSUME RunInv, NEW i \in Runs, NEW pc \in RunPcs, RunGoes(i, pc)
    PROVE  Turns(i, run[i].status, pc)
BY DEF RunGoes, Turns, RunInv, RunTypes, RunType

\* The goroutine of a run takes a step: what is left to show is what it has earned.
LEMMA TurnsInv ==
    ASSUME RunInv, NEW i \in Runs, Alive(i), NEW status, NEW pc, Turns(i, status, pc), pc # "none",
           UNCHANGED <<current, install, scale, cancelled>>,
           command' \in [Runs -> {"none", "running", "success", "failed"}], \A j \in Runs : command'[j] = "success" => command[j] = "success",
           node' \in [Runs -> {"none", "registered", "started"}], \A j \in Runs \ {i} : node'[j] = node[j],
           node[i] # "none" => node'[i] # "none", pc # "done" => status = run[i].status,
           status = "success" => install[i] = "done" /\ (run[i].plan # "standalone" => node'[i] # "none")
                                 /\ (run[i].plan = "start" => node'[i] = "started"),
           pc \in {"register", "start"} => install[i] = "done" /\ run[i].plan # "standalone",
           pc = "start" => node'[i] # "none" /\ run[i].plan # "deferred"
    PROVE  RunInv'
<1>1. RunTypes'
  BY DEF RunInv, RunTypes, Turns, RunType
<1>2. ASSUME NEW j \in Runs PROVE Honest(j)' /\ Succeeded(j)'
  <2>1. CASE j = i
    <3>1. Honest(j) /\ Succeeded(j) /\ run[i].pc \notin {"none", "done"} /\ run[i].status # "success"
      BY <2>1 DEF RunInv, Honest, Alive
    <3>2. Honest(j)'
      BY <2>1, <3>1 DEF Honest, Earned, Turns
    <3>3. Succeeded(j)'
      BY <2>1, <3>1 DEF Succeeded, Alive, Turns
    <3> QED
      BY <3>2, <3>3
  <2>2. CASE j # i
    <3>1. Honest(j) /\ Succeeded(j) /\ run'[j] = run[j] /\ node'[j] = node[j]
      BY <2>2 DEF RunInv, Turns
    <3>2. Honest(j)'
      BY <3>1 DEF Honest, Earned
    <3>3. Succeeded(j)'
      BY <3>1 DEF Succeeded, Alive
    <3> QED
      BY <3>2, <3>3
  <2> QED
    BY <2>1, <2>2
<1>3. ScaleHonest'
  <2>1. scale.run \in Runs \cup {NoRun}
    BY DEF RunInv, RunTypes
  <2>2. \A j \in Runs : run'[j].plan = run[j].plan /\ (node[j] # "none" => node'[j] # "none")
    BY DEF Turns
  <2> QED
    BY <2>1, <2>2 DEF RunInv, ScaleHonest
<1> QED
  BY <1>1, <1>2, <1>3 DEF RunInv

\* What a goroutine finds.
LEMMA RunFinds ==
    ASSUME RunInv, NEW i \in Runs, Alive(i)
    PROVE  /\ run[i].status \in Statuses \ {"success"} /\ run[i].plan \in AllPlans
           /\ command[i] = "success" \/ run[i].pc \in {"register", "start"} => install[i] = "done"
           /\ run[i].pc \in {"register", "start"} => run[i].plan # "standalone"
           /\ run[i].pc = "start" => node[i] # "none" /\ run[i].plan # "deferred"
           /\ command \in [Runs -> {"none", "running", "success", "failed"}]
           /\ node \in [Runs -> {"none", "registered", "started"}]
<1>1. run[i] \in [status : Statuses, online : BOOLEAN, plan : AllPlans, pc : RunPcs]
  BY DEF RunInv, RunTypes
<1> QED
  BY <1>1 DEF RunInv, RunTypes, Honest, Alive

LEMMA EarlyStepInv ==
    ASSUME RunInv, NEW i \in Runs, FindAgent(i) \/ FindPackage(i) \/ WaitForDownload(i) \/ TransferPackage(i)
    PROVE  RunInv'
<1>1. Alive(i) /\ UNCHANGED <<current, command, install, node, scale, cancelled>>
  BY DEF FindAgent, FindPackage, WaitForDownload, TransferPackage, Alive
<1>2. \/ RunEnds(i, "failed")
      \/ \E pc \in {"package", "transfer", "wait", "send"} : RunGoes(i, pc)
  BY DEF FindAgent, FindPackage, WaitForDownload, TransferPackage
<1>3. CASE RunEnds(i, "failed")
  <2>1. Turns(i, "failed", "done")
    BY <1>3, RunEndsTurns DEF Statuses
  <2> QED
    BY <1>1, <2>1, TurnsInv, RunFinds
<1>4. ASSUME NEW pc \in {"package", "transfer", "wait", "send"}, RunGoes(i, pc) PROVE RunInv'
  <2>1. Turns(i, run[i].status, pc)
    BY <1>4, RunGoesTurns DEF RunPcs
  <2> QED
    BY <1>1, <2>1, TurnsInv, RunFinds
<1> QED
  BY <1>2, <1>3, <1>4

LEMMA SendInstallCommandInv == ASSUME RunInv, NEW i \in Runs, SendInstallCommand(i) PROVE RunInv'
<1>1. Alive(i) /\ UNCHANGED <<current, install, node, scale, cancelled>>
  BY DEF SendInstallCommand, Alive
<1>2. CASE RunEnds(i, "failed") /\ UNCHANGED command
  <2>1. Turns(i, "failed", "done")
    BY <1>2, RunEndsTurns DEF Statuses
  <2> QED
    BY <1>1, <1>2, <2>1, TurnsInv, RunFinds
<1>3. CASE RunGoes(i, "poll") /\ command' = [command EXCEPT ![i] = "running"]
  <2>1. Turns(i, run[i].status, "poll")
    BY <1>3, RunGoesTurns DEF RunPcs
  <2>2. command' \in [Runs -> {"none", "running", "success", "failed"}] /\ \A j \in Runs : command'[j] = "success" => command[j] = "success"
    BY <1>1, <1>3, RunFinds
  <2> QED
    BY <1>1, <2>1, <2>2, TurnsInv, RunFinds
<1> QED
  BY <1>2, <1>3 DEF SendInstallCommand

LEMMA PollStatusInv == ASSUME RunInv, NEW i \in Runs, PollStatus(i) PROVE RunInv'
<1>1. Alive(i) /\ UNCHANGED <<current, command, install, node, scale, cancelled>>
  BY DEF PollStatus, Alive
<1>2. CASE RunEnds(i, "failed")
  <2>1. Turns(i, "failed", "done")
    BY <1>2, RunEndsTurns DEF Statuses
  <2> QED
    BY <1>1, <2>1, TurnsInv, RunFinds
<1>3. CASE command[i] = "success" /\ run[i].plan = "standalone" /\ RunEnds(i, "success")
  <2>1. Turns(i, "success", "done")
    BY <1>3, RunEndsTurns DEF Statuses
  <2> QED
    BY <1>1, <1>3, <2>1, TurnsInv, RunFinds
<1>4. CASE command[i] = "success" /\ run[i].plan # "standalone" /\ RunGoes(i, "register")
  <2>1. Turns(i, run[i].status, "register")
    BY <1>4, RunGoesTurns DEF RunPcs
  <2> QED
    BY <1>1, <1>4, <2>1, TurnsInv, RunFinds
<1> QED
  BY <1>2, <1>3, <1>4 DEF PollStatus

LEMMA RegisterNodeInv == ASSUME RunInv, NEW i \in Runs, RegisterNode(i) PROVE RunInv'
<1>1. run[i].pc = "register" /\ Alive(i) /\ UNCHANGED <<current, command, install, scale, cancelled>>
  BY DEF RegisterNode, Alive
<1>2. CASE RunEnds(i, "failed") /\ UNCHANGED node
  <2>1. Turns(i, "failed", "done")
    BY <1>2, RunEndsTurns DEF Statuses
  <2> QED
    BY <1>1, <1>2, <2>1, TurnsInv, RunFinds
<1>3. CASE /\ node' = [node EXCEPT ![i] = "registered"]
           /\ IF run[i].plan = "deferred" THEN RunEnds(i, "success") ELSE RunGoes(i, "start")
  <2>1. node' \in [Runs -> {"none", "registered", "started"}] /\ node'[i] = "registered" /\ \A j \in Runs \ {i} : node'[j] = node[j]
    BY <1>1, <1>3, RunFinds
  <2>2. CASE run[i].plan = "deferred" /\ RunEnds(i, "success")
    <3>1. Turns(i, "success", "done")
      BY <2>2, RunEndsTurns DEF Statuses
    <3> QED
      BY <1>1, <2>1, <2>2, <3>1, TurnsInv, RunFinds
  <2>3. CASE run[i].plan # "deferred" /\ RunGoes(i, "start")
    <3>1. Turns(i, run[i].status, "start")
      BY <2>3, RunGoesTurns DEF RunPcs
    <3> QED
      BY <1>1, <2>1, <2>3, <3>1, TurnsInv, RunFinds
  <2> QED
    BY <1>3, <2>2, <2>3
<1> QED
  BY <1>2, <1>3 DEF RegisterNode

LEMMA StartNodeInv == ASSUME RunInv, NEW i \in Runs, StartNode(i) PROVE RunInv'
<1>1. run[i].pc = "start" /\ Alive(i) /\ UNCHANGED <<current, command, install, scale, cancelled>>
  BY DEF StartNode, Alive
<1>2. CASE RunEnds(i, "failed") /\ UNCHANGED node
  <2>1. Turns(i, "failed", "done")
    BY <1>2, RunEndsTurns DEF Statuses
  <2> QED
    BY <1>1, <1>2, <2>1, TurnsInv, RunFinds
<1>3. CASE node' = [node EXCEPT ![i] = "started"] /\ RunEnds(i, "success")
  <2>1. node' \in [Runs -> {"none", "registered", "started"}] /\ node'[i] = "started" /\ \A j \in Runs \ {i} : node'[j] = node[j]
    BY <1>1, <1>3, RunFinds
  <2>2. Turns(i, "success", "done")
    BY <1>3, RunEndsTurns DEF Statuses
  <2> QED
    BY <1>1, <2>1, <2>2, TurnsInv, RunFinds
<1> QED
  BY <1>2, <1>3 DEF StartNode

\* What the agent and the polled status do, as seen from the other side.
LEMMA AgentStepInv == ASSUME RunInv, NEW i \in Runs, AgentStep(i) PROVE RunInv'
<1>1. UNCHANGED <<current, run, node, scale, cancelled>>
  BY DEF AgentStep, BeginInstall, EndInstall, ReportInstall
<1>2. /\ command' \in [Runs -> {"none", "running", "success", "failed"}] /\ install' \in [Runs -> {"none", "running", "done", "failed"}]
      /\ \A j \in Runs : install[j] = "done" => install'[j] = "done"
      /\ \A j \in Runs : command'[j] = "success" => command[j] = "success" \/ install[j] = "done"
  <2>1. /\ command \in [Runs -> {"none", "running", "success", "failed"}]
        /\ install \in [Runs -> {"none", "running", "done", "failed"}]
    BY DEF RunInv, RunTypes
  <2>2. CASE BeginInstall(i)
    BY <2>1, <2>2 DEF BeginInstall
  <2>3. CASE EndInstall(i)
    BY <2>1, <2>3 DEF EndInstall
  <2>4. CASE ReportInstall(i)
    BY <2>1, <2>4 DEF ReportInstall
  <2> QED
    BY <2>2, <2>3, <2>4 DEF AgentStep
<1>3. RunTypes'
  BY <1>1, <1>2 DEF RunInv, RunTypes
<1>4. ASSUME NEW j \in Runs PROVE Honest(j)' /\ Succeeded(j)'
  BY <1>1, <1>2 DEF RunInv, Honest, Earned, Succeeded, Alive
<1>5. ScaleHonest'
  <2>1. scale.run \in Runs \cup {NoRun}
    BY DEF RunInv, RunTypes
  <2> QED
    BY <1>1, <1>2, <2>1 DEF RunInv, ScaleHonest
<1> QED
  BY <1>3, <1>4, <1>5 DEF RunInv

-----------------------------------------------------------------------------
(* Requests.                                                               *)

\* A retry or a cancellation only changes the status that is shown.
LEMMA ShowsInv ==
    ASSUME RunInv, current # NoRun,
           \/ run' = [run EXCEPT ![current].status = "running"] /\ cancelled' = cancelled \ {current}
           \/ run' = [run EXCEPT ![current].status = "failed"] /\ cancelled' = cancelled \cup {current},
           UNCHANGED <<current, command, install, node, scale>>
    PROVE  RunInv'
<1>1. current \in Runs /\ run[current] \in [status : Statuses, online : BOOLEAN, plan : AllPlans, pc : RunPcs]
  BY DEF RunInv, RunTypes
<1>2. PICK status \in {"running", "failed"} :
          /\ run' = [run EXCEPT ![current].status = status]
          /\ cancelled' = IF status = "running" THEN cancelled \ {current} ELSE cancelled \cup {current}
  <2>1. CASE run' = [run EXCEPT ![current].status = "running"] /\ cancelled' = cancelled \ {current}
    BY <2>1
  <2>2. CASE run' = [run EXCEPT ![current].status = "failed"] /\ cancelled' = cancelled \cup {current}
    BY <2>2
  <2> QED
    BY <2>1, <2>2
<1>3. Turns(current, status, run[current].pc)
  BY <1>1, <1>2 DEF Turns, RunInv, RunTypes, RunType, Statuses
<1>4. RunTypes'
  BY <1>1, <1>2, <1>3 DEF RunInv, RunTypes, Turns, RunType
<1>5. ASSUME NEW j \in Runs PROVE Honest(j)' /\ Succeeded(j)'
  <2>1. CASE j = current
    <3>1. Honest(j) /\ run[j].pc # "none"
      BY <2>1 DEF RunInv, Honest, RunTypes, Runs, NoRun
    <3>2. Honest(j)'
      BY <2>1, <3>1, <1>3 DEF Honest, Earned, Turns
    <3>3. Succeeded(j)'
      BY <2>1, <1>2, <1>3 DEF Succeeded, Alive, Turns
    <3> QED
      BY <3>2, <3>3
  <2>2. CASE j # current
    <3>1. Honest(j) /\ Succeeded(j) /\ run'[j] = run[j]
      BY <2>2, <1>3 DEF RunInv, Turns
    <3>2. Honest(j)'
      BY <3>1 DEF Honest, Earned
    <3>3. Succeeded(j)'
      BY <2>2, <3>1, <1>2 DEF Succeeded, Alive
    <3> QED
      BY <3>2, <3>3
  <2> QED
    BY <2>1, <2>2
<1>6. ScaleHonest'
  <2>1. scale.run \in Runs \cup {NoRun}
    BY DEF RunInv, RunTypes
  <2>2. \A j \in Runs : run'[j].plan = run[j].plan
    BY <1>3 DEF Turns
  <2> QED
    BY <2>1, <2>2 DEF RunInv, ScaleHonest
<1> QED
  BY <1>4, <1>5, <1>6 DEF RunInv

\* A new installation follows one that has ended, or was cancelled.
LEMMA LaunchInv ==
    ASSUME RunInv, NEW online \in BOOLEAN, NEW plan \in AllPlans, Launch(online, plan),
           UNCHANGED <<command, install, node, cancelled>>,
           UNCHANGED scale \/ (scale' = [scale EXCEPT !.run = current'] /\ plan = "deferred" /\ scale.run = NoRun)
    PROVE  RunInv'
<1> DEFINE n == current + 1
           new == [status |-> "running", online |-> online, plan |-> plan, pc |-> "begin"]
<1>1. /\ current < MaxRuns /\ current' = n /\ run' = [run EXCEPT ![n] = new]
      /\ current # NoRun => run[current].status # "running"
  BY DEF Launch
<1>2. current \in 0 .. MaxRuns /\ MaxRuns \in Nat
  BY RunsAssumption DEF RunInv, RunTypes, Runs, NoRun
<1>3. n \in Runs /\ current < n /\ n # NoRun /\ \A j \in Runs \ {n} : (j > current <=> j > n) /\ j # n
  BY <1>1, <1>2 DEF Runs, NoRun
<1> HIDE DEF n
<1>4. /\ run' \in [Runs -> RunType] /\ run'[n] = new /\ \A j \in Runs \ {n} : run'[j] = run[j]
      /\ new.status = "running" /\ new.pc = "begin" /\ new.plan = plan
  BY <1>1, <1>3 DEF RunInv, RunTypes, RunType, Statuses, RunPcs
<1> HIDE DEF new
<1>5. RunTypes'
  <2>1. scale' \in [run : Runs \cup {NoRun}, outcome : {"none", "success", "failed"}]
    BY <1>1, <1>3 DEF RunInv, RunTypes
  <2> QED
    BY <1>1, <1>3, <1>4, <2>1 DEF RunInv, RunTypes, RunType
<1>6. ASSUME NEW j \in Runs PROVE Honest(j)' /\ Succeeded(j)'
  <2>1. CASE j = n
    <3>1. Honest(j) /\ ~(n > n) /\ n > current
      BY <2>1, <1>2, <1>3 DEF RunInv, Runs
    <3>2. Honest(j)'
      BY <2>1, <3>1, <1>1, <1>4 DEF Honest, Earned
    <3>3. Succeeded(j)'
      BY <2>1, <1>1, <1>4 DEF Succeeded, Alive
    <3> QED
      BY <3>2, <3>3
  <2>2. CASE j # n
    <3>1. Honest(j) /\ Succeeded(j) /\ run'[j] = run[j] /\ (j > current <=> j > n)
      BY <2>2, <1>3, <1>4 DEF RunInv
    <3>2. Honest(j)'
      BY <3>1, <1>1 DEF Honest, Earned
    <3>3. Succeeded(j)'
      <4>1. current \in Runs => current # NoRun
        BY DEF Runs, NoRun
      <4> QED
        BY <3>1, <4>1, <1>1 DEF Succeeded, Alive
    <3> QED
      BY <3>2, <3>3
  <2> QED
    BY <2>1, <2>2
<1>7. ScaleHonest'
  <2>1. CASE UNCHANGED scale
    <3>1. scale.run # NoRun => scale.run \in Runs /\ scale.run <= current /\ scale.run <= n /\ scale.run # n
      BY <1>2, <1>3 DEF RunInv, RunTypes, ScaleHonest, Runs
    <3> QED
      BY <2>1, <3>1, <1>1, <1>4 DEF RunInv, ScaleHonest
  <2>2. CASE scale' = [scale EXCEPT !.run = current'] /\ plan = "deferred" /\ scale.run = NoRun
    <3>1. scale'.run = n /\ scale'.outcome = scale.outcome /\ scale.outcome # "success" /\ n <= n
      BY <2>2, <1>1, <1>2, <1>3 DEF RunInv, RunTypes, ScaleHonest, Runs
    <3> QED
      BY <2>2, <3>1, <1>1, <1>4 DEF ScaleHonest
  <2> QED
    BY <2>1, <2>2
<1> QED
  BY <1>5, <1>6, <1>7 DEF RunInv

LEMMA PollScaleInv == RunInv /\ PollScale => RunInv'
<1> SUFFICES ASSUME RunInv, PollScale PROVE RunInv'
  OBVIOUS
<1>1. /\ scale.run # NoRun /\ UNCHANGED <<current, run, command, install, node, cancelled>>
      /\ \E outcome \in {"success", "failed"} :
           /\ outcome = "success" => current = scale.run /\ run[current].status = "success"
           /\ scale' = [scale EXCEPT !.outcome = outcome]
  BY DEF PollScale
<1>2. scale \in [run : Runs \cup {NoRun}, outcome : {"none", "success", "failed"}] /\ scale.run \in Runs
  BY <1>1 DEF RunInv, RunTypes
<1>3. PICK outcome \in {"success", "failed"} :
           /\ outcome = "success" => current = scale.run /\ run[current].status = "success"
           /\ scale' = [scale EXCEPT !.outcome = outcome]
  BY <1>1
<1>4. scale' \in [run : Runs \cup {NoRun}, outcome : {"none", "success", "failed"}] /\ scale'.run = scale.run /\ scale'.outcome = outcome
  BY <1>2, <1>3
<1>5. RunTypes'
  BY <1>1, <1>4 DEF RunInv, RunTypes
<1>6. ASSUME NEW j \in Runs PROVE Honest(j)' /\ Succeeded(j)'
  BY <1>1 DEF RunInv, Honest, Earned, Succeeded, Alive
<1>7. ScaleHonest'
  <2>1. outcome = "success" => Earned(scale.run) /\ run[scale.run].plan = "deferred"
    BY <1>1, <1>2, <1>3 DEF RunInv, Honest, ScaleHonest
  <2> QED
    BY <1>1, <1>4, <2>1 DEF RunInv, ScaleHonest, Earned
<1> QED
  BY <1>5, <1>6, <1>7 DEF RunInv

-----------------------------------------------------------------------------
(* The theorems.                                                           *)

LEMMA InitInv == Init => Inv
<1> SUFFICES ASSUME Init PROVE Inv
  OBVIOUS
<1>1. DownloadInv
  <2>1. DownloadTypeOK /\ EndedMeansStopped /\ Made
    BY DEF Init, DownloadInit, DownloadTypeOK, EndedMeansStopped, Made, Active, Ended
  <2>2. Ranked
    BY DEF Init, DownloadInit, Ranked, Active, Tasks, NoTask
  <2> QED
    BY <2>1, <2>2 DEF DownloadInv
<1>2. RunTypes
  BY DEF Init, RunTypes, Statuses, AllPlans, RunPcs
<1>3. ASSUME NEW i \in Runs PROVE Honest(i) /\ Succeeded(i)
  BY DEF Init, Honest, Earned, Succeeded, Alive, Runs, NoRun
<1>4. ScaleHonest
  BY DEF Init, ScaleHonest
<1> QED
  BY <1>1, <1>2, <1>3, <1>4 DEF Inv, RunInv

LEMMA RunIdle == RunInv /\ UNCHANGED installVars => RunInv'
BY DEF RunInv, RunTypes, Honest, Earned, Succeeded, Alive, ScaleHonest, installVars

LEMMA NextInv == Inv /\ [Next]_vars => Inv'
<1> SUFFICES ASSUME Inv, [Next]_vars PROVE Inv'
  OBVIOUS
<1>1. DownloadInv'
  <2>1. DownloadNext \/ UNCHANGED downloadVars
    BY DEF Next, StartInstallation, RetryStep, CancelInstallation, RunStep, FindAgent, FindPackage, WaitForDownload,
           TransferPackage, SendInstallCommand, PollStatus, RegisterNode, StartNode, AgentStep, BeginInstall, EndInstall,
           ReportInstall, StartScale, PollScale, DownloadNext, vars
  <2> QED
    BY <2>1, DownloadStepInv DEF Inv
<1>2. RunInv'
  <2>1. CASE StartInstallation
    <3>1. PICK online \in BOOLEAN, plan \in Plans : Launch(online, plan)
      BY <2>1 DEF StartInstallation
    <3> QED
      BY <2>1, <3>1, PlansAssumption, LaunchInv DEF Inv, StartInstallation
  <2>2. CASE RetryStep \/ CancelInstallation
    BY <2>2, ShowsInv DEF Inv, RetryStep, CancelInstallation
  <2>3. ASSUME NEW i \in Runs, RunStep(i) PROVE RunInv'
    BY <2>3, EarlyStepInv, SendInstallCommandInv, PollStatusInv, RegisterNodeInv, StartNodeInv DEF Inv, RunStep
  <2>4. ASSUME NEW i \in Runs, AgentStep(i) PROVE RunInv'
    BY <2>4, AgentStepInv DEF Inv
  <2>5. CASE StartScale
    <3>1. PICK online \in BOOLEAN : Launch(online, "deferred")
      BY <2>5 DEF StartScale
    <3> QED
      BY <2>5, <3>1, LaunchInv DEF Inv, StartScale, AllPlans
  <2>6. CASE PollScale
    BY <2>6, PollScaleInv DEF Inv
  <2>7. CASE UNCHANGED installVars
    BY <2>7, RunIdle DEF Inv
  <2> QED
    BY <2>1, <2>2, <2>3, <2>4, <2>5, <2>6, <2>7 DEF Next, vars
<1> QED
  BY <1>1, <1>2 DEF Inv

THEOREM Invariance == Spec => []Inv
<1> QED
  BY InitInv, NextInv, PTL DEF Spec

\* Every variable of the downloads and the installations keeps its type.
THEOREM TypeCorrect == Spec => []TypeOK
<1>1. Inv => TypeOK
  BY DEF Inv, DownloadInv, RunInv, RunTypes, RunPcs, TypeOK
<1> QED
  BY <1>1, Invariance, PTL

\* An ended download has no worker, however many were started and cancelled.
THEOREM DownloaderStopped == Spec => []EndedMeansStopped
<1>1. Inv => EndedMeansStopped
  BY DEF Inv, DownloadInv
<1> QED
  BY <1>1, Invariance, PTL

\* A completed download has left a whole package, as long as no two workers
\* were at work together.
THEOREM PackageWhole == Spec => []CompletedIsWhole
<1>1. Inv => CompletedIsWhole
  BY DEF Inv, DownloadInv, Made, CompletedIsWhole, DownloadStatus
<1> QED
  BY <1>1, Invariance, PTL

\* A success is published, and reported by a scale-out, only when everything
\* that was asked for is done.
THEOREM SuccessEarned == Spec => []SuccessIsEarned
<1>1. Inv => SuccessIsEarned
  BY DEF Inv, RunInv, Honest, Earned, ScaleHonest, SuccessIsEarned
<1> QED
  BY <1>1, Invariance, PTL

\* Two installations of the host run together only after a cancellation.
THEOREM OverlapCancelled == Spec => []OverlapNeedsCancel
<1>1. Inv => OverlapNeedsCancel
  <2> SUFFICES ASSUME Inv, NEW i \in Runs, NEW j \in Runs, i < j, Alive(i), Alive(j), i \notin cancelled PROVE FALSE
    BY DEF OverlapNeedsCancel
  <2>1. i = current /\ ~(j > current)
    BY DEF Inv, RunInv, Succeeded, Honest, Alive
  <2> QED
    BY <2>1
<1> QED
  BY <1>1, Invariance, PTL

-----------------------------------------------------------------------------
(* Whom an installation waits for.                                         *)

\* The goroutine of run i has a step to take by itself.
RunDue(i) ==
    \/ run[i].pc \in {"begin", "package", "transfer", "send", "register", "start"}
    \/ run[i].pc = "wait" /\ DownloadStatus \in {"completed", "failed"}
    \/ run[i].pc = "poll" /\ command[i] \in {"success", "failed"}

\* So has the agent, for the install command of run i.
AgentDue(i) == command[i] = "running"

\* The worker of the version's task is at work; what it does never depends on
\* anybody else.
WorkerDue == latest # NoTask /\ Active(latest)

\* An installation that is not over goes on by itself, or waits for its agent or
\* for a worker that is at work.  The only other thing it can wait for is a
\* download that has been cancelled.
WaitsForSomebody ==
    \A i \in Runs : Alive(i) =>
        \/ RunDue(i)
        \/ run[i].pc = "poll" /\ AgentDue(i)
        \/ run[i].pc = "wait" /\ (WorkerDue \/ DownloadStatus = "cancelled")

\* A task that has a status has, or had, a worker; the worker leaves it ended.
Working ==
    \A d \in Tasks :
        /\ task[d].status = "none" <=> task[d].pc = "none"
        /\ task[d].pc = "done" => task[d].status \in Ended

\* What is waited for was asked for.
Asked ==
    \A i \in Runs :
        /\ run[i].pc = "wait" => latest # NoTask
        /\ run[i].pc = "poll" => command[i] # "none"

LEMMA WorkerWorking == ASSUME DownloadTypeOK, Working, NEW d \in Tasks, Worker(d) PROVE Working'
<1>1. ASSUME NEW status \in Ended, Ends(d, status) PROVE Working'
  BY <1>1, EndsMoves DEF Working, Moves, Ended
<1>2. ASSUME NEW pc \in DownloadPcs \ {"none", "done"}, Goes(d, pc), Active(d) PROVE Working'
  BY <1>2, GoesMoves DEF Working, Moves, Active
<1>3. Active(d)
  BY DEF Worker, BeginDownload, CreateTemp, RequestFails, WriteFails, WriteEnds, StopCancelled,
         CheckCancelled, Rename, FetchSource, Publish, Active
<1>4. CASE BeginDownload(d)
  BY <1>1, <1>4 DEF BeginDownload, Working, DownloadTypeOK, Ended
<1>5. CASE CreateTemp(d)
  BY <1>3, <1>5 DEF CreateTemp, Working, DownloadTypeOK, Active
<1>6. CASE RequestFails(d) \/ WriteFails(d) \/ StopCancelled(d)
  BY <1>1, <1>6 DEF RequestFails, WriteFails, StopCancelled, Ended
<1>7. CASE WriteEnds(d) \/ CheckCancelled(d) \/ FetchSource(d)
  BY <1>2, <1>3, <1>7 DEF WriteEnds, CheckCancelled, FetchSource, DownloadPcs
<1>8. CASE Rename(d)
  BY <1>1, <1>2, <1>3, <1>8 DEF Rename, DownloadPcs, Ended
<1>9. CASE Publish(d)
  BY <1>1, <1>9 DEF Publish, Ended
<1> QED
  BY <1>4, <1>5, <1>6, <1>7, <1>8, <1>9 DEF Worker

LEMMA DownloadWorking ==
    DownloadInv /\ Working /\ (DownloadNext \/ UNCHANGED downloadVars) => Working' /\ latest' \in {latest, latest + 1}
<1> SUFFICES ASSUME DownloadInv, Working, DownloadNext \/ UNCHANGED downloadVars
             PROVE  Working' /\ latest' \in {latest, latest + 1}
  OBVIOUS
<1>1. CASE StartDownload
  <2>1. latest + 1 \in Tasks
    BY <1>1, TasksAssumption DEF StartDownload, DownloadInv, DownloadTypeOK, Tasks, NoTask
  <2> QED
    BY <1>1, <2>1 DEF StartDownload, Working, DownloadInv, DownloadTypeOK
<1>2. CASE CancelDownload
  BY <1>2 DEF CancelDownload, DownloadStatus, Working, DownloadInv, DownloadTypeOK, NoTask, Ended
<1>3. ASSUME NEW d \in Tasks, Worker(d) PROVE Working' /\ latest' = latest
  <2>1. latest' = latest
    BY <1>3 DEF Worker, BeginDownload, CreateTemp, RequestFails, WriteFails, WriteEnds, StopCancelled,
           CheckCancelled, Rename, FetchSource, Publish
  <2> QED
    BY <1>3, <2>1, WorkerWorking DEF DownloadInv
<1>4. CASE UNCHANGED downloadVars
  BY <1>4 DEF downloadVars, Working
<1> QED
  BY <1>1, <1>2, <1>3, <1>4 DEF DownloadNext

LEMMA NextAsked == Inv /\ Working /\ Asked /\ [Next]_vars => Working' /\ Asked'
<1> SUFFICES ASSUME Inv, Working, Asked, [Next]_vars PROVE Working' /\ Asked'
  OBVIOUS
<1>1. DownloadNext \/ UNCHANGED downloadVars
  BY DEF Next, StartInstallation, RetryStep, CancelInstallation, RunStep, FindAgent, FindPackage, WaitForDownload,
         TransferPackage, SendInstallCommand, PollStatus, RegisterNode, StartNode, AgentStep, BeginInstall, EndInstall,
         ReportInstall, StartScale, PollScale, DownloadNext, vars
<1>2. Working' /\ (latest # NoTask => latest' # NoTask)
  BY <1>1, DownloadWorking, TasksAssumption DEF Inv, DownloadInv, DownloadTypeOK, Tasks, NoTask
<1>3. run \in [Runs -> [status : Statuses, online : BOOLEAN, plan : AllPlans, pc : RunPcs]]
      /\ command \in [Runs -> {"none", "running", "success", "failed"}] /\ current \in Runs \cup {NoRun}
  BY DEF Inv, RunInv, RunTypes
<1>4. ASSUME NEW online, NEW plan, Launch(online, plan), command' = command PROVE Asked'
  <2>1. run' = [run EXCEPT ![current + 1] = [status |-> "running", online |-> online, plan |-> plan, pc |-> "begin"]]
    BY <1>4 DEF Launch
  <2>2. \A i \in Runs : run'[i] = run[i] \/ run'[i].pc = "begin"
    BY <1>3, <2>1
  <2> QED
    BY <1>2, <1>4, <2>2 DEF Asked
<1>5. CASE StartInstallation \/ StartScale
  <2>1. command' = command
    BY <1>5 DEF StartInstallation, StartScale
  <2>2. CASE StartInstallation
    <3>1. PICK online \in BOOLEAN, plan \in Plans : Launch(online, plan)
      BY <2>2 DEF StartInstallation
    <3> QED
      BY <1>2, <1>4, <2>1, <3>1
  <2>3. CASE StartScale
    <3>1. PICK online \in BOOLEAN : Launch(online, "deferred")
      BY <2>3 DEF StartScale
    <3> QED
      BY <1>2, <1>4, <2>1, <3>1
  <2> QED
    BY <1>5, <2>2, <2>3
<1>6. CASE RetryStep \/ CancelInstallation
  BY <1>2, <1>3, <1>6 DEF RetryStep, CancelInstallation, Asked
<1>7. ASSUME NEW i \in Runs, RunStep(i) PROVE Asked'
  <2>1. ASSUME NEW pc, RunGoes(i, pc), pc = "wait" => latest' # NoTask, pc = "poll" => command'[i] # "none",
               \A j \in Runs \ {i} : command'[j] = command[j]
        PROVE  Asked'
    BY <1>2, <1>3, <2>1 DEF RunGoes, Asked
  <2>2. ASSUME NEW status, RunEnds(i, status), command' = command PROVE Asked'
    BY <1>2, <1>3, <2>2 DEF RunEnds, Asked
  <2>3. CASE FindPackage(i)
    <3>1. StartDownload \/ DownloadStatus \in {"pending", "downloading"} => latest' # NoTask
      BY <1>2 DEF StartDownload, DownloadStatus, Inv, DownloadInv, DownloadTypeOK, Tasks, NoTask
    <3> QED
      BY <2>1, <2>2, <2>3, <3>1 DEF FindPackage
  <2>4. CASE SendInstallCommand(i)
    BY <1>3, <2>1, <2>2, <2>4 DEF SendInstallCommand
  <2>5. CASE FindAgent(i) \/ WaitForDownload(i) \/ TransferPackage(i)
    BY <2>1, <2>2, <2>5 DEF FindAgent, WaitForDownload, TransferPackage
  <2>6. CASE PollStatus(i) \/ RegisterNode(i) \/ StartNode(i)
    BY <2>1, <2>2, <2>6 DEF PollStatus, RegisterNode, StartNode
  <2> QED
    BY <1>7, <2>3, <2>4, <2>5, <2>6 DEF RunStep
<1>8. ASSUME NEW i \in Runs, AgentStep(i) PROVE Asked'
  BY <1>2, <1>3, <1>8 DEF AgentStep, BeginInstall, EndInstall, ReportInstall, Asked
<1>9. CASE PollScale \/ UNCHANGED installVars
  BY <1>2, <1>9 DEF PollScale, installVars, Asked
<1> QED
  BY <1>2, <1>5, <1>6, <1>7, <1>8, <1>9 DEF Next, vars

\* Nobody waits for somebody who is not there: an installation goes on, its agent
\* works on its command, the download it waits for has a worker, or that download
\* was cancelled, which the polling loop does not look for.
THEOREM NobodyForgotten == Spec => []WaitsForSomebody
<1>1. Init => Working /\ Asked
  BY DEF Init, DownloadInit, Working, Asked
<1>2. ASSUME Inv, Working, Asked, NEW i \in Runs, Alive(i), ~RunDue(i)
      PROVE  \/ run[i].pc = "poll" /\ AgentDue(i)
             \/ run[i].pc = "wait" /\ (WorkerDue \/ DownloadStatus = "cancelled")
  <2>1. run[i].pc \in {"wait", "poll"} /\ command[i] \in {"none", "running", "success", "failed"}
    BY <1>2 DEF Inv, RunInv, RunTypes, RunPcs, Alive, RunDue
  <2>2. CASE run[i].pc = "poll"
    BY <1>2, <2>1, <2>2 DEF Asked, RunDue, AgentDue
  <2>3. CASE run[i].pc = "wait"
    <3>1. latest \in Tasks /\ DownloadStatus = task[latest].status
      BY <1>2, <2>3 DEF Asked, Inv, DownloadInv, DownloadTypeOK, DownloadStatus
    <3>2. task[latest].pc # "none"
      BY <1>2, <3>1 DEF Inv, DownloadInv, Ranked, Tasks
    <3>3. WorkerDue \/ DownloadStatus \in Ended
      BY <1>2, <2>3, <3>1, <3>2 DEF Working, WorkerDue, Active, Asked
    <3> QED
      BY <1>2, <2>3, <3>3 DEF RunDue, Ended
  <2> QED
    BY <2>1, <2>2, <2>3
<1>3. Inv /\ Working /\ Asked => WaitsForSomebody
  BY <1>2 DEF WaitsForSomebody
<1>4. Spec => [](Working /\ Asked)
  BY <1>1, NextAsked, Invariance, PTL DEF Spec
<1> QED
  BY <1>3, <1>4, Invariance, PTL
=============================================================================
