---------------------------- MODULE SyncJob_proofs ----------------------------
(***************************************************************************)
(* Proofs about SyncJob for any number of cancellers, stop requests and    *)
(* restarts: the state is well-typed, a final row and an ended execution   *)
(* tell the truth about the job in the engine, no observer takes back a    *)
(* stop, and an ended execution is never opened again; and a row settles:  *)
(* one look at a job that is over ends it, for good.                       *)
(*                                                                         *)
(* The danger is in the copies: everybody acts on a row loaded earlier.    *)
(* The invariant says of each copy what still holds when it is used:       *)
(*   - a final status, once somebody carries it, is about a job that is    *)
(*     over for good (Over), and being over is never taken back,           *)
(*   - while the submit is on its way a row, and the copies the runner     *)
(*     saves and the reconciler asks about, still wait for a confirmation  *)
(*     (Knows), so an empty answer or an earlier run's end convinces nobody,*)
(*   - the copies that are written back have statuses that fit the step.   *)
(***************************************************************************)
EXTENDS SyncJob, TLAPS

\* The job in the engine has ended, was lost or forgotten, or was given up on.
Over == GivenUp \/ engine \in Ended \cup {"lost", "gone"}

\* Somebody who holds this row may believe the engine's answers about it.
Knows(job) ==
    /\ engine # "none"
    /\ engine = "inflight" => job.outcome = "unknown" \/ GivenUp

PCs == {"idle", "done", "wait", "save", "bind", "query", "expire", "claim", "ask",
        "request", "stop", "restore", "mark", "force", "close", "finish", "get", "move"}

ActorState == [pc : PCs, job : Row, item : Exec, how : {"plain", "savepoint", "execution"},
               prev : {"none", "pending", "running"}]

\* What an actor in state s may rely on, whatever happened since it loaded its
\* copy.
Sound(s) ==
    /\ s.job.status \in Final => Over
    /\ s.pc \in {"save", "bind"} => s.job.status \in {"pending", "running"}
    /\ s.pc \in {"save", "query"} => Knows(s.job)
    /\ s.pc \in {"query", "expire"} => s.job.status # "none"
    /\ s.pc = "expire" => givenUp
    /\ s.pc = "request" => s.job.status \notin Final \cup Cancelling
    /\ s.pc = "claim" => s.item.status \notin ExecFinal

\* The job is in the engine only after the runner has begun, and its row only
\* after the runner has waited for the answer.
RunnerInv ==
    /\ act["runner"].pc = "idle" => engine = "none"
    /\ act["runner"].pc = "wait" => engine # "none" /\ row.status = "none"

RowInv ==
    /\ row.status # "none" => Knows(row)
    /\ row.status \in Final => Over

ExecInv == exec.status \in ExecFinal => Over

Inv == TypeOK /\ RunnerInv /\ RowInv /\ ExecInv /\ \A a \in Actors : Sound(act[a])

-----------------------------------------------------------------------------
(* The model's operators.                                                  *)

Raws == {"", "RUNNING", "DOING_SAVEPOINT", "CANCELING", "FINISHED", "FAILED", "CANCELED", "SAVEPOINT_DONE"}

\* The engine's answers.
LEMMA AnswersType ==
    ASSUME TypeOK, NEW raw \in Answers
    PROVE  raw \in Raws
BY DEF Answers, Raws, TypeOK, Alive, Ended, Absent

\* What a row may become by an answer: only a final answer or an empty one ends
\* it, and none makes a row that is being stopped run again.
LEMMA Observed ==
    ASSUME NEW old \in JobStatus, NEW raw \in Raws
    PROVE  /\ ObservedStatus(old, raw) \in JobStatus
           /\ old # "none" => ObservedStatus(old, raw) # "none"
           /\ ObservedStatus(old, raw) \in Final =>
                 old \in Final \/ raw = "" \/ isFinalEngineJobStatus(raw)
           /\ old \in Cancelling => ObservedStatus(old, raw) \notin {"pending", "running"}
<1>1. CASE raw = ""
  BY <1>1 DEF ObservedStatus, JobStatus, Final, Cancelling
<1>2. CASE raw # ""
  <2>1. /\ normalizeJobStatus[raw] \in {"running", "doing_savepoint", "cancelling"} \cup Final
        /\ normalizeJobStatus[raw] \in Final => isFinalEngineJobStatus(raw)
    <3>1. raw \in {"RUNNING", "DOING_SAVEPOINT", "CANCELING"} \/ isFinalEngineJobStatus(raw)
      BY <1>2 DEF Raws, isFinalEngineJobStatus
    <3>2. CASE raw \in {"RUNNING", "DOING_SAVEPOINT", "CANCELING"}
      BY <3>2 DEF normalizeJobStatus, Final
    <3>3. CASE isFinalEngineJobStatus(raw)
      BY <3>3 DEF normalizeJobStatus, Final, isFinalEngineJobStatus
    <3>. QED  BY <3>1, <3>2, <3>3
  <2>2. PICK new : new = normalizeJobStatus[raw]
    OBVIOUS
  <2>3. ObservedStatus(old, raw) =
          IF old \in Final THEN old
          ELSE IF old \in Cancelling
          THEN CASE new = "running" -> old [] new = "success" -> "canceled" [] OTHER -> new
          ELSE new
    BY <1>2, <2>2 DEF ObservedStatus
  <2>. QED  BY <2>1, <2>2, <2>3 DEF JobStatus, Final, Cancelling
<1>. QED  BY <1>1, <1>2

\* An answer that ends the row of somebody who does not have to wait is about
\* a job that is over.
LEMMA AnsweredOver ==
    ASSUME TypeOK, NEW job, Knows(job), NEW raw \in Answers, ~Waits(job, raw),
           raw = "" \/ isFinalEngineJobStatus(raw)
    PROVE  Over
<1>1. CASE engine \in Alive
  BY <1>1 DEF Alive, Answers, isFinalEngineJobStatus
<1>2. CASE engine \in Ended
  BY <1>2 DEF Over
<1>3. CASE engine \in Absent
  <2>1. engine # "none"
    BY DEF Knows
  <2>2. CASE engine = "inflight"
    BY <2>2 DEF Knows, Waits, Answers, Over, GivenUp, isFinalEngineJobStatus
  <2>3. CASE engine # "inflight"
    BY <1>3, <2>1, <2>3 DEF Absent, Over
  <2>. QED  BY <2>2, <2>3
<1>. QED  BY <1>1, <1>2, <1>3 DEF TypeOK

\* The execution follows the status of a job in type,
LEMMA TargetType ==
    ASSUME NEW status \in JobStatus, NEW item
    PROVE  Target(status, item) \in ExecStatus
BY DEF Target, executionStatusFromJob, ExecStatus, ExecFinal, JobStatus, Final, Cancelling

\* and it ends with a final status only.
LEMMA TargetFinal ==
    ASSUME NEW status \in JobStatus, NEW item, Target(status, item) \in ExecFinal
    PROVE  status \in Final
BY DEF Target, executionStatusFromJob, ExecFinal, JobStatus, Final, Cancelling

LEMMA SyncedType ==
    ASSUME exec \in Exec, NEW status \in JobStatus
    PROVE  /\ Synced(status) \in Exec
           /\ Synced(status).status \in ExecFinal => exec.status \in ExecFinal \/ status \in Final
           /\ exec.status \in ExecFinal => Synced(status) = exec
<1> DEFINE target == Target(status, exec.status)
<1>1. target \in ExecStatus /\ (target \in ExecFinal => status \in Final)
  BY TargetType, TargetFinal
<1>2. CASE Synced(status) = exec
  BY <1>2
<1>3. CASE Synced(status) # exec
  <2>1. /\ Synced(status) = [exec EXCEPT !.status = target, !.cancellable = status \notin Final]
        /\ exec.status \notin ExecFinal
    BY <1>3 DEF Synced
  <2>2. Synced(status) \in Exec /\ Synced(status).status = target
    <3> HIDE DEF target
    <3>. QED  BY <1>1, <2>1 DEF Exec
  <2>. QED  BY <1>1, <2>1, <2>2
<1>. QED  BY <1>2, <1>3

\* A step of the execution ends it only when its target does, and an ended one
\* takes no step.
LEMMA NextStatus ==
    ASSUME NEW from \in ExecStatus, NEW target \in ExecStatus
    PROVE  /\ nextExecutionStatus(from, target) \in ExecStatus
           /\ nextExecutionStatus(from, target) \in {from, target} \cup {"cancel_requested", "running"}
           /\ from \in ExecFinal => nextExecutionStatus(from, target) = from
BY DEF nextExecutionStatus, CanTransition, ExecStatus, ExecFinal

-----------------------------------------------------------------------------
(* Frames.                                                                 *)

\* What every step keeps of the engine and of what has been given up.
Onward ==
    /\ givenUp => givenUp'
    /\ GivenUp => GivenUp'
    /\ Over => Over'
    /\ engine # "none" => engine' # "none"
    /\ engine # "none" /\ engine' = "inflight" => engine = "inflight"

\* A step that leaves the engine and the deadline alone.
LEMMA Quiet ==
    ASSUME TypeOK, UNCHANGED <<recover, engine, late>>, givenUp => givenUp'
    PROVE  Onward
BY DEF Onward, GivenUp, Over

LEMMA KnowsKept ==
    ASSUME Onward, NEW job, Knows(job)
    PROVE  Knows(job)'
BY DEF Onward, Knows

\* What an actor relies on stays true, whatever the others do.
LEMMA SoundKept ==
    ASSUME Onward, NEW s, Sound(s)
    PROVE  Sound(s)'
<1>1. s.pc \in {"save", "query"} => Knows(s.job)'
  BY KnowsKept DEF Sound
<1>. QED  BY <1>1 DEF Onward, Sound

LEMMA ActType ==
    ASSUME TypeOK
    PROVE  act \in [Actors -> ActorState]
BY DEF TypeOK, ActorState, PCs

\* One actor a moves to the state s.
LEMMA Move ==
    ASSUME Inv, Onward, NEW a \in Actors, NEW s \in ActorState, Become(a, s), Sound(s)'
    PROVE  /\ act' \in [Actors -> ActorState]
           /\ act'[a] = s
           /\ \A b \in Actors : b # a => act'[b] = act[b]
           /\ \A b \in Actors : Sound(act[b])'
<1>1. act \in [Actors -> ActorState]
  BY ActType DEF Inv
<1>2. /\ act' \in [Actors -> ActorState]
      /\ act'[a] = s
      /\ \A b \in Actors : b # a => act'[b] = act[b]
  BY <1>1 DEF Become
<1>3. ASSUME NEW b \in Actors
      PROVE  Sound(act[b])'
  <2>1. PICK t : t = act[b]
    OBVIOUS
  <2>2. Sound(t)
    BY <2>1 DEF Inv
  <2>3. Sound(t)'
    BY <2>2, SoundKept
  <2>4. act'[b] \in {s, t}
    BY <1>2, <2>1
  <2>. QED  BY <2>3, <2>4
<1>. QED  BY <1>2, <1>3

\* The rest of the state's types.
Types ==
    /\ recover \in BOOLEAN /\ row \in Row /\ exec \in Exec
    /\ engine \in Alive \cup Ended \cup Absent
    /\ late \in BOOLEAN /\ givenUp \in BOOLEAN
    /\ cancels \in 0 .. MaxCancels /\ crashes \in 0 .. MaxCrashes

LEMMA TypesOfState ==
    TypeOK <=> Types /\ act \in [Actors -> ActorState]
BY DEF TypeOK, Types, ActorState, PCs

\* One actor's step keeps the invariant.
LEMMA Step ==
    ASSUME Inv, Onward, NEW a \in Actors, NEW s \in ActorState, Become(a, s), Sound(s)',
           Types', RowInv', ExecInv',
           \/ /\ a = "runner" /\ s.pc # "idle"
              /\ s.pc = "wait" => engine' # "none" /\ row'.status = "none"
           \/ /\ a # "runner"
              /\ engine = "none" => engine' = "none"
              /\ row.status = "none" => row'.status = "none"
    PROVE  Inv'
<1>1. /\ act' \in [Actors -> ActorState]
      /\ act'[a] = s
      /\ \A b \in Actors : b # a => act'[b] = act[b]
      /\ \A b \in Actors : Sound(act[b])'
  BY Move
<1>2. TypeOK'
  BY <1>1 DEF TypeOK, Types, ActorState, PCs
<1>3. RunnerInv'
  <2>1. "runner" \in Actors
    BY DEF Actors
  <2>2. CASE /\ a = "runner" /\ s.pc # "idle"
             /\ s.pc = "wait" => engine' # "none" /\ row'.status = "none"
    BY <1>1, <2>2 DEF RunnerInv
  <2>3. CASE a # "runner"
    BY <1>1, <2>1, <2>3 DEF RunnerInv, Inv, Onward
  <2>. QED  BY <2>2, <2>3
<1>. QED  BY <1>1, <1>2, <1>3 DEF Inv

\* A step of an observer or canceller that changes at most the row, and the
\* history: it writes a status that is true.
LEMMA RowStep ==
    ASSUME Inv, NEW a \in Actors \ {"runner"}, NEW s \in ActorState, Become(a, s), Sound(s)',
           UNCHANGED <<recover, exec, engine, late, crashes>>,
           givenUp => givenUp', givenUp' \in BOOLEAN, cancels' \in 0 .. MaxCancels,
           \/ UNCHANGED row
           \/ /\ row' \in Row /\ row.status # "none"
              /\ engine = "inflight" => row'.outcome = row.outcome \/ Over'
              /\ row'.status \in Final => Over'
    PROVE  Inv'
<1>1. TypeOK /\ Types
  BY TypesOfState DEF Inv
<1>2. Onward
  BY <1>1, Quiet
<1>3. Types'
  BY <1>1 DEF Types
<1>4. ExecInv'
  BY <1>2 DEF Inv, ExecInv, Onward
<1>5. RowInv' /\ (row.status = "none" => row'.status = "none")
  <2>1. CASE UNCHANGED row
    <3>1. PICK r : r = row
      OBVIOUS
    <3>2. r.status # "none" => Knows(r)'
      BY <1>2, <3>1, KnowsKept DEF Inv, RowInv
    <3>. QED  BY <1>2, <2>1, <3>1, <3>2 DEF Inv, RowInv, Onward
  <2>2. CASE /\ row' \in Row /\ row.status # "none"
             /\ engine = "inflight" => row'.outcome = row.outcome \/ Over'
             /\ row'.status \in Final => Over'
    <3>1. Knows(row)
      BY <2>2 DEF Inv, RowInv
    <3>2. Knows(row)'
      <4>1. engine' # "none"
        BY <3>1 DEF Knows
      <4>2. ASSUME engine' = "inflight"
            PROVE  row'.outcome = "unknown" \/ GivenUp'
        <5>1. CASE Over'
          BY <4>2, <5>1 DEF Over, Ended
        <5>2. CASE row'.outcome = row.outcome
          BY <1>2, <3>1, <4>2, <5>2 DEF Knows, Onward
        <5>. QED  BY <2>2, <4>2, <5>1, <5>2
      <4>. QED  BY <4>1, <4>2 DEF Knows
    <3>. QED  BY <2>2, <3>2 DEF RowInv
  <2>. QED  BY <2>1, <2>2
<1>. QED  BY <1>2, <1>3, <1>4, <1>5, Step

\* A step of an observer or canceller that changes at most the execution.
LEMMA ExecStep ==
    ASSUME Inv, NEW a \in Actors \ {"runner"}, NEW s \in ActorState, Become(a, s), Sound(s),
           UNCHANGED <<recover, row, engine, late, givenUp, crashes>>, cancels' \in 0 .. MaxCancels,
           exec' \in Exec, exec'.status \in ExecFinal => exec.status \in ExecFinal \/ Over
    PROVE  Inv'
<1>1. TypeOK /\ Types
  BY TypesOfState DEF Inv
<1>2. Onward
  BY <1>1, Quiet
<1>3. Types'
  BY <1>1 DEF Types
<1>4. ExecInv'
  BY <1>2 DEF Inv, ExecInv, Onward
<1>5. RowInv'
  BY <1>2 DEF Inv, RowInv, Onward, Knows
<1>6. Sound(s)'
  BY <1>2, SoundKept
<1>. QED  BY <1>2, <1>3, <1>4, <1>5, <1>6, Step

-----------------------------------------------------------------------------
(* The states the actors move to.                                          *)

\* A state that uses its copy for its final status only.
LEMMA Plain ==
    ASSUME NEW s, s.pc \notin {"save", "bind", "query", "expire", "request", "claim"},
           s.job.status \in Final => Over
    PROVE  Sound(s)
BY DEF Sound

LEMMA PlainNext ==
    ASSUME NEW s, s.pc \notin {"save", "bind", "query", "expire", "request", "claim"},
           s.job.status \in Final => Over'
    PROVE  Sound(s)'
BY DEF Sound

LEMMA IdleState ==
    /\ Idle \in ActorState
    /\ Idle = [pc |-> "idle", job |-> NoRow, item |-> NewExec, how |-> "plain", prev |-> "none"]
    /\ NoRow.status = "none" /\ NoRow \in Row /\ NewExec \in Exec
    /\ Sound(Idle)
BY DEF Idle, NoRow, NewExec, ActorState, PCs, Row, Exec, JobStatus, ExecStatus, Sound, Final

\* What a handler leaves behind when it returns: nothing, or the job's status
\* for the rest of Execution.Cancel.
LEMMA ReturnedState ==
    ASSUME NEW a, NEW ok, NEW job, job.status \in JobStatus
    PROVE  /\ Returned(a, ok, job) \in ActorState
           /\ Returned(a, ok, job).pc \in {"idle", "finish"}
           /\ Returned(a, ok, job).job.status \in {"none", job.status}
<1>1. CASE ok /\ act[a].how = "execution"
  <2>. PICK s : s = [Idle EXCEPT !.pc = "finish", !.job.status = job.status, !.how = "execution"]
    OBVIOUS
  <2>1. [NoRow EXCEPT !.status = job.status] \in Row /\ [NoRow EXCEPT !.status = job.status].status = job.status
    BY IdleState DEF Row
  <2>2. s = [pc |-> "finish", job |-> [NoRow EXCEPT !.status = job.status], item |-> NewExec, how |-> "execution",
             prev |-> "none"]
    BY DEF Idle
  <2>3. s \in ActorState /\ s.pc = "finish" /\ s.job.status = job.status
    BY <2>1, <2>2, IdleState DEF ActorState, PCs
  <2>4. Returned(a, ok, job) = s
    BY <1>1 DEF Returned
  <2>. QED  BY <2>3, <2>4
<1>2. CASE ~(ok /\ act[a].how = "execution")
  BY <1>2, IdleState DEF Returned
<1>. QED  BY <1>1, <1>2

LEMMA ReturnedSound ==
    ASSUME NEW a, NEW ok, NEW job, job.status \in JobStatus, job.status \in Final => Over
    PROVE  Returned(a, ok, job) \in ActorState /\ Sound(Returned(a, ok, job))
<1>1. PICK s : s = Returned(a, ok, job)
  OBVIOUS
<1>2. s \in ActorState /\ s.pc \in {"idle", "finish"} /\ s.job.status \in {"none", job.status}
  BY <1>1, ReturnedState
<1>3. Sound(s)
  BY <1>2 DEF Sound, Final
<1>. QED  BY <1>1, <1>2, <1>3

LEMMA SyncState ==
    ASSUME NEW a, NEW job, job.status \in JobStatus, NEW how \in {"plain", "execution"}
    PROVE  /\ Sync(a, job, how) \in ActorState
           /\ Sync(a, job, how).pc \in {"idle", "finish", "get"}
           /\ Sync(a, job, how).job.status \in {"none", job.status}
<1>1. CASE job.bound
  <2>. PICK s : s = [Idle EXCEPT !.pc = "get", !.job.status = job.status, !.how = how]
    OBVIOUS
  <2>1. [NoRow EXCEPT !.status = job.status] \in Row /\ [NoRow EXCEPT !.status = job.status].status = job.status
    BY IdleState DEF Row
  <2>2. s = [pc |-> "get", job |-> [NoRow EXCEPT !.status = job.status], item |-> NewExec, how |-> how,
             prev |-> "none"]
    BY DEF Idle
  <2>3. s \in ActorState /\ s.pc = "get" /\ s.job.status = job.status
    BY <2>1, <2>2, IdleState DEF ActorState, PCs
  <2>4. Sync(a, job, how) = s
    BY <1>1 DEF Sync
  <2>. QED  BY <2>3, <2>4
<1>2. CASE ~job.bound
  <2>1. Sync(a, job, how) = Returned(a, TRUE, job)
    BY <1>2 DEF Sync
  <2>2. /\ Returned(a, TRUE, job) \in ActorState /\ Returned(a, TRUE, job).pc \in {"idle", "finish"}
        /\ Returned(a, TRUE, job).job.status \in {"none", job.status}
    BY ReturnedState
  <2>. QED  BY <2>1, <2>2
<1>. QED  BY <1>1, <1>2

\* CancelJob goes on with a row that is not final.
LEMMA CancelJobState ==
    ASSUME Inv, NEW c \in Actors, NEW how \in {"plain", "savepoint", "execution"}, CancelJob(c, how)
    PROVE  \E s \in ActorState : Become(c, s) /\ Sound(s)
<1>1. row \in Row
  BY DEF Inv, TypeOK
<1>2. CASE row.status \in Final
  <2>1. Become(c, Idle)
    BY <1>2 DEF CancelJob, Final, Cancelling
  <2>. QED  BY <2>1, IdleState
<1>3. CASE row.status \notin Final /\ row.status \notin Cancelling
  <2> DEFINE s == [Idle EXCEPT !.pc = "request", !.job = [row EXCEPT !.outcome = "known"], !.how = how]
  <2>1. s \in ActorState /\ s.pc = "request" /\ s.job.status = row.status
    BY <1>1, IdleState DEF ActorState, PCs, Row
  <2>2. Sound(s)
    BY <1>3, <2>1 DEF Sound
  <2>. QED  BY <1>3, <2>1, <2>2 DEF CancelJob
<1>4. CASE row.status \in Cancelling /\ how # "savepoint" /\ row.sp
  <2>. PICK s : s = [Idle EXCEPT !.pc = "force", !.job.bound = row.bound, !.how = how]
    OBVIOUS
  <2>1. s \in ActorState /\ s.pc = "force" /\ s.job.status = "none"
    <3>1. [NoRow EXCEPT !.bound = row.bound] \in Row /\ [NoRow EXCEPT !.bound = row.bound].status = "none"
      BY <1>1, IdleState DEF Row
    <3>2. s = [pc |-> "force", job |-> [NoRow EXCEPT !.bound = row.bound], item |-> NewExec, how |-> how,
               prev |-> "none"]
      BY DEF Idle
    <3>. QED  BY <3>1, <3>2, IdleState DEF ActorState, PCs
  <2>2. Sound(s)
    BY <2>1, Plain DEF Final
  <2>. QED  BY <1>4, <2>1, <2>2 DEF CancelJob, Final, Cancelling
<1>5. CASE row.status \in Cancelling /\ ~(how # "savepoint" /\ row.sp)
  <2>. PICK s : s = [Idle EXCEPT !.pc = "finish", !.job.status = row.status, !.how = how]
    OBVIOUS
  <2>1. s \in ActorState /\ s.pc = "finish" /\ s.job.status = row.status
    <3>1. [NoRow EXCEPT !.status = row.status] \in Row /\ [NoRow EXCEPT !.status = row.status].status = row.status
      BY <1>1, IdleState DEF Row
    <3>2. s = [pc |-> "finish", job |-> [NoRow EXCEPT !.status = row.status], item |-> NewExec, how |-> how,
               prev |-> "none"]
      BY DEF Idle
    <3>. QED  BY <3>1, <3>2, IdleState DEF ActorState, PCs
  <2>2. Sound(s)
    BY <1>5, <2>1, Plain DEF Final, Cancelling
  <2>3. Become(c, s) \/ Become(c, Idle)
    BY <1>5 DEF CancelJob, Final, Cancelling
  <2>. QED  BY <2>1, <2>2, <2>3, IdleState
<1>. QED  BY <1>2, <1>3, <1>4, <1>5

-----------------------------------------------------------------------------
(* The execution follows the job.                                          *)

LEMMA SyncGetInv ==
    ASSUME Inv, NEW a \in Actors \ {"runner"}, SyncGet(a)
    PROVE  Inv'
<1>1. act[a] \in ActorState /\ Sound(act[a]) /\ exec \in Exec
  BY ActType DEF Inv, TypeOK
<1>2. PICK s : s = IF Synced(act[a].job.status) = exec THEN Returned(a, TRUE, act[a].job)
                   ELSE [act[a] EXCEPT !.pc = "move", !.item.status = exec.status]
  OBVIOUS
<1>3. s \in ActorState /\ Sound(s)
  <2>1. act[a].job \in Row /\ act[a].job.status \in JobStatus
    BY <1>1 DEF ActorState, Row
  <2>2. CASE Synced(act[a].job.status) = exec
    <3>1. s = Returned(a, TRUE, act[a].job)
      BY <1>2, <2>2
    <3>2. act[a].job.status \in Final => Over
      BY <1>1 DEF Sound
    <3>. QED  BY <2>1, <3>1, <3>2, ReturnedSound
  <2>3. CASE Synced(act[a].job.status) # exec
    <3>1. s = [act[a] EXCEPT !.pc = "move", !.item.status = exec.status]
      BY <1>2, <2>3
    <3>2. s \in ActorState /\ s.pc = "move" /\ s.job = act[a].job
      BY <1>1, <3>1 DEF ActorState, PCs, Exec
    <3>. QED  BY <1>1, <3>2, Plain DEF Sound
  <2>. QED  BY <2>2, <2>3
<1>4. Become(a, s) /\ UNCHANGED <<recover, row, exec, engine, late, givenUp, cancels, crashes>>
  BY <1>2 DEF SyncGet
<1>5. cancels' \in 0 .. MaxCancels
  BY <1>4 DEF Inv, TypeOK
<1>. QED  BY <1>1, <1>3, <1>4, <1>5, ExecStep

LEMMA SyncMoveInv ==
    ASSUME Inv, NEW a \in Actors \ {"runner"}, SyncMove(a)
    PROVE  Inv'
<1>1. act[a] \in ActorState /\ Sound(act[a]) /\ exec \in Exec
  BY ActType DEF Inv, TypeOK
<1>2. PICK item, status : item = act[a].item /\ status = act[a].job.status
  OBVIOUS
<1>3. item \in Exec /\ item.status \in ExecStatus /\ status \in JobStatus
  BY <1>1, <1>2 DEF ActorState, Row, Exec
<1>4. PICK target : target = Target(status, item.status)
  OBVIOUS
<1>5. target \in ExecStatus /\ (target \in ExecFinal => Over)
  BY <1>1, <1>2, <1>3, <1>4, TargetType, TargetFinal DEF Sound
<1>6. PICK next : next = nextExecutionStatus(item.status, target)
  OBVIOUS
<1>7. /\ next \in ExecStatus
      /\ next # item.status => next \in {target, "cancel_requested", "running"}
  BY <1>3, <1>5, <1>6, NextStatus
<1>8. UNCHANGED <<recover, row, engine, late, givenUp, cancels, crashes>>
  BY DEF SyncMove
<1>9. cancels' \in 0 .. MaxCancels
  BY <1>8 DEF Inv, TypeOK
<1>10. \/ Become(a, Returned(a, FALSE, NoRow)) /\ UNCHANGED exec
       \/ /\ next # item.status
          /\ exec' = [exec EXCEPT !.status = next, !.cancellable = status \notin Final]
          /\ \/ Become(a, Returned(a, TRUE, act[a].job))
             \/ Become(a, [act[a] EXCEPT !.item.status = next])
  <2>1. act[a].pc = "move"
        /\ IF next = item.status \/ exec.status # item.status
           THEN Become(a, Returned(a, FALSE, NoRow)) /\ UNCHANGED exec
           ELSE /\ exec' = [exec EXCEPT !.status = next, !.cancellable = status \notin Final]
                /\ IF next = target THEN Become(a, Returned(a, TRUE, act[a].job))
                   ELSE Become(a, [act[a] EXCEPT !.item.status = next])
    BY <1>2, <1>4, <1>6, Zenon DEF SyncMove
  <2>. QED  BY <2>1
<1>11. act[a].pc = "move"
  BY DEF SyncMove
<1>12. CASE Become(a, Returned(a, FALSE, NoRow)) /\ UNCHANGED exec
  <2>1. PICK s : s = Returned(a, FALSE, NoRow)
    OBVIOUS
  <2>2. s \in ActorState /\ Sound(s)
    BY <2>1, IdleState, ReturnedSound DEF Final, JobStatus
  <2>. QED  BY <1>1, <1>8, <1>9, <1>12, <2>1, <2>2, ExecStep
<1>13. CASE /\ next # item.status
            /\ exec' = [exec EXCEPT !.status = next, !.cancellable = status \notin Final]
            /\ \/ Become(a, Returned(a, TRUE, act[a].job))
               \/ Become(a, [act[a] EXCEPT !.item.status = next])
  <2>1. exec' \in Exec /\ exec'.status = next
    BY <1>1, <1>7, <1>13 DEF Exec
  <2>2. exec'.status \in ExecFinal => Over
    BY <1>5, <1>7, <1>13, <2>1 DEF ExecFinal
  <2>3. PICK s : Become(a, s) /\ (s = Returned(a, TRUE, act[a].job) \/ s = [act[a] EXCEPT !.item.status = next])
    BY <1>13
  <2>4. s \in ActorState /\ Sound(s)
    <3>1. CASE s = Returned(a, TRUE, act[a].job)
      <4>1. act[a].job.status \in JobStatus /\ (act[a].job.status \in Final => Over)
        BY <1>1, <1>2, <1>3 DEF Sound
      <4>. QED  BY <3>1, <4>1, ReturnedSound
    <3>2. CASE s = [act[a] EXCEPT !.item.status = next]
      <4>1. s \in ActorState /\ s.pc = "move" /\ s.job = act[a].job
        BY <1>1, <1>7, <1>11, <3>2 DEF ActorState, Exec
      <4>. QED  BY <1>1, <4>1, Plain DEF Sound
    <3>. QED  BY <2>3, <3>1, <3>2
  <2>. QED  BY <1>1, <1>8, <1>9, <2>1, <2>2, <2>3, <2>4, ExecStep
<1>. QED  BY <1>10, <1>12, <1>13

-----------------------------------------------------------------------------
(* The runner.                                                             *)

LEMMA RunnerState ==
    ASSUME TypeOK
    PROVE  "runner" \in Actors /\ act["runner"] \in ActorState
BY ActType DEF Actors

LEMMA SubmitInv ==
    ASSUME Inv, Submit
    PROVE  Inv'
<1>1. TypeOK /\ Types /\ "runner" \in Actors /\ act["runner"] \in ActorState /\ Sound(act["runner"])
  BY RunnerState, TypesOfState DEF Inv
<1>2. /\ engine = "none" /\ engine' = "inflight"
      /\ UNCHANGED <<recover, row, exec, late, givenUp, cancels, crashes>>
  BY DEF Submit, Inv, RunnerInv
<1>3. row.status = "none"
  BY <1>2 DEF Inv, RowInv, Knows
<1>4. Onward
  BY <1>2 DEF Onward, Over, GivenUp, Ended
<1>5. PICK s : s = [act["runner"] EXCEPT !.pc = "wait"]
  OBVIOUS
<1>6. s \in ActorState /\ s.pc = "wait" /\ s.job = act["runner"].job
  BY <1>1, <1>5 DEF ActorState, PCs
<1>7. Sound(s)'
  <2>1. Sound(s)
    BY <1>1, <1>6, Plain DEF Sound
  <2>. QED  BY <1>4, <2>1, SoundKept
<1>8. Become("runner", s)
  BY <1>5 DEF Submit, Goto
<1>9. Types'
  BY <1>1, <1>2 DEF Types, Absent
<1>10. RowInv' /\ ExecInv'
  BY <1>2, <1>3, <1>4 DEF Inv, RowInv, ExecInv, Onward, Final
<1>. QED  BY <1>1, <1>2, <1>3, <1>4, <1>6, <1>7, <1>8, <1>9, <1>10, Step

LEMMA SubmitRefusedInv ==
    ASSUME Inv, SubmitRefused
    PROVE  Inv'
<1>1. TypeOK /\ Types /\ "runner" \in Actors /\ act["runner"] \in ActorState /\ Sound(act["runner"])
  BY RunnerState, TypesOfState DEF Inv
<1>2. /\ engine = "inflight" /\ engine' = "lost"
      /\ UNCHANGED <<recover, row, late, givenUp, cancels, crashes>>
  BY DEF SubmitRefused
<1>3. Onward /\ Over'
  BY <1>2 DEF Onward, Over, GivenUp
<1>4. PICK s : s = [act["runner"] EXCEPT !.pc = "done"]
  OBVIOUS
<1>5. s \in ActorState /\ s.pc = "done" /\ s.job = act["runner"].job
  BY <1>1, <1>4 DEF ActorState, PCs
<1>6. Sound(s)'
  BY <1>3, <1>5, PlainNext
<1>7. Become("runner", s)
  BY <1>4 DEF SubmitRefused, Goto
<1>8. exec' \in Exec
  BY <1>1 DEF SubmitRefused, Types, Exec, ExecStatus, ExecFinal
<1>9. Types'
  BY <1>1, <1>2, <1>8 DEF Types, Absent
<1>10. RowInv' /\ ExecInv'
  BY <1>2, <1>3 DEF RowInv, ExecInv, Knows
<1>. QED  BY <1>1, <1>3, <1>5, <1>6, <1>7, <1>9, <1>10, Step

\* The row is created with the outcome that fits what is known of the job.
LEMMA CreatedInv ==
    ASSUME Inv, SubmitReplied \/ recordUnknownSubmitOutcome
    PROVE  Inv'
<1>1. TypeOK /\ Types /\ "runner" \in Actors /\ act["runner"] \in ActorState /\ Sound(act["runner"])
  BY RunnerState, TypesOfState DEF Inv
<1>2. PICK status \in {"pending", "running"}, outcome \in {"known", "unknown"} :
         Created(status, outcome) /\ (engine = "inflight" => outcome = "unknown")
  BY DEF SubmitReplied, recordUnknownSubmitOutcome
<1>3. /\ act["runner"].pc = "wait"
      /\ row' = [NoRow EXCEPT !.status = status, !.outcome = outcome]
      /\ UNCHANGED <<recover, exec, engine, late, givenUp, cancels, crashes>>
  BY <1>2 DEF Created
<1>4. row' \in Row /\ row'.status = status /\ row'.outcome = outcome
  BY <1>2, <1>3, IdleState DEF Row, JobStatus
<1>5. Onward
  BY <1>1, <1>3, Quiet
<1>6. engine # "none"
  BY <1>3 DEF Inv, RunnerInv
<1>7. Knows(row')
  BY <1>2, <1>4, <1>6 DEF Knows
<1>8. PICK r : r = row'
  OBVIOUS
<1>9. Knows(r)'
  BY <1>5, <1>7, <1>8, KnowsKept
<1>10. RowInv' /\ ExecInv' /\ Types'
  BY <1>1, <1>2, <1>3, <1>4, <1>5, <1>8, <1>9 DEF RowInv, ExecInv, Types, Inv, Onward, Final
<1>11. PICK s : s = [act["runner"] EXCEPT !.pc = "save", !.job = r]
  OBVIOUS
<1>12. s \in ActorState /\ s.pc = "save" /\ s.job = r
  BY <1>1, <1>4, <1>8, <1>11 DEF ActorState, PCs
<1>13. Sound(s)'
  BY <1>2, <1>4, <1>8, <1>9, <1>12 DEF Sound, Final
<1>14. Become("runner", s)
  BY <1>2, <1>8, <1>11 DEF Created
<1>. QED  BY <1>1, <1>5, <1>10, <1>12, <1>13, <1>14, Step

LEMMA SaveExecutionIDInv ==
    ASSUME Inv, SaveExecutionID
    PROVE  Inv'
<1>1. TypeOK /\ Types /\ "runner" \in Actors /\ act["runner"] \in ActorState /\ Sound(act["runner"])
  BY RunnerState, TypesOfState DEF Inv
<1>2. PICK job : job = act["runner"].job
  OBVIOUS
<1>3. /\ act["runner"].pc = "save"
      /\ row' = [job EXCEPT !.bound = TRUE]
      /\ UNCHANGED <<recover, exec, engine, late, givenUp, cancels, crashes>>
  BY <1>2 DEF SaveExecutionID
<1>4. job \in Row /\ job.status \in {"pending", "running"} /\ Knows(job)
  BY <1>1, <1>2, <1>3 DEF ActorState, Sound
<1>5. row' \in Row /\ row'.status = job.status /\ row'.outcome = job.outcome
  BY <1>3, <1>4 DEF Row
<1>6. Onward
  BY <1>1, <1>3, Quiet
<1>7. PICK r : r = row'
  OBVIOUS
<1>8. Knows(r)'
  <2>1. Knows(r)
    BY <1>4, <1>5, <1>7 DEF Knows
  <2>. QED  BY <1>6, <2>1, KnowsKept
<1>9. RowInv' /\ ExecInv' /\ Types'
  BY <1>1, <1>3, <1>4, <1>5, <1>6, <1>7, <1>8 DEF RowInv, ExecInv, Types, Inv, Onward, Final
<1>10. PICK s : s = [act["runner"] EXCEPT !.pc = "bind", !.job = r]
  OBVIOUS
<1>11. s \in ActorState /\ s.pc = "bind" /\ s.job = r
  BY <1>1, <1>5, <1>7, <1>10 DEF ActorState, PCs
<1>12. Sound(s)'
  BY <1>4, <1>5, <1>7, <1>11 DEF Sound, Final
<1>13. Become("runner", s)
  BY <1>7, <1>10 DEF SaveExecutionID
<1>. QED  BY <1>1, <1>6, <1>9, <1>11, <1>12, <1>13, Step

LEMMA BindModuleRefInv ==
    ASSUME Inv, BindModuleRef
    PROVE  Inv'
<1>1. TypeOK /\ Types /\ "runner" \in Actors /\ act["runner"] \in ActorState /\ Sound(act["runner"])
  BY RunnerState, TypesOfState DEF Inv
<1>2. PICK status : status = act["runner"].job.status
  OBVIOUS
<1>3. /\ act["runner"].pc = "bind"
      /\ exec' = [Synced(status) EXCEPT !.ref = TRUE]
      /\ UNCHANGED <<recover, row, engine, late, givenUp, cancels, crashes>>
  BY <1>2 DEF BindModuleRef
<1>4. status \in {"pending", "running"}
  BY <1>1, <1>2, <1>3 DEF Sound
<1>5. Synced(status) \in Exec /\ (Synced(status).status \in ExecFinal => exec.status \in ExecFinal)
  <2>1. status \in JobStatus /\ status \notin Final /\ exec \in Exec
    BY <1>1, <1>4 DEF JobStatus, Final, Types
  <2>. QED  BY <2>1, SyncedType
<1>6. exec' \in Exec /\ exec'.status = Synced(status).status
  BY <1>3, <1>5 DEF Exec
<1>7. Onward
  BY <1>1, <1>3, Quiet
<1>8. PICK r : r = row
  OBVIOUS
<1>9. r.status # "none" => Knows(r)'
  BY <1>7, <1>8, KnowsKept DEF Inv, RowInv
<1>10. RowInv' /\ ExecInv' /\ Types'
  BY <1>1, <1>3, <1>5, <1>6, <1>7, <1>8, <1>9 DEF RowInv, ExecInv, Types, Inv, Onward
<1>11. PICK s : s = [Idle EXCEPT !.pc = "done"]
  OBVIOUS
<1>12. s \in ActorState /\ s.pc = "done" /\ s.job.status = "none"
  BY <1>11, IdleState DEF ActorState, PCs
<1>13. Sound(s)'
  BY <1>12, PlainNext DEF Final
<1>14. Become("runner", s)
  BY <1>11 DEF BindModuleRef
<1>. QED  BY <1>1, <1>7, <1>10, <1>12, <1>13, <1>14, Step

-----------------------------------------------------------------------------
(* Observers.                                                              *)

LEMMA ReconcilerState ==
    ASSUME Inv
    PROVE  /\ "reconciler" \in Actors \ {"runner"}
           /\ act["reconciler"] \in ActorState
           /\ act["reconciler"].job \in Row /\ act["reconciler"].job.status \in JobStatus
           /\ Sound(act["reconciler"])
<1>1. "reconciler" \in Actors \ {"runner"}
  BY DEF Actors
<1>2. act["reconciler"] \in ActorState /\ Sound(act["reconciler"])
  BY <1>1, ActType DEF Inv
<1>. QED  BY <1>1, <1>2 DEF ActorState, Row

\* The row after an answer: its status follows the copy, the rest the row.
LEMMA AppliedRow ==
    ASSUME TypeOK, NEW job \in Row, NEW raw \in Raws
    PROVE  /\ Applied(job, raw) \in Row
           /\ Applied(job, raw).status = ObservedStatus(job.status, raw)
           /\ Applied(job, raw).outcome = IF job.outcome = "unknown" THEN "known" ELSE row.outcome
<1>1. PICK status : status = ObservedStatus(job.status, raw)
  OBVIOUS
<1>2. status \in JobStatus
  BY <1>1, Observed DEF Row
<1>3. PICK outcome : outcome = IF job.outcome = "unknown" THEN "known" ELSE row.outcome
  OBVIOUS
<1>4. row \in Row /\ outcome \in {"known", "unknown", "expired"}
  BY <1>3 DEF TypeOK, Row
<1>5. Applied(job, raw) = [row EXCEPT !.status = status, !.sp = (raw = "DOING_SAVEPOINT"), !.outcome = outcome]
  BY <1>1, <1>3, <1>4 DEF Applied, Row
<1>. QED  BY <1>1, <1>2, <1>3, <1>4, <1>5 DEF Row

\* An update from the reconciler's copy, once the answer may be believed.
LEMMA UpdateInv ==
    ASSUME Inv, NEW raw \in Raws, Update(act["reconciler"].job, raw),
           act["reconciler"].job.status # "none",
           engine = "inflight" => Over,
           raw = "" \/ isFinalEngineJobStatus(raw) => Over,
           UNCHANGED <<recover, exec, engine, late, givenUp, cancels, crashes>>
    PROVE  Inv'
<1>1. /\ "reconciler" \in Actors \ {"runner"} /\ Sound(act["reconciler"])
      /\ act["reconciler"].job \in Row /\ act["reconciler"].job.status \in JobStatus
  BY ReconcilerState
<1>2. PICK job : job = act["reconciler"].job
  OBVIOUS
<1>3. PICK new : new = Applied(job, raw)
  OBVIOUS
<1>4. /\ new \in Row /\ new.status = ObservedStatus(job.status, raw)
      /\ new.status \in Final => Over
  <2>1. new \in Row /\ new.status = ObservedStatus(job.status, raw)
    BY <1>1, <1>2, <1>3, AppliedRow DEF Inv
  <2>2. job.status \in Final => Over
    BY <1>1, <1>2 DEF Sound
  <2>3. job.status \in JobStatus
    BY <1>1, <1>2
  <2>4. new.status \in Final => job.status \in Final \/ raw = "" \/ isFinalEngineJobStatus(raw)
    <3>1. PICK old \in JobStatus : old = job.status
      BY <2>3
    <3>2. ObservedStatus(old, raw) \in Final => old \in Final \/ raw = "" \/ isFinalEngineJobStatus(raw)
      BY Observed
    <3>. QED  BY <2>1, <3>1, <3>2
  <2>. QED  BY <2>1, <2>2, <2>4
<1>5. TypeOK /\ cancels' \in 0 .. MaxCancels /\ givenUp' \in BOOLEAN
  BY DEF Inv, TypeOK
<1>6. Onward
  BY <1>5, Quiet
<1>7. \/ UNCHANGED row
      \/ row.status = job.status /\ row' = new
  BY <1>2, <1>3 DEF Update, UpdateJobStatus
<1>8. \/ UNCHANGED row
      \/ /\ row' \in Row /\ row.status # "none"
         /\ engine = "inflight" => row'.outcome = row.outcome \/ Over'
         /\ row'.status \in Final => Over'
  BY <1>2, <1>4, <1>6, <1>7 DEF Onward
<1>9. PICK copy : copy = [new EXCEPT !.bound = job.bound]
  OBVIOUS
<1>10. copy.status = new.status /\ copy.status \in JobStatus
  BY <1>4, <1>9 DEF Row
<1>11. PICK s : s = IF row.status # job.status THEN Idle ELSE Sync("reconciler", copy, "plain")
  OBVIOUS
<1>12. s \in ActorState /\ Sound(s)
  <2>1. CASE s = Idle
    BY <2>1, IdleState
  <2>2. CASE s = Sync("reconciler", copy, "plain")
    <3>1. /\ s \in ActorState /\ s.pc \in {"idle", "finish", "get"}
          /\ s.job.status \in {"none", copy.status}
      BY <1>10, <2>2, SyncState
    <3>. QED  BY <1>4, <1>10, <3>1 DEF Sound, Final
  <2>. QED  BY <1>11, <2>1, <2>2
<1>13. Become("reconciler", s)
  BY <1>2, <1>3, <1>9, <1>11, Zenon DEF Update
<1>14. Sound(s)'
  BY <1>6, <1>12, SoundKept
<1>. QED  BY <1>1, <1>5, <1>8, <1>12, <1>13, <1>14, RowStep

LEMMA LoadJobInv ==
    ASSUME Inv, LoadJob
    PROVE  Inv'
<1>1. "reconciler" \in Actors \ {"runner"} /\ row \in Row /\ row.status \notin Final \cup {"none"}
  BY ReconcilerState DEF LoadJob, Inv, TypeOK
<1>2. PICK s : s = [Idle EXCEPT !.pc = "query", !.job = row]
  OBVIOUS
<1>3. s \in ActorState /\ s.pc = "query" /\ s.job = row
  BY <1>1, <1>2, IdleState DEF ActorState, PCs
<1>4. Sound(s)
  BY <1>1, <1>3 DEF Sound, Inv, RowInv
<1>5. /\ Become("reconciler", s)
      /\ UNCHANGED <<recover, row, exec, engine, late, givenUp, cancels, crashes>>
  BY <1>2 DEF LoadJob
<1>6. cancels' \in 0 .. MaxCancels /\ exec' \in Exec
  BY <1>5 DEF Inv, TypeOK
<1>. QED  BY <1>1, <1>3, <1>4, <1>5, <1>6, ExecStep

\* Somebody of no consequence for the rows goes idle.
LEMMA GoesIdle ==
    ASSUME Inv, NEW a \in Actors \ {"runner"}, Become(a, Idle),
           UNCHANGED <<recover, row, exec, engine, late, givenUp, cancels, crashes>>
    PROVE  Inv'
<1>1. cancels' \in 0 .. MaxCancels /\ exec' \in Exec
  BY DEF Inv, TypeOK
<1>. QED  BY <1>1, IdleState, ExecStep

LEMMA GetJobInfoFailsInv ==
    ASSUME Inv, GetJobInfoFails
    PROVE  Inv'
BY GoesIdle, ReconcilerState DEF GetJobInfoFails

LEMMA ReconcileJobInv ==
    ASSUME Inv, ReconcileJob
    PROVE  Inv'
<1>1. PICK job : job = act["reconciler"].job
  OBVIOUS
<1>2. act["reconciler"].pc = "query" /\ UNCHANGED <<recover, exec, engine, late, givenUp, cancels, crashes>>
  BY DEF ReconcileJob
<1>3. PICK raw \in Answers :
         /\ ~Expires(job, raw)
         /\ IF Waits(job, raw) THEN UNCHANGED row /\ Become("reconciler", Idle)
            ELSE Update(job, IF raw = "" THEN "FAILED" ELSE raw)
  BY <1>1, Zenon DEF ReconcileJob
<1>4. /\ "reconciler" \in Actors \ {"runner"}
      /\ Knows(job) /\ job.status # "none" /\ TypeOK
  BY <1>1, <1>2, ReconcilerState DEF Sound, Inv
<1>5. CASE Waits(job, raw)
  BY <1>2, <1>3, <1>4, <1>5, GoesIdle
<1>6. CASE ~Waits(job, raw)
  <2>1. raw = "" \/ isFinalEngineJobStatus(raw) => Over
    BY <1>4, <1>6, AnsweredOver
  <2>2. engine = "inflight" => Over
    BY <2>1, <1>3 DEF Answers, isFinalEngineJobStatus
  <2>3. PICK seen : seen = IF raw = "" THEN "FAILED" ELSE raw
    OBVIOUS
  <2>4. seen \in Raws /\ (seen = "" \/ isFinalEngineJobStatus(seen) => Over)
    <3>1. raw \in Raws
      BY <1>4, AnswersType
    <3>. QED  BY <2>1, <2>3, <3>1 DEF Raws
  <2>5. Update(job, seen)
    BY <1>3, <1>6, <2>3
  <2>. QED  BY <1>1, <1>2, <1>4, <2>2, <2>4, <2>5, UpdateInv
<1>. QED  BY <1>5, <1>6

LEMMA markExpiredInv ==
    ASSUME Inv, markExpired
    PROVE  Inv'
<1>1. /\ "reconciler" \in Actors \ {"runner"}
      /\ act["reconciler"] \in ActorState /\ Sound(act["reconciler"])
      /\ TypeOK /\ row \in Row
  BY ReconcilerState DEF Inv, TypeOK
<1>2. /\ act["reconciler"].pc = "query"
      /\ row' = [row EXCEPT !.outcome = "expired"]
      /\ givenUp' = TRUE
      /\ UNCHANGED <<recover, exec, engine, late, cancels, crashes>>
  BY DEF markExpired
<1>3. Onward /\ Over'
  BY <1>1, <1>2, Quiet DEF Over, GivenUp
<1>4. row' \in Row /\ row'.status = row.status
  BY <1>1, <1>2 DEF Row
<1>5. PICK s : s = [act["reconciler"] EXCEPT !.pc = "expire", !.job.outcome = "expired"]
  OBVIOUS
<1>6. s \in ActorState /\ s.pc = "expire" /\ s.job.status = act["reconciler"].job.status
  BY <1>1, <1>5 DEF ActorState, PCs, Row
<1>7. Sound(s)'
  BY <1>1, <1>2, <1>3, <1>6 DEF Sound
<1>8. Become("reconciler", s)
  BY <1>5 DEF markExpired
<1>9. Types'
  BY <1>1, <1>2, <1>4, TypesOfState DEF Types
<1>10. row.status = "none" => row'.status = "none"
  BY <1>4
<1>11. RowInv' /\ ExecInv'
  <2>1. row'.status # "none" => Knows(row)'
    BY <1>2, <1>3, <1>4 DEF Inv, RowInv, Knows, GivenUp
  <2>. QED  BY <1>3, <2>1 DEF RowInv, ExecInv
<1>. QED  BY <1>1, <1>2, <1>3, <1>6, <1>7, <1>8, <1>9, <1>10, <1>11, Step

LEMMA expireUnknownSubmitInv ==
    ASSUME Inv, expireUnknownSubmit
    PROVE  Inv'
<1>1. /\ act["reconciler"].pc = "expire" /\ Update(act["reconciler"].job, "FAILED")
      /\ UNCHANGED <<recover, exec, engine, late, givenUp, cancels, crashes>>
  BY DEF expireUnknownSubmit
<1>2. Over /\ act["reconciler"].job.status # "none"
  BY <1>1, ReconcilerState DEF Sound, Over, GivenUp
<1>3. "FAILED" \in Raws
  BY DEF Raws
<1>. QED  BY <1>1, <1>2, <1>3, UpdateInv

LEMMA RefreshJobInv ==
    ASSUME Inv, RefreshJob
    PROVE  Inv'
<1>1. /\ row.status # "none"
      /\ UNCHANGED <<recover, engine, late, act, givenUp, cancels, crashes>>
  BY DEF RefreshJob
<1>2. PICK raw \in Answers :
         /\ ~Waits(row, raw)
         /\ row' = Applied(row, raw)
         /\ exec' = IF row.bound THEN Synced(row'.status) ELSE exec
  BY DEF RefreshJob
<1>3. TypeOK /\ Types /\ row \in Row /\ row.status \in JobStatus /\ exec \in Exec
  BY TypesOfState DEF Inv, Types, Row
<1>4. Knows(row)
  BY <1>1 DEF Inv, RowInv
<1>5. raw = "" \/ isFinalEngineJobStatus(raw) => Over
  BY <1>2, <1>3, <1>4, AnsweredOver
<1>6. raw \in Raws
  BY <1>3, AnswersType
<1>7. row' \in Row /\ row'.status = ObservedStatus(row.status, raw)
  BY <1>2, <1>3, <1>6, AppliedRow
<1>8. row'.status \in JobStatus /\ (row'.status \in Final => Over)
  BY <1>3, <1>5, <1>6, <1>7, Observed DEF Inv, RowInv
<1>9. Onward
  BY <1>1, <1>3, Quiet
<1>10. exec' \in Exec /\ (exec'.status \in ExecFinal => exec.status \in ExecFinal \/ row'.status \in Final)
  BY <1>2, <1>3, <1>8, SyncedType
<1>11. engine = "inflight" => Over
  BY <1>2, <1>5 DEF Answers, isFinalEngineJobStatus
<1>12. RowInv'
  <2>1. engine' # "none" /\ (engine' = "inflight" => GivenUp')
    BY <1>1, <1>4, <1>9, <1>11 DEF Knows, Over, Ended, Onward
  <2>. QED  BY <1>8, <1>9, <2>1 DEF RowInv, Knows, Onward
<1>13. ExecInv'
  BY <1>8, <1>9, <1>10 DEF ExecInv, Inv, Onward
<1>14. TypeOK'
  BY <1>1, <1>3, <1>7, <1>10 DEF TypeOK
<1>15. RunnerInv'
  BY <1>1 DEF RunnerInv, Inv
<1>16. ASSUME NEW b \in Actors
       PROVE  Sound(act[b])'
  <2>1. PICK t : t = act[b]
    OBVIOUS
  <2>2. Sound(t)'
    BY <1>9, <2>1, SoundKept DEF Inv
  <2>. QED  BY <1>1, <2>1, <2>2
<1>. QED  BY <1>12, <1>13, <1>14, <1>15, <1>16 DEF Inv

-----------------------------------------------------------------------------
(* Cancellers.                                                             *)

LEMMA CancellerState ==
    ASSUME Inv, NEW c \in Cancellers
    PROVE  /\ c \in Actors \ {"runner"}
           /\ act[c] \in ActorState /\ Sound(act[c])
           /\ act[c].job \in Row /\ act[c].job.status \in JobStatus
           /\ row \in Row /\ row.status \in JobStatus /\ exec \in Exec
           /\ cancels \in 0 .. MaxCancels
<1>1. c \in Actors \ {"runner"}
  BY CancellersAssumption DEF Actors
<1>2. act[c] \in ActorState /\ Sound(act[c])
  BY <1>1, ActType DEF Inv
<1>. QED  BY <1>1, <1>2 DEF ActorState, Row, Inv, TypeOK

\* The row is written with a status that is not final, or its copy's.
LEMMA StopByJobInv ==
    ASSUME Inv, NEW c \in Cancellers, StopByJob(c)
    PROVE  Inv'
<1>1. c \in Actors \ {"runner"} /\ exec \in Exec /\ cancels \in 0 .. MaxCancels
  BY CancellerState
<1>2. /\ cancels < MaxCancels /\ cancels' = cancels + 1
      /\ UNCHANGED <<recover, row, exec, engine, late, givenUp, crashes>>
  BY DEF StopByJob
<1>3. PICK how \in {"plain", "savepoint"} : CancelJob(c, how)
  BY DEF StopByJob
<1>4. PICK s \in ActorState : Become(c, s) /\ Sound(s)
  BY <1>1, <1>3, CancelJobState
<1>5. cancels' \in 0 .. MaxCancels
  BY <1>1, <1>2, BoundsAssumption
<1>. QED  BY <1>1, <1>2, <1>4, <1>5, ExecStep

LEMMA StopByExecutionInv ==
    ASSUME Inv, NEW c \in Cancellers, StopByExecution(c)
    PROVE  Inv'
<1>1. c \in Actors \ {"runner"} /\ exec \in Exec /\ cancels \in 0 .. MaxCancels
  BY CancellerState
<1>2. /\ cancels < MaxCancels /\ cancels' = cancels + 1
      /\ exec.status \in {"pending", "running"}
      /\ UNCHANGED <<recover, row, exec, engine, late, givenUp, crashes>>
  BY DEF StopByExecution
<1>3. PICK s : s = [Idle EXCEPT !.pc = "claim", !.how = "execution", !.item = exec]
  OBVIOUS
<1>4. s \in ActorState /\ s.pc = "claim" /\ s.item = exec /\ s.job.status = "none"
  BY <1>1, <1>3, IdleState DEF ActorState, PCs
<1>5. Sound(s)
  BY <1>2, <1>4 DEF Sound, Final, ExecFinal
<1>6. Become(c, s)
  BY <1>3 DEF StopByExecution
<1>7. cancels' \in 0 .. MaxCancels
  BY <1>1, <1>2, BoundsAssumption
<1>. QED  BY <1>1, <1>2, <1>4, <1>5, <1>6, <1>7, ExecStep

LEMMA ClaimCancelInv ==
    ASSUME Inv, NEW c \in Cancellers, ClaimCancel(c)
    PROVE  Inv'
<1>1. c \in Actors \ {"runner"} /\ act[c] \in ActorState /\ exec \in Exec
  BY CancellerState
<1>2. UNCHANGED <<recover, row, engine, late, givenUp, cancels, crashes>>
  BY DEF ClaimCancel
<1>3. cancels' \in 0 .. MaxCancels
  BY <1>2, CancellerState
<1>4. CASE exec.status = act[c].item.status
  <2>1. PICK s : s = [Idle EXCEPT !.pc = "ask", !.how = "execution", !.item.ref = act[c].item.ref]
    OBVIOUS
  <2>2. s \in ActorState /\ s.pc = "ask" /\ s.job.status = "none"
    BY <1>1, <2>1, IdleState DEF ActorState, PCs, Exec
  <2>3. Sound(s)
    BY <2>2, Plain DEF Final
  <2>4. Become(c, s) /\ exec' = [exec EXCEPT !.status = "cancel_requested"]
    BY <1>4, <2>1 DEF ClaimCancel
  <2>5. exec' \in Exec /\ exec'.status \notin ExecFinal
    BY <1>1, <2>4 DEF Exec, ExecStatus, ExecFinal
  <2>. QED  BY <1>1, <1>2, <1>3, <2>2, <2>3, <2>4, <2>5, ExecStep
<1>5. CASE exec.status # act[c].item.status
  BY <1>1, <1>2, <1>5, GoesIdle DEF ClaimCancel
<1>. QED  BY <1>4, <1>5

LEMMA AskModuleInv ==
    ASSUME Inv, NEW c \in Cancellers, AskModule(c)
    PROVE  Inv'
<1>1. /\ c \in Actors \ {"runner"} /\ exec \in Exec /\ cancels \in 0 .. MaxCancels
      /\ UNCHANGED <<recover, row, exec, engine, late, givenUp, cancels, crashes>>
  BY CancellerState DEF AskModule
<1>2. PICK s \in ActorState : Become(c, s) /\ Sound(s)
  BY <1>1, IdleState, CancelJobState DEF AskModule
<1>. QED  BY <1>1, <1>2, ExecStep

LEMMA RequestCancelInv ==
    ASSUME Inv, NEW c \in Cancellers, RequestCancel(c)
    PROVE  Inv'
<1>1. /\ c \in Actors \ {"runner"} /\ act[c] \in ActorState /\ Sound(act[c])
      /\ act[c].job \in Row /\ act[c].job.status \in JobStatus
      /\ row \in Row /\ row.status \in JobStatus /\ cancels \in 0 .. MaxCancels
  BY CancellerState
<1>2. /\ act[c].pc = "request"
      /\ UNCHANGED <<recover, exec, engine, late, givenUp, cancels, crashes>>
      /\ givenUp' \in BOOLEAN
  BY DEF RequestCancel, Inv, TypeOK
<1>3. CASE row.status \in {"pending", "running"}
  <2>1. row' = [row EXCEPT !.status = "cancel_requested", !.sp = act[c].job.sp]
    BY <1>3 DEF RequestCancel, UpdateJobStatus
  <2>2. row' \in Row /\ row'.status \notin Final /\ row'.outcome = row.outcome
    BY <1>1, <2>1 DEF Row, JobStatus, Cancelling, Final
  <2>3. act[c].job.status \in {"none", "pending", "running"}
    BY <1>1, <1>2 DEF Sound, JobStatus
  <2>4. PICK s : s = [Idle EXCEPT !.pc = "stop", !.how = act[c].how, !.job.bound = act[c].job.bound,
                                  !.prev = act[c].job.status]
    OBVIOUS
  <2>5. s \in ActorState /\ s.pc = "stop" /\ s.job.status = "none"
    <3>1. act[c].job.bound \in BOOLEAN /\ act[c].how \in {"plain", "savepoint", "execution"}
      BY <1>1 DEF ActorState, Row
    <3>2. [NoRow EXCEPT !.bound = act[c].job.bound] \in Row
          /\ [NoRow EXCEPT !.bound = act[c].job.bound].status = "none"
      BY <3>1, IdleState DEF Row
    <3>3. s = [pc |-> "stop", job |-> [NoRow EXCEPT !.bound = act[c].job.bound], item |-> NewExec,
               how |-> act[c].how, prev |-> act[c].job.status]
      BY <2>4 DEF Idle
    <3>. QED  BY <2>3, <3>1, <3>2, <3>3, IdleState DEF ActorState, PCs
  <2>6. Sound(s)'
    BY <2>5, PlainNext DEF Final
  <2>7. Become(c, s)
    BY <1>3, <2>4 DEF RequestCancel
  <2>. QED  BY <1>1, <1>2, <1>3, <2>2, <2>5, <2>6, <2>7, RowStep
<1>4. CASE row.status \notin {"pending", "running"}
  <2>1. UNCHANGED row /\ Become(c, Returned(c, TRUE, row))
    BY <1>4 DEF RequestCancel, UpdateJobStatus
  <2>2. Returned(c, TRUE, row) \in ActorState /\ Sound(Returned(c, TRUE, row))
    BY <1>1, ReturnedSound DEF Inv, RowInv
  <2>3. exec \in Exec
    BY CancellerState
  <2>. QED  BY <1>1, <1>2, <2>1, <2>2, <2>3, ExecStep
<1>. QED  BY <1>3, <1>4

\* Where the job in the engine goes: never back to the submit, and it does not
\* leave an end.
EngineMoves ==
    /\ engine' \in Alive \cup Ended \cup Absent
    /\ engine' = "none" <=> engine = "none"
    /\ engine' = "inflight" => engine = "inflight"
    /\ engine \in Ended \cup {"lost", "gone"} => engine' \in Ended \cup {"lost", "gone"}

LEMMA StopsMoves ==
    ASSUME TypeOK, NEW how, Stops(how) \/ UNCHANGED engine
    PROVE  EngineMoves
<1>1. CASE UNCHANGED engine
  BY <1>1 DEF EngineMoves, TypeOK
<1>2. CASE Stops(how)
  <2>1. \/ engine \in {"running", "savepointing"} /\ engine' \in {"savepointing", "canceling"}
        \/ UNCHANGED engine
    BY <1>2 DEF Stops
  <2>. QED  BY <2>1 DEF EngineMoves, TypeOK, Alive, Ended, Absent
<1>. QED  BY <1>1, <1>2

LEMMA EngineOnward ==
    ASSUME EngineMoves, UNCHANGED <<recover, late, givenUp>>
    PROVE  Onward
BY DEF EngineMoves, Onward, Over, GivenUp

\* The rows and their copies stay true when the engine moves on.
LEMMA RowKept ==
    ASSUME Inv, Onward, UNCHANGED <<row, exec>>
    PROVE  RowInv' /\ ExecInv'
<1>1. PICK r : r = row
  OBVIOUS
<1>2. r.status # "none" => Knows(r)'
  BY <1>1, KnowsKept DEF Inv, RowInv
<1>. QED  BY <1>1, <1>2 DEF Inv, RowInv, ExecInv, Onward

\* A canceller asks the engine and goes on.
LEMMA EngineStepBy ==
    ASSUME Inv, NEW c \in Cancellers, NEW pc \in {"mark", "restore", "close"}, Goto(c, pc),
           EngineMoves, UNCHANGED <<recover, row, exec, late, givenUp, cancels, crashes>>
    PROVE  Inv'
<1>1. Onward
  BY EngineOnward
<1>2. RowInv' /\ ExecInv'
  BY <1>1, RowKept
<1>3. c \in Actors \ {"runner"} /\ act[c] \in ActorState /\ Sound(act[c])
  BY CancellerState
<1>4. PICK s : s = [act[c] EXCEPT !.pc = pc]
  OBVIOUS
<1>5. s \in ActorState /\ s.pc = pc /\ s.job = act[c].job
  BY <1>3, <1>4 DEF ActorState, PCs
<1>6. Sound(s)
  BY <1>3, <1>5, Plain DEF Sound
<1>7. Sound(s)'
  BY <1>1, <1>6, SoundKept
<1>8. Become(c, s)
  BY <1>4 DEF Goto
<1>9. Types'
  BY TypesOfState DEF Inv, Types, EngineMoves
<1>10. engine = "none" => engine' = "none"
  BY DEF EngineMoves
<1>11. row.status = "none" => row'.status = "none"
  OBVIOUS
<1>. QED  BY <1>1, <1>2, <1>3, <1>5, <1>7, <1>8, <1>9, <1>10, <1>11, Step

LEMMA StopJobInv ==
    ASSUME Inv, NEW c \in Cancellers, StopJob(c)
    PROVE  Inv'
<1>1. PICK pc \in {"mark", "restore"} : Goto(c, pc) /\ (Stops(act[c].how) \/ UNCHANGED engine)
  BY DEF StopJob
<1>2. UNCHANGED <<recover, row, exec, late, givenUp, cancels, crashes>>
  BY DEF StopJob
<1>3. EngineMoves
  BY <1>1, StopsMoves DEF Inv
<1>. QED  BY <1>1, <1>2, <1>3, EngineStepBy

LEMMA ForceStopInv ==
    ASSUME Inv, NEW c \in Cancellers, ForceStop(c)
    PROVE  Inv'
<1>1. /\ Stops("plain") \/ UNCHANGED engine
      /\ Goto(c, "close")
      /\ UNCHANGED <<recover, row, exec, late, givenUp, cancels, crashes>>
  BY DEF ForceStop
<1>2. EngineMoves
  BY <1>1, StopsMoves DEF Inv
<1>. QED  BY <1>1, <1>2, EngineStepBy

LEMMA RestoreInv ==
    ASSUME Inv, NEW c \in Cancellers, Restore(c)
    PROVE  Inv'
<1>1. /\ c \in Actors \ {"runner"} /\ act[c] \in ActorState /\ act[c].job \in Row
      /\ row \in Row /\ cancels \in 0 .. MaxCancels
  BY CancellerState
<1>2. PICK job : job = [act[c].job EXCEPT !.status = act[c].prev]
  OBVIOUS
<1>3. job \in Row /\ job.status \in {"none", "pending", "running"}
  BY <1>1, <1>2 DEF ActorState, Row, JobStatus
<1>4. /\ UpdateJobStatus({"cancel_requested"}, [row EXCEPT !.status = job.status])
      /\ Become(c, IF job.bound THEN Sync(c, job, "plain") ELSE Idle)
  BY <1>2, Zenon DEF Restore
<1>5. /\ UNCHANGED <<recover, exec, engine, late, givenUp, cancels, crashes>>
      /\ givenUp' \in BOOLEAN
  BY DEF Restore, Inv, TypeOK
<1>6. \/ UNCHANGED row
      \/ /\ row' \in Row /\ row.status # "none"
         /\ row'.outcome = row.outcome /\ row'.status \notin Final
  BY <1>1, <1>3, <1>4 DEF UpdateJobStatus, Row, JobStatus, Final
<1>7. PICK s : s = IF job.bound THEN Sync(c, job, "plain") ELSE Idle
  OBVIOUS
<1>8. s \in ActorState /\ Sound(s)'
  <2>1. CASE s = Idle
    BY <2>1, IdleState, PlainNext DEF Final
  <2>2. CASE s = Sync(c, job, "plain")
    <3>1. /\ s \in ActorState /\ s.pc \in {"idle", "finish", "get"}
          /\ s.job.status \in {"none", job.status}
      BY <1>3, <2>2, SyncState DEF Row
    <3>. QED  BY <1>3, <3>1, PlainNext DEF Final
  <2>. QED  BY <1>7, <2>1, <2>2
<1>9. Become(c, s)
  BY <1>4, <1>7
<1>. QED  BY <1>1, <1>5, <1>6, <1>8, <1>9, RowStep

LEMMA MarkCancellingInv ==
    ASSUME Inv, NEW c \in Cancellers, MarkCancelling(c)
    PROVE  Inv'
<1>1. /\ c \in Actors \ {"runner"} /\ act[c] \in ActorState /\ act[c].job \in Row
      /\ row \in Row /\ row.status \in JobStatus /\ exec \in Exec /\ cancels \in 0 .. MaxCancels
  BY CancellerState
<1>2. PICK job : job = [act[c].job EXCEPT !.status = "cancelling", !.sp = (act[c].how = "savepoint")]
  OBVIOUS
<1>3. job \in Row /\ job.status = "cancelling"
  BY <1>1, <1>2 DEF Row, JobStatus, Cancelling
<1>4. /\ UpdateJobStatus({"cancel_requested"}, [row EXCEPT !.status = job.status, !.sp = job.sp])
      /\ IF row.status = "cancel_requested" THEN Become(c, Sync(c, job, Through(c)))
         ELSE Become(c, Returned(c, TRUE, row))
  BY <1>2, Zenon DEF MarkCancelling
<1>5. /\ UNCHANGED <<recover, exec, engine, late, givenUp, cancels, crashes>>
      /\ givenUp' \in BOOLEAN
  BY DEF MarkCancelling, Inv, TypeOK
<1>6. CASE row.status = "cancel_requested"
  <2>1. row' = [row EXCEPT !.status = job.status, !.sp = job.sp]
    BY <1>4, <1>6 DEF UpdateJobStatus
  <2>2. row' \in Row /\ row'.outcome = row.outcome /\ row'.status \notin Final
    BY <1>1, <1>3, <2>1 DEF Row, Final
  <2>3. PICK s : s = Sync(c, job, Through(c))
    OBVIOUS
  <2>4. s \in ActorState /\ Sound(s)'
    <3>1. /\ s \in ActorState /\ s.pc \in {"idle", "finish", "get"}
          /\ s.job.status \in {"none", job.status}
      BY <1>3, <2>3, SyncState DEF Row, Through
    <3>. QED  BY <1>3, <3>1, PlainNext DEF Final
  <2>5. Become(c, s)
    BY <1>4, <1>6, <2>3
  <2>. QED  BY <1>1, <1>5, <1>6, <2>2, <2>4, <2>5, RowStep
<1>7. CASE row.status # "cancel_requested"
  <2>1. UNCHANGED row /\ Become(c, Returned(c, TRUE, row))
    BY <1>4, <1>7 DEF UpdateJobStatus
  <2>2. Returned(c, TRUE, row) \in ActorState /\ Sound(Returned(c, TRUE, row))
    BY <1>1, ReturnedSound DEF Inv, RowInv
  <2>. QED  BY <1>1, <1>5, <2>1, <2>2, ExecStep
<1>. QED  BY <1>6, <1>7

LEMMA ForceCloseInv ==
    ASSUME Inv, NEW c \in Cancellers, ForceClose(c)
    PROVE  Inv'
<1>1. /\ c \in Actors \ {"runner"} /\ act[c] \in ActorState /\ act[c].job \in Row
      /\ row \in Row /\ cancels \in 0 .. MaxCancels
  BY CancellerState
<1>2. PICK job : job = [act[c].job EXCEPT !.status = "canceled", !.sp = FALSE]
  OBVIOUS
<1>3. job \in Row /\ job.status = "canceled"
  BY <1>1, <1>2 DEF Row, JobStatus, Final
<1>4. /\ UpdateJobStatus(Cancelling, [row EXCEPT !.status = job.status, !.sp = job.sp])
      /\ Become(c, Sync(c, job, Through(c)))
  BY <1>2, Zenon DEF ForceClose
<1>5. UNCHANGED <<recover, exec, engine, late, cancels, crashes>> /\ givenUp'
  BY DEF ForceClose
<1>6. Over'
  BY <1>5 DEF Over, GivenUp
<1>7. \/ UNCHANGED row
      \/ /\ row' \in Row /\ row.status # "none" /\ row'.outcome = row.outcome
  BY <1>1, <1>3, <1>4 DEF UpdateJobStatus, Row, Cancelling
<1>8. PICK s : s = Sync(c, job, Through(c))
  OBVIOUS
<1>9. s \in ActorState /\ Sound(s)'
  <2>1. s \in ActorState /\ s.pc \in {"idle", "finish", "get"}
    BY <1>3, <1>8, SyncState DEF Row, Through
  <2>. QED  BY <1>6, <2>1, PlainNext
<1>10. Become(c, s)
  BY <1>4, <1>8
<1>11. givenUp' \in BOOLEAN
  BY DEF ForceClose
<1>. QED  BY <1>1, <1>5, <1>6, <1>7, <1>9, <1>10, <1>11, RowStep

LEMMA FinishCancelInv ==
    ASSUME Inv, NEW c \in Cancellers, FinishCancel(c)
    PROVE  Inv'
<1>1. /\ c \in Actors \ {"runner"} /\ Sound(act[c]) /\ act[c].job.status \in JobStatus
      /\ exec \in Exec /\ cancels \in 0 .. MaxCancels
  BY CancellerState
<1>2. PICK status, final : /\ status = executionStatusFromJob(act[c].job.status)
                           /\ final = (act[c].job.status \notin Final)
  OBVIOUS
<1>3. /\ status \in ExecStatus /\ final \in BOOLEAN
      /\ status \in ExecFinal => Over
  BY <1>1, <1>2 DEF executionStatusFromJob, ExecStatus, ExecFinal, JobStatus, Final, Cancelling, Sound
<1>4. \/ exec' = [exec EXCEPT !.status = status, !.cancellable = final]
      \/ UNCHANGED exec
  BY <1>2, Zenon DEF FinishCancel
<1>5. exec' \in Exec /\ (exec'.status \in ExecFinal => exec.status \in ExecFinal \/ Over)
  BY <1>1, <1>3, <1>4 DEF Exec
<1>6. Become(c, Idle) /\ UNCHANGED <<recover, row, engine, late, givenUp, cancels, crashes>>
  BY DEF FinishCancel
<1>. QED  BY <1>1, <1>5, <1>6, IdleState, ExecStep

-----------------------------------------------------------------------------
(* The engine, the deadline and the crash.                                 *)

\* What nobody's turn it is leaves every actor where it was.
LEMMA Outside ==
    ASSUME Inv, Onward, UNCHANGED <<row, exec, act>>, Types',
           engine = "none" => engine' = "none"
    PROVE  Inv'
<1>1. RowInv' /\ ExecInv'
  BY RowKept
<1>2. RunnerInv'
  BY DEF RunnerInv, Inv, Onward
<1>3. ASSUME NEW b \in Actors
      PROVE  Sound(act[b])'
  <2>1. PICK t : t = act[b]
    OBVIOUS
  <2>2. Sound(t)'
    BY <2>1, SoundKept DEF Inv
  <2>. QED  BY <2>1, <2>2
<1>4. TypeOK'
  BY DEF Inv, TypeOK, Types
<1>. QED  BY <1>1, <1>2, <1>3, <1>4 DEF Inv

LEMMA EngineStepInv ==
    ASSUME Inv, EngineStep
    PROVE  Inv'
<1>1. EngineMoves
  BY DEF EngineStep, EngineMoves, Alive, Ended, Absent
<1>2. UNCHANGED <<recover, row, exec, late, act, givenUp, cancels, crashes>>
  BY DEF EngineStep
<1>3. Onward
  BY <1>1, <1>2, EngineOnward
<1>4. Types'
  BY <1>1, <1>2, TypesOfState DEF Inv, Types, EngineMoves
<1>5. engine = "none" => engine' = "none"
  BY <1>1 DEF EngineMoves
<1>. QED  BY <1>2, <1>3, <1>4, <1>5, Outside

LEMMA DeadlinePassesInv ==
    ASSUME Inv, DeadlinePasses
    PROVE  Inv'
<1>1. late' /\ late' \in BOOLEAN /\ UNCHANGED <<recover, row, exec, engine, act, givenUp, cancels, crashes>>
  BY DEF DeadlinePasses
<1>2. Onward
  BY <1>1 DEF Onward, Over, GivenUp
<1>3. Types'
  BY <1>1, TypesOfState DEF Inv, Types
<1>. QED  BY <1>1, <1>2, <1>3, Outside

LEMMA CrashInv ==
    ASSUME Inv, Crash
    PROVE  Inv'
<1>1. /\ crashes < MaxCrashes /\ crashes' = crashes + 1
      /\ act' = [a \in Actors |-> IF a = "runner" THEN [Idle EXCEPT !.pc = "done"] ELSE Idle]
      /\ UNCHANGED <<recover, row, exec, engine, late, givenUp, cancels>>
  BY DEF Crash
<1>2. PICK s : s = [Idle EXCEPT !.pc = "done"]
  OBVIOUS
<1>3. s \in ActorState /\ s.pc = "done" /\ s.job.status = "none"
  BY <1>2, IdleState DEF ActorState, PCs
<1>4. /\ act' \in [Actors -> ActorState]
      /\ act'["runner"] = s
      /\ \A a \in Actors : act'[a] \in {s, Idle}
  BY <1>1, <1>2, <1>3, IdleState DEF Actors
<1>5. \A a \in Actors : Sound(act[a])'
  <2>1. Sound(s)' /\ Sound(Idle)'
    BY <1>3, IdleState, PlainNext DEF Final
  <2>. QED  BY <1>4, <2>1
<1>6. crashes' \in 0 .. MaxCrashes
  BY <1>1, BoundsAssumption DEF Inv, TypeOK
<1>7. TypeOK'
  BY <1>1, <1>4, <1>6 DEF Inv, TypeOK, ActorState, PCs
<1>8. Onward
  BY <1>1, Quiet DEF Inv
<1>9. RowInv' /\ ExecInv'
  BY <1>1, <1>8, RowKept
<1>10. RunnerInv'
  BY <1>3, <1>4 DEF RunnerInv
<1>. QED  BY <1>5, <1>7, <1>9, <1>10 DEF Inv

-----------------------------------------------------------------------------
(* The specification.                                                      *)

LEMMA InitInv == Init => Inv
<1> SUFFICES ASSUME Init
             PROVE  Inv
  OBVIOUS
<1>1. act \in [Actors -> ActorState] /\ \A a \in Actors : act[a] = Idle
  BY IdleState DEF Init
<1>2. NewExec.status = "pending"
  BY DEF NewExec
<1>3. "runner" \in Actors
  BY DEF Actors
<1>4. TypeOK
  <2>1. 0 \in 0 .. MaxCancels /\ 0 \in 0 .. MaxCrashes
    BY BoundsAssumption
  <2>2. Types
    BY <2>1, IdleState DEF Init, Types, Absent
  <2>. QED  BY <1>1, <2>2, TypesOfState
<1>. QED  BY <1>1, <1>2, <1>3, <1>4, IdleState DEF Init, Inv, RunnerInv, RowInv, ExecInv, Final, ExecFinal

LEMMA NextInv == Inv /\ [Next]_vars => Inv'
<1> SUFFICES ASSUME Inv, [Next]_vars
             PROVE  Inv'
  OBVIOUS
<1>1. CASE Submit \/ SubmitRefused
  BY <1>1, SubmitInv, SubmitRefusedInv
<1>2. CASE RunnerStep
  BY <1>2, CreatedInv, SaveExecutionIDInv, BindModuleRefInv DEF RunnerStep
<1>3. CASE \E a \in Actors \ {"runner"} : SyncGet(a) \/ SyncMove(a)
  BY <1>3, SyncGetInv, SyncMoveInv
<1>4. CASE Reconcile \/ GetJobInfoFails
  BY <1>4, LoadJobInv, ReconcileJobInv, markExpiredInv, expireUnknownSubmitInv, GetJobInfoFailsInv
     DEF Reconcile, Answered
<1>5. CASE RefreshJob \/ DeadlinePasses
  BY <1>5, RefreshJobInv, DeadlinePassesInv
<1>6. ASSUME NEW c \in Cancellers, StopByJob(c) \/ StopByExecution(c) \/ CancelStep(c)
      PROVE  Inv'
  BY <1>6, StopByJobInv, StopByExecutionInv, ClaimCancelInv, AskModuleInv, RequestCancelInv, StopJobInv,
     RestoreInv, MarkCancellingInv, ForceStopInv, ForceCloseInv, FinishCancelInv DEF CancelStep
<1>7. CASE EngineStep \/ Crash
  BY <1>7, EngineStepInv, CrashInv
<1>8. CASE UNCHANGED vars
  <2>1. Onward /\ Types'
    BY <1>8, Quiet, TypesOfState DEF vars, Inv, Types
  <2>. QED  BY <1>8, <2>1, Outside DEF vars
<1>. QED  BY <1>1, <1>2, <1>3, <1>4, <1>5, <1>6, <1>7, <1>8 DEF Next

\* Every reachable state satisfies the invariant.
THEOREM Invariance == Spec => []Inv
BY InitInv, NextInv, PTL DEF Spec

\* The state is well-typed: of SyncJob's rows, records and copies.
THEOREM TypeCorrect == Spec => []TypeOK
<1>1. Inv => TypeOK
  BY DEF Inv
<1>. QED  BY <1>1, Invariance, PTL

\* A row is final, and its execution ended, only when the job in the engine
\* has ended, was lost, forgotten or given up on.
THEOREM EndsAreTrue == Spec => []EndedIsTrue
<1>1. Inv => EndedIsTrue
  BY DEF Inv, RowInv, ExecInv, EndedIsTrue, Over, MayRun, Ended, Alive
<1>. QED  BY <1>1, Invariance, PTL

-----------------------------------------------------------------------------
(* What no step does.                                                      *)

\* A step takes back a stop that is under way only as the runner's save or a
\* canceller's restore.
KeepsCancel ==
    row.status \in Cancelling /\ row'.status \in {"pending", "running"}
       => \/ act["runner"].pc = "save"
          \/ \E c \in Cancellers : act[c].pc = "restore"

\* The reconciler's answers do not.
LEMMA UpdateKeepsCancel ==
    ASSUME Inv, NEW raw \in Raws, Update(act["reconciler"].job, raw)
    PROVE  row.status \in Cancelling => row'.status \notin {"pending", "running"}
<1>1. PICK job : job = act["reconciler"].job
  OBVIOUS
<1>2. job \in Row /\ job.status \in JobStatus /\ row \in Row
  BY <1>1, ReconcilerState DEF Inv, TypeOK
<1>3. CASE UNCHANGED row
  BY <1>3 DEF Cancelling
<1>4. CASE row.status = job.status /\ row' = Applied(job, raw)
  <2>1. row'.status = ObservedStatus(job.status, raw)
    BY <1>2, <1>4, AppliedRow DEF Inv
  <2>. QED  BY <1>2, <1>4, <2>1, Observed
<1>. QED  BY <1>1, <1>3, <1>4 DEF Update, UpdateJobStatus

LEMMA StepKeepsCancel ==
    ASSUME Inv, [Next]_vars
    PROVE  KeepsCancel
<1>1. row \in Row /\ TypeOK
  BY DEF Inv, TypeOK
<1>2. CASE UNCHANGED row
  BY <1>2 DEF KeepsCancel, Cancelling
<1>3. CASE SubmitReplied \/ recordUnknownSubmitOutcome
  BY <1>3 DEF SubmitReplied, recordUnknownSubmitOutcome, Created, Inv, RunnerInv, KeepsCancel, Cancelling
<1>4. CASE SaveExecutionID
  BY <1>4 DEF SaveExecutionID, KeepsCancel
<1>5. CASE ReconcileJob
  <2>1. PICK raw \in Answers :
           \/ UNCHANGED row
           \/ Update(act["reconciler"].job, IF raw = "" THEN "FAILED" ELSE raw)
    BY <1>5, Zenon DEF ReconcileJob
  <2>2. PICK seen : seen = IF raw = "" THEN "FAILED" ELSE raw
    OBVIOUS
  <2>3. seen \in Raws
    BY <1>1, <2>2, AnswersType DEF Raws
  <2>. QED  BY <1>2, <2>1, <2>2, <2>3, UpdateKeepsCancel DEF KeepsCancel
<1>6. CASE markExpired
  <2>1. row' = [row EXCEPT !.outcome = "expired"]
    BY <1>6 DEF markExpired
  <2>. QED  BY <1>1, <2>1 DEF Row, KeepsCancel, Cancelling
<1>7. CASE expireUnknownSubmit
  BY <1>7, UpdateKeepsCancel DEF expireUnknownSubmit, KeepsCancel, Raws
<1>8. CASE RefreshJob
  <2>1. PICK raw \in Answers : row' = Applied(row, raw)
    BY <1>8 DEF RefreshJob
  <2>2. raw \in Raws
    BY <1>1, AnswersType
  <2>3. row'.status = ObservedStatus(row.status, raw)
    BY <1>1, <2>1, <2>2, AppliedRow
  <2>4. row.status \in JobStatus
    BY <1>1 DEF Row
  <2>. QED  BY <2>2, <2>3, <2>4, Observed DEF KeepsCancel
<1>9. ASSUME NEW c \in Cancellers, RequestCancel(c) \/ Restore(c) \/ MarkCancelling(c) \/ ForceClose(c)
      PROVE  KeepsCancel
  <2>1. CASE RequestCancel(c)
    BY <2>1 DEF RequestCancel, UpdateJobStatus, KeepsCancel, Cancelling
  <2>2. CASE Restore(c)
    BY <2>2 DEF Restore, KeepsCancel
  <2>3. CASE MarkCancelling(c)
    <3>1. PICK job : job = [act[c].job EXCEPT !.status = "cancelling", !.sp = (act[c].how = "savepoint")]
      OBVIOUS
    <3>2. job.status = "cancelling"
      BY <3>1, CancellerState DEF Row
    <3>3. UNCHANGED row \/ row' = [row EXCEPT !.status = job.status, !.sp = job.sp]
      BY <2>3, <3>1, Zenon DEF MarkCancelling, UpdateJobStatus
    <3>4. UNCHANGED row \/ row'.status = "cancelling"
      BY <1>1, <3>2, <3>3 DEF Row
    <3>. QED  BY <1>2, <3>4 DEF KeepsCancel
  <2>4. CASE ForceClose(c)
    <3>1. PICK job : job = [act[c].job EXCEPT !.status = "canceled", !.sp = FALSE]
      OBVIOUS
    <3>2. job.status = "canceled"
      BY <3>1, CancellerState DEF Row
    <3>3. UNCHANGED row \/ row' = [row EXCEPT !.status = job.status, !.sp = job.sp]
      BY <2>4, <3>1, Zenon DEF ForceClose, UpdateJobStatus
    <3>4. UNCHANGED row \/ row'.status = "canceled"
      BY <1>1, <3>2, <3>3 DEF Row
    <3>. QED  BY <1>2, <3>4 DEF KeepsCancel
  <2>. QED  BY <1>9, <2>1, <2>2, <2>3, <2>4
<1>10. \/ UNCHANGED row
       \/ SubmitReplied \/ recordUnknownSubmitOutcome \/ SaveExecutionID
       \/ ReconcileJob \/ markExpired \/ expireUnknownSubmit \/ RefreshJob
       \/ \E c \in Cancellers : RequestCancel(c) \/ Restore(c) \/ MarkCancelling(c) \/ ForceClose(c)
  BY DEF Next, vars, Submit, SubmitRefused, RunnerStep, BindModuleRef, SyncGet, SyncMove, Reconcile, Answered,
         LoadJob, GetJobInfoFails, DeadlinePasses, StopByJob, StopByExecution, CancelStep, ClaimCancel,
         AskModule, StopJob, ForceStop, FinishCancel, EngineStep, Crash
<1>. QED  BY <1>2, <1>3, <1>4, <1>5, <1>6, <1>7, <1>8, <1>9, <1>10

\* Nobody takes back a stop that is under way, but for the runner that saves
\* its first copy and the canceller whose stop the engine refused.
THEOREM CancelIsKept == Spec => CancelKept
<1>1. Inv /\ [Next]_vars =>
        [row.status \in Cancelling /\ row'.status \in {"pending", "running"}
           => \/ act["runner"].pc = "save"
              \/ \E c \in Cancellers : act[c].pc = "restore"]_vars
  BY StepKeepsCancel DEF KeepsCancel
<1>. QED  BY <1>1, Invariance, PTL DEF Spec, CancelKept

\* An execution that has ended keeps its status.
KeepsEnd == exec.status \in ExecFinal => exec'.status = exec.status

LEMMA StepKeepsEnd ==
    ASSUME Inv, [Next]_vars
    PROVE  KeepsEnd
<1>1. exec \in Exec /\ TypeOK
  BY DEF Inv, TypeOK
<1>2. CASE UNCHANGED exec
  BY <1>2 DEF KeepsEnd
<1>3. CASE SubmitRefused
  BY <1>3 DEF SubmitRefused, KeepsEnd, ExecFinal
<1>4. CASE BindModuleRef
  <2>1. PICK status : status = act["runner"].job.status
    OBVIOUS
  <2>2. exec' = [Synced(status) EXCEPT !.ref = TRUE]
    BY <1>4, <2>1 DEF BindModuleRef
  <2>3. status \in JobStatus
    BY <1>1, <2>1, RunnerState DEF ActorState, Row
  <2>4. Synced(status) \in Exec /\ (exec.status \in ExecFinal => Synced(status) = exec)
    BY <1>1, <2>3, SyncedType
  <2>. QED  BY <2>2, <2>4 DEF KeepsEnd, Exec
<1>5. CASE RefreshJob
  <2>1. row'.status \in JobStatus
    BY <1>5, RefreshJobInv DEF Inv, TypeOK, Row
  <2>. QED  BY <1>1, <1>5, <2>1, SyncedType DEF RefreshJob, KeepsEnd
<1>6. ASSUME NEW a \in Actors \ {"runner"}, SyncMove(a)
      PROVE  KeepsEnd
  <2>1. PICK item, target : item = act[a].item.status /\ target = Target(act[a].job.status, act[a].item.status)
    OBVIOUS
  <2>2. PICK next : next = nextExecutionStatus(item, target)
    OBVIOUS
  <2>3. UNCHANGED exec \/ (next # item /\ exec.status = item)
    BY <1>6, <2>1, <2>2, Zenon DEF SyncMove
  <2>4. act[a].job.status \in JobStatus /\ item \in ExecStatus
    BY <1>1, <2>1, ActType DEF ActorState, Row, Exec
  <2>5. item \in ExecFinal => next = item
    BY <2>1, <2>2, <2>4, TargetType, NextStatus
  <2>. QED  BY <2>3, <2>5 DEF KeepsEnd
<1>7. ASSUME NEW c \in Cancellers, ClaimCancel(c) \/ FinishCancel(c)
      PROVE  KeepsEnd
  <2>1. CASE ClaimCancel(c)
    BY <2>1, CancellerState DEF ClaimCancel, Sound, KeepsEnd
  <2>2. CASE FinishCancel(c)
    <3>1. exec.status = "cancel_requested" \/ UNCHANGED exec
      BY <2>2, Zenon DEF FinishCancel
    <3>. QED  BY <3>1 DEF KeepsEnd, ExecFinal
  <2>. QED  BY <1>7, <2>1, <2>2
<1>8. \/ UNCHANGED exec
      \/ SubmitRefused \/ BindModuleRef \/ RefreshJob
      \/ \E a \in Actors \ {"runner"} : SyncMove(a)
      \/ \E c \in Cancellers : ClaimCancel(c) \/ FinishCancel(c)
  BY DEF Next, vars, Submit, RunnerStep, SubmitReplied, recordUnknownSubmitOutcome, Created, SaveExecutionID, SyncGet,
         Reconcile, Answered, LoadJob, ReconcileJob, markExpired, expireUnknownSubmit, GetJobInfoFails,
         DeadlinePasses, StopByJob, StopByExecution, CancelStep, AskModule, RequestCancel, StopJob,
         Restore, MarkCancelling, ForceStop, ForceClose, EngineStep, Crash
<1>. QED  BY <1>2, <1>3, <1>4, <1>5, <1>6, <1>7, <1>8

\* An execution that has ended is never opened again, nor given another end:
\* by a late sync, a stop or the runner that binds its job.
THEOREM EndedExecutionStays == Spec => [][KeepsEnd]_vars
<1>1. Inv /\ [Next]_vars => [KeepsEnd]_vars
  BY StepKeepsEnd
<1>. QED  BY <1>1, Invariance, PTL DEF Spec

-----------------------------------------------------------------------------
(* How a row settles: one look at a job that is over ends it, for good.    *)

\* A row that has ended keeps its status, but for the runner's save.
KeepsRow == row.status \in Final => row'.status = row.status \/ act["runner"].pc = "save"

\* The reconciler looks at a job that has ended, was lost or forgotten, knowing its row
\* as it is, and with nothing left to wait for.
SeesTheEnd ==
    LET job == act["reconciler"].job IN
    /\ row.status # "none" /\ engine \notin Alive \cup {"inflight"}
    /\ job.status = row.status
    /\ job.outcome = "unknown" => late

\* An answer that it applies ends the row: at once, or as that of an expired submit.
EndsBySeeing == SeesTheEnd /\ (ReconcileJob \/ expireUnknownSubmit) => row'.status \in Final

\* A final answer makes a status final.
LEMMA FinalAnswer ==
    ASSUME NEW old \in JobStatus, NEW raw, isFinalEngineJobStatus(raw)
    PROVE  ObservedStatus(old, raw) \in Final
<1>1. raw # "" /\ normalizeJobStatus[raw] \in Final
  <2>1. CASE raw = "FINISHED"
    BY <2>1 DEF normalizeJobStatus, Final
  <2>2. CASE raw = "FAILED"
    BY <2>2 DEF normalizeJobStatus, Final
  <2>3. CASE raw = "CANCELED"
    BY <2>3 DEF normalizeJobStatus, Final
  <2>4. CASE raw = "SAVEPOINT_DONE"
    BY <2>4 DEF normalizeJobStatus, Final
  <2>. QED  BY <2>1, <2>2, <2>3, <2>4 DEF isFinalEngineJobStatus
<1>2. PICK new : new = normalizeJobStatus[raw]
  OBVIOUS
<1>3. ObservedStatus(old, raw) =
        IF old \in Final THEN old
        ELSE IF old \in Cancelling
        THEN CASE new = "running" -> old [] new = "success" -> "canceled" [] OTHER -> new
        ELSE new
  BY <1>1, <1>2 DEF ObservedStatus
<1>. QED  BY <1>1, <1>2, <1>3 DEF Final

\* An update from a copy that knows the status, by a final answer.
LEMMA UpdateEnds ==
    ASSUME Inv, NEW raw \in Raws, isFinalEngineJobStatus(raw),
           act["reconciler"].job.status = row.status, Update(act["reconciler"].job, raw)
    PROVE  row'.status \in Final
<1>1. PICK job : job = act["reconciler"].job
  OBVIOUS
<1>2. job \in Row /\ job.status \in JobStatus /\ job.status = row.status
  BY <1>1, ReconcilerState DEF Inv, TypeOK
<1>3. row' = Applied(job, raw)
  BY <1>1, <1>2 DEF Update, UpdateJobStatus
<1>4. row'.status = ObservedStatus(job.status, raw)
  BY <1>2, <1>3, AppliedRow DEF Inv
<1>. QED  BY <1>2, <1>4, FinalAnswer

\* An update leaves a status that is final already as it is.
LEMMA UpdateKeepsRow ==
    ASSUME Inv, NEW raw \in Raws, Update(act["reconciler"].job, raw), row.status \in Final
    PROVE  row'.status = row.status
<1>1. PICK job : job = act["reconciler"].job
  OBVIOUS
<1>2. job \in Row /\ job.status \in JobStatus
  BY <1>1, ReconcilerState DEF Inv, TypeOK
<1>3. UNCHANGED row \/ (row.status = job.status /\ row' = Applied(job, raw))
  BY <1>1 DEF Update, UpdateJobStatus
<1>4. row' = Applied(job, raw) => row'.status = ObservedStatus(job.status, raw)
  BY <1>2, AppliedRow DEF Inv
<1>. QED  BY <1>3, <1>4 DEF ObservedStatus

LEMMA StepKeepsRow ==
    ASSUME Inv, [Next]_vars
    PROVE  KeepsRow
<1> SUFFICES ASSUME row.status \in Final PROVE row'.status = row.status \/ act["runner"].pc = "save"
  BY DEF KeepsRow
<1>1. row \in Row /\ TypeOK
  BY DEF Inv, TypeOK
<1>2. row.status \notin Cancelling \cup {"none", "pending", "running"}
  BY DEF Final, Cancelling
<1>3. ~(SubmitReplied \/ recordUnknownSubmitOutcome)
  BY <1>2 DEF SubmitReplied, recordUnknownSubmitOutcome, Created, Inv, RunnerInv
<1>4. CASE SaveExecutionID
  BY <1>4 DEF SaveExecutionID
<1>5. CASE ReconcileJob
  <2>1. PICK raw \in Answers :
           \/ UNCHANGED row
           \/ Update(act["reconciler"].job, IF raw = "" THEN "FAILED" ELSE raw)
    BY <1>5, Zenon DEF ReconcileJob
  <2>2. PICK seen : seen = IF raw = "" THEN "FAILED" ELSE raw
    OBVIOUS
  <2>3. seen \in Raws
    BY <1>1, <2>2, AnswersType DEF Raws
  <2>. QED  BY <2>1, <2>2, <2>3, UpdateKeepsRow
<1>6. CASE markExpired
  <2>1. row' = [row EXCEPT !.outcome = "expired"]
    BY <1>6 DEF markExpired
  <2>. QED  BY <1>1, <2>1 DEF Row
<1>7. CASE expireUnknownSubmit
  BY <1>7, UpdateKeepsRow DEF expireUnknownSubmit, Raws
<1>8. CASE RefreshJob
  <2>1. PICK raw \in Answers : row' = Applied(row, raw)
    BY <1>8 DEF RefreshJob
  <2>2. row'.status = ObservedStatus(row.status, raw)
    BY <1>1, <2>1, AnswersType, AppliedRow
  <2>. QED  BY <2>2 DEF ObservedStatus
<1>9. ASSUME NEW c \in Cancellers, RequestCancel(c) \/ Restore(c) \/ MarkCancelling(c) \/ ForceClose(c)
      PROVE  UNCHANGED row
  <2>1. row.status \notin {"pending", "running"} /\ row.status \notin {"cancel_requested"}
    BY <1>2 DEF Cancelling
  <2>2. CASE RequestCancel(c)
    BY <2>1, <2>2 DEF RequestCancel, UpdateJobStatus
  <2>3. CASE Restore(c)
    BY <2>1, <2>3, Zenon DEF Restore, UpdateJobStatus
  <2>4. CASE MarkCancelling(c)
    BY <2>1, <2>4, Zenon DEF MarkCancelling, UpdateJobStatus
  <2>5. CASE ForceClose(c)
    <3>1. row.status \notin Cancelling
      BY <1>2
    <3>. QED  BY <2>5, <3>1, Zenon DEF ForceClose, UpdateJobStatus
  <2>. QED  BY <1>9, <2>2, <2>3, <2>4, <2>5
<1>10. \/ UNCHANGED row
       \/ SubmitReplied \/ recordUnknownSubmitOutcome \/ SaveExecutionID
       \/ ReconcileJob \/ markExpired \/ expireUnknownSubmit \/ RefreshJob
       \/ \E c \in Cancellers : RequestCancel(c) \/ Restore(c) \/ MarkCancelling(c) \/ ForceClose(c)
  BY DEF Next, vars, Submit, SubmitRefused, RunnerStep, BindModuleRef, SyncGet, SyncMove, Reconcile, Answered,
         LoadJob, GetJobInfoFails, DeadlinePasses, StopByJob, StopByExecution, CancelStep, ClaimCancel,
         AskModule, StopJob, ForceStop, FinishCancel, EngineStep, Crash
<1>. QED  BY <1>3, <1>4, <1>5, <1>6, <1>7, <1>8, <1>9, <1>10

LEMMA StepEndsBySeeing ==
    ASSUME Inv
    PROVE  EndsBySeeing
<1> SUFFICES ASSUME SeesTheEnd, ReconcileJob \/ expireUnknownSubmit PROVE row'.status \in Final
  BY DEF EndsBySeeing
<1>1. TypeOK /\ act["reconciler"].job.status = row.status
  BY DEF Inv, SeesTheEnd
<1>2. engine \in Ended \cup {"lost", "gone"}
  <2>1. engine # "none"
    BY DEF Inv, RowInv, Knows, SeesTheEnd
  <2>. QED  BY <1>1, <2>1 DEF SeesTheEnd, TypeOK, Alive, Ended, Absent
<1>3. CASE ReconcileJob
  <2>1. PICK job : job = act["reconciler"].job
    OBVIOUS
  <2>2. job.outcome = "unknown" => late
    BY <2>1 DEF SeesTheEnd
  <2>3. PICK raw \in Answers :
           /\ ~Expires(job, raw)
           /\ ~Waits(job, raw) => Update(job, IF raw = "" THEN "FAILED" ELSE raw)
    BY <1>3, <2>1, Zenon DEF ReconcileJob
  <2>4. ~Waits(job, raw)
    BY <2>2, <2>3 DEF Waits, Expires
  <2>5. PICK seen : seen = IF raw = "" THEN "FAILED" ELSE raw
    OBVIOUS
  <2>6. raw = "" \/ isFinalEngineJobStatus(raw)
    BY <1>2 DEF Answers, Ended, Alive, isFinalEngineJobStatus
  <2>7. seen \in Raws /\ isFinalEngineJobStatus(seen)
    BY <2>5, <2>6 DEF Raws, isFinalEngineJobStatus
  <2>. QED  BY <1>1, <2>1, <2>3, <2>4, <2>5, <2>7, UpdateEnds
<1>4. CASE expireUnknownSubmit
  BY <1>1, <1>4, UpdateEnds DEF expireUnknownSubmit, Raws, isFinalEngineJobStatus
<1>. QED  BY <1>3, <1>4

\* Once the runner has saved its row, a final status stays: whatever copy a reconciler, a
\* refresh or a canceller writes back.
THEOREM FinalRowStays == Spec => [][KeepsRow]_vars
<1>1. Inv /\ [Next]_vars => [KeepsRow]_vars
  BY StepKeepsRow
<1>. QED  BY <1>1, Invariance, PTL DEF Spec

\* One look of the reconciler ends the row of a job that has ended, was lost or was
\* forgotten, whatever the engine answers (nothing, or an earlier run's end) and whatever
\* stop is under way, unless the row has changed since it was listed.
THEOREM OneLookEnds == Spec => [][EndsBySeeing]_vars
<1>1. Inv /\ [Next]_vars => [EndsBySeeing]_vars
  BY StepEndsBySeeing
<1>. QED  BY <1>1, Invariance, PTL DEF Spec
=============================================================================
