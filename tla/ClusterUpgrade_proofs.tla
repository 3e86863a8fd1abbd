------------------------- MODULE ClusterUpgrade_proofs -------------------------
(***************************************************************************)
(* Safety of ClusterUpgrade, for every set of nodes: the old version of a  *)
(* node is never lost, an upgrade or a rollback that is reported           *)
(* successful is real, one that was cancelled has touched nothing, the     *)
(* nodes of a task that has ended have ended in the same way, and a task   *)
(* that has ended changes nothing any more.                                *)
(***************************************************************************)
EXTENDS ClusterUpgrade, TLAPS

-----------------------------------------------------------------------------
(* Types.                                                                  *)

Rest8 == <<"BACKUP", "DISTRIBUTE", "MERGE_CONFIG", "STOP_CLUSTER", "SWITCH_VERSION", "START_CLUSTER", "HEALTH_CHECK", "COMPLETE">>
Rest7 == <<"DISTRIBUTE", "MERGE_CONFIG", "STOP_CLUSTER", "SWITCH_VERSION", "START_CLUSTER", "HEALTH_CHECK", "COMPLETE">>
Rest6 == <<"MERGE_CONFIG", "STOP_CLUSTER", "SWITCH_VERSION", "START_CLUSTER", "HEALTH_CHECK", "COMPLETE">>
Rest5 == <<"STOP_CLUSTER", "SWITCH_VERSION", "START_CLUSTER", "HEALTH_CHECK", "COMPLETE">>
Rest4 == <<"SWITCH_VERSION", "START_CLUSTER", "HEALTH_CHECK", "COMPLETE">>
Rest3 == <<"START_CLUSTER", "HEALTH_CHECK", "COMPLETE">>
Rest2 == <<"HEALTH_CHECK", "COMPLETE">>
Rest1 == <<"COMPLETE">>
Back3 == <<"ROLLBACK_RESTORE", "ROLLBACK_RESTART", "ROLLBACK_VERIFY">>
Back2 == <<"ROLLBACK_RESTART", "ROLLBACK_VERIFY">>
Back1 == <<"ROLLBACK_VERIFY">>
Kept1 == <<"VERIFY_SOURCE">>

Forward  == {Upgrade, Rest8, Rest7, Rest6, Rest5, Rest4, Rest3, Rest2, Rest1, <<>>}
Backward == {Rollback, Back3, Back2, Back1, KeptRunning, Kept1, <<>>}

TaskStatus == {"none", "pending", "running"} \cup Ended
ExecStatus == {"none", "pending", "running", "cancel_requested"} \cup Ended
TaskType   == [status : TaskStatus, done : BOOLEAN,
               rollback : {"pending", "skipped", "rollback_running", "rollback_failed", "rollback_succeeded"}]
NodeStatus == {"pending", "skipped", "running", "succeeded", "failed",
               "rollback_running", "rollback_failed", "rollback_succeeded"}
Places     == {"none", "create", "bind", "claim", "sync", "move", "step", "node", "fail", "err",
               "close", "last", "won", "commit", "endsync", "endmove", "gone"}
Goroutine  == [at : Places, steps : Forward \cup Backward, todo : SUBSET Nodes, bad : BOOLEAN, back : BOOLEAN, settled : SUBSET Nodes,
               task : TaskType, entered : BOOLEAN, backed : BOOLEAN, paths : SUBSET Nodes, seen : ExecStatus]

Types ==
    /\ inPlace \subseteq Nodes /\ agents \subseteq Nodes
    /\ disk \in [Nodes -> [Dirs -> {"none", "torn"} \cup Whole]]
    /\ backup \in [Nodes -> {"none", "torn"} \cup Whole]
    /\ meta \in [Nodes -> Dirs] /\ version \in {"old", "new"}
    /\ proc \in [Nodes -> [st : {"up", "off", "dead"}, dir : Dirs, ver : Whole]]
    /\ task \in TaskType /\ nodes \in [Nodes -> NodeStatus]
    /\ exec \in ExecStatus /\ cancel \in {"none", "claimed", "pending", "running"} \cup Ended
    /\ {open, bound, touched} \subseteq BOOLEAN /\ unsaved \subseteq Nodes
    /\ gor \in Goroutine /\ gor.steps \in (IF gor.back THEN Backward ELSE Forward)
    /\ gor.at \in {"step", "node"} => gor.steps # <<>>
    /\ gor.at \in {"none", "create", "bind", "claim", "sync", "move"} => gor.steps = Upgrade /\ ~gor.back
    /\ gor.paths \subseteq inPlace /\ faults \in 0..MaxFaults
    /\ exec = "none" => gor.at = "none"

-----------------------------------------------------------------------------
(* What the upgrade has reached.                                           *)

\* The nodes a step has done: all once the upgrade is beyond it, in between
\* those it no longer has to do.
Before(step) ==
    CASE step = "MERGE_CONFIG"   -> {Upgrade, Rest8, Rest7, Rest6}
      [] step = "STOP_CLUSTER"   -> {Upgrade, Rest8, Rest7, Rest6, Rest5}
      [] step = "SWITCH_VERSION" -> {Upgrade, Rest8, Rest7, Rest6, Rest5, Rest4}
      [] step = "START_CLUSTER"  -> {Upgrade, Rest8, Rest7, Rest6, Rest5, Rest4, Rest3}
AtWork(rest) == gor.steps = rest /\ gor.at = "node" /\ ~gor.bad
Past(step, rest, n) ==
    ~gor.back /\ (gor.steps \notin Before(step) \/ (AtWork(rest) /\ n \notin gor.todo))

\* The backups: of nothing before the step, of every node upgraded in place
\* after it, in between of those the step has done.
BackedUp ==
    /\ \A n \in Nodes : IF n \in gor.paths THEN backup[n] = "old" ELSE disk[n]["src"] = "old"
    /\ gor.steps = Upgrade => gor.paths = {}
    /\ gor.steps \in {Upgrade, Rest8} => \A n \in Nodes : disk[n]["src"] = "old"
    /\ gor.steps = Rest8 /\ gor.at = "step" => gor.paths = {}
    /\ gor.steps = Rest8 /\ gor.at = "node" => gor.paths = inPlace \ gor.todo /\ ~gor.bad
    /\ ~gor.back /\ gor.steps \notin {Upgrade, Rest8} => gor.paths = inPlace

\* The effects of the steps a node is through; a process that was stopped stays
\* so until it is started.
ReachedAt(n) ==
    /\ gor.steps \in Before("STOP_CLUSTER") => meta[n] = "src"
    /\ gor.steps \in Before("SWITCH_VERSION") => proc[n].dir = "src"
    /\ Past("MERGE_CONFIG", Rest6, n) => disk[n][Target(n)] = "new"
    /\ \/ AtWork(Rest5) /\ n \notin gor.todo
       \/ gor.steps = Rest4
       \/ gor.steps = Rest3 /\ gor.at = "step"
       \/ AtWork(Rest3) /\ n \in gor.todo
       => proc[n].st = "off"
    /\ Past("SWITCH_VERSION", Rest4, n) => meta[n] = Target(n)
    /\ Past("START_CLUSTER", Rest3, n) => proc[n].dir = Target(n) /\ proc[n].ver = "new" /\ proc[n].st # "off"

Reached == \A n \in Nodes : ReachedAt(n)

\* A cluster that was never stopped, where nothing was upgraded in place.
AsBefore == gor.paths = {} /\ ~gor.entered

\* The effects of the steps of the rollback on a node, and on all.
ReturnedAt(n) ==
    /\ proc[n].dir # meta[n] => proc[n].st = "off"
    /\ \/ AtWork(Rollback) /\ n \notin gor.todo
       \/ gor.steps = Back3
       \/ gor.steps = Back2 /\ gor.at = "step"
       \/ AtWork(Back2) /\ n \in gor.todo
       => proc[n].st = "off"
    /\ \/ AsBefore
       \/ AtWork(Back3) /\ n \notin gor.todo
       \/ gor.steps \in {Back2, Back1}
       \/ gor.back /\ gor.steps = <<>>
       => disk[n]["src"] = "old"
    /\ AsBefore \/ gor.steps \in {Back2, Back1} \/ (gor.back /\ gor.steps = <<>>) => meta[n] = "src"
    /\ \/ AsBefore
       \/ AtWork(Back2) /\ n \notin gor.todo
       \/ gor.steps = Back1
       \/ gor.back /\ gor.steps = <<>>
       => proc[n].dir = "src" /\ proc[n].ver = "old" /\ proc[n].st # "off"

Returned ==
    /\ gor.steps \in {KeptRunning, Kept1} => AsBefore
    /\ gor.steps \in {Rollback, Back3, Back2, Back1} => ~AsBefore
    /\ ~gor.back /\ ~gor.entered /\ gor.at \in {"step", "node"} => gor.steps \in Before("STOP_CLUSTER")
    /\ gor.steps = Rest5 /\ gor.at = "node" => gor.entered
    /\ AsBefore \/ gor.steps \in {Back2, Back1} \/ (gor.back /\ gor.steps = <<>>) => version = "old"
    /\ \A n \in Nodes : ReturnedAt(n)

-----------------------------------------------------------------------------
(* Task, execution and cancel.                                             *)

Begun  == {"running", "succeeded", "failed"}
Settled == {"endsync", "endmove", "gone"}
Working == {"sync", "move", "step", "node", "fail", "err", "close", "last", "won", "commit"}

\* A task that was cancelled never begins, one that has begun is not cancelled.
Cancelled ==
    /\ gor.at \in {"none", "create"} => task.status = "none"
    /\ gor.at = "bind" => task.status = "pending"
    /\ gor.at = "claim" => task.status \in {"pending", "cancelled"}
    /\ gor.at \in Working => task.status \in Begun /\ gor.task.status \in Begun
    /\ touched => gor.at \in Working \cup Settled /\ task.status \in Begun
    /\ touched /\ gor.at \in {"endsync", "endmove"} => gor.task.status \in Begun
    /\ bound => gor.at \notin {"none", "create", "bind"}
    /\ gor.at \in {"endsync", "endmove"} /\ gor.task.status = "cancelled" => task.status = "cancelled"
    /\ cancel = "cancelled" \/ exec = "cancelled" => task.status = "cancelled"

\* A success is reported after the last step only.
Reported ==
    /\ ~gor.back /\ gor.steps \notin Before("SWITCH_VERSION") => version = "new"
    /\ gor.at \in {"won", "commit"} => ~gor.back /\ gor.steps = <<>>
    /\ task.status = "succeeded" => ~gor.back /\ gor.steps = <<>> /\ gor.at \in Settled
    /\ gor.task.status = "succeeded" => gor.at \in Settled
    /\ task.rollback = "rollback_succeeded" \/ gor.task.rollback = "rollback_succeeded"
       => gor.back /\ gor.steps = <<>> /\ gor.at \in {"close", "last"} \cup Settled

Inv == Types /\ OldVersionKept /\ BackedUp /\ Reached /\ Returned /\ Cancelled /\ Reported

-----------------------------------------------------------------------------
(* The steps and their order.                                              *)

AllSteps == {"PRECHECK", "BACKUP", "DISTRIBUTE", "MERGE_CONFIG", "STOP_CLUSTER", "SWITCH_VERSION", "START_CLUSTER",
             "HEALTH_CHECK", "COMPLETE", "ROLLBACK_PREPARE", "ROLLBACK_RESTORE", "ROLLBACK_RESTART",
             "ROLLBACK_VERIFY", "KEEP_RUNNING", "VERIFY_SOURCE"}

LEMMA Heads ==
    /\ Head(Upgrade) = "PRECHECK" /\ Head(Rest8) = "BACKUP" /\ Head(Rest7) = "DISTRIBUTE"
    /\ Head(Rest6) = "MERGE_CONFIG" /\ Head(Rest5) = "STOP_CLUSTER" /\ Head(Rest4) = "SWITCH_VERSION"
    /\ Head(Rest3) = "START_CLUSTER" /\ Head(Rest2) = "HEALTH_CHECK" /\ Head(Rest1) = "COMPLETE"
    /\ Head(Rollback) = "ROLLBACK_PREPARE" /\ Head(Back3) = "ROLLBACK_RESTORE"
    /\ Head(Back2) = "ROLLBACK_RESTART" /\ Head(Back1) = "ROLLBACK_VERIFY"
    /\ Head(KeptRunning) = "KEEP_RUNNING" /\ Head(Kept1) = "VERIFY_SOURCE"
BY DEF Upgrade, Rest8, Rest7, Rest6, Rest5, Rest4, Rest3, Rest2, Rest1,
       Rollback, Back3, Back2, Back1, KeptRunning, Kept1

LEMMA Tails ==
    /\ Tail(Upgrade) = Rest8 /\ Tail(Rest8) = Rest7 /\ Tail(Rest7) = Rest6 /\ Tail(Rest6) = Rest5
    /\ Tail(Rest5) = Rest4 /\ Tail(Rest4) = Rest3 /\ Tail(Rest3) = Rest2 /\ Tail(Rest2) = Rest1
    /\ Tail(Rest1) = <<>>
    /\ Tail(Rollback) = Back3 /\ Tail(Back3) = Back2 /\ Tail(Back2) = Back1 /\ Tail(Back1) = <<>>
    /\ Tail(KeptRunning) = Kept1 /\ Tail(Kept1) = <<>>
BY DEF Upgrade, Rest8, Rest7, Rest6, Rest5, Rest4, Rest3, Rest2, Rest1,
       Rollback, Back3, Back2, Back1, KeptRunning, Kept1

LEMMA NotEmpty ==
    <<>> \notin {Upgrade, Rest8, Rest7, Rest6, Rest5, Rest4, Rest3, Rest2, Rest1,
                 Rollback, Back3, Back2, Back1, KeptRunning, Kept1}
BY DEF Upgrade, Rest8, Rest7, Rest6, Rest5, Rest4, Rest3, Rest2, Rest1,
       Rollback, Back3, Back2, Back1, KeptRunning, Kept1

\* Each rest of the steps is known by the step it begins with.
LEMMA StepIs ==
    ASSUME gor.steps \in Forward \cup Backward, gor.steps # <<>>
    PROVE  /\ Step \in AllSteps
           /\ gor.steps = Upgrade <=> Step = "PRECHECK"
           /\ gor.steps = Rest8 <=> Step = "BACKUP"
           /\ gor.steps = Rest7 <=> Step = "DISTRIBUTE"
           /\ gor.steps = Rest6 <=> Step = "MERGE_CONFIG"
           /\ gor.steps = Rest5 <=> Step = "STOP_CLUSTER"
           /\ gor.steps = Rest4 <=> Step = "SWITCH_VERSION"
           /\ gor.steps = Rest3 <=> Step = "START_CLUSTER"
           /\ gor.steps = Rest2 <=> Step = "HEALTH_CHECK"
           /\ gor.steps = Rest1 <=> Step = "COMPLETE"
           /\ gor.steps = Rollback <=> Step = "ROLLBACK_PREPARE"
           /\ gor.steps = Back3 <=> Step = "ROLLBACK_RESTORE"
           /\ gor.steps = Back2 <=> Step = "ROLLBACK_RESTART"
           /\ gor.steps = Back1 <=> Step = "ROLLBACK_VERIFY"
           /\ gor.steps = KeptRunning <=> Step = "KEEP_RUNNING"
           /\ gor.steps = Kept1 <=> Step = "VERIFY_SOURCE"
BY Heads DEF Step, AllSteps, Forward, Backward

\* A step of the upgrade or of the rollback, and what is left after it.
LEMMA StepOfTask ==
    ASSUME Types, gor.steps # <<>>
    PROVE  /\ gor.back <=> Step \in {"ROLLBACK_PREPARE", "ROLLBACK_RESTORE", "ROLLBACK_RESTART", "ROLLBACK_VERIFY",
                                     "KEEP_RUNNING", "VERIFY_SOURCE"}
           /\ Tail(gor.steps) \in (IF gor.back THEN Backward ELSE Forward)
<1>1. gor.steps \in (IF gor.back THEN Backward ELSE Forward)
  BY DEF Types
<1>2. CASE gor.back
  <2>1. gor.steps \in {Rollback, Back3, Back2, Back1, KeptRunning, Kept1}
    BY <1>1, <1>2 DEF Backward
  <2>2. gor.steps \in Forward \cup Backward
    BY <2>1 DEF Backward
  <2>3. Step \in {"ROLLBACK_PREPARE", "ROLLBACK_RESTORE", "ROLLBACK_RESTART", "ROLLBACK_VERIFY",
                  "KEEP_RUNNING", "VERIFY_SOURCE"}
    BY <2>1, <2>2, StepIs
  <2>4. Tail(gor.steps) \in {Back3, Back2, Back1, Kept1, <<>>}
    BY <2>1, Tails
  <2> QED
    BY <1>2, <2>3, <2>4 DEF Backward
<1>3. CASE ~gor.back
  <2>1. gor.steps \in {Upgrade, Rest8, Rest7, Rest6, Rest5, Rest4, Rest3, Rest2, Rest1}
    BY <1>1, <1>3 DEF Forward
  <2>2. gor.steps \in Forward \cup Backward
    BY <2>1 DEF Forward
  <2>3. Step \in {"PRECHECK", "BACKUP", "DISTRIBUTE", "MERGE_CONFIG", "STOP_CLUSTER", "SWITCH_VERSION",
                  "START_CLUSTER", "HEALTH_CHECK", "COMPLETE"}
    BY <2>1, <2>2, StepIs
  <2>4. Tail(gor.steps) \in {Rest8, Rest7, Rest6, Rest5, Rest4, Rest3, Rest2, Rest1, <<>>}
    BY <2>1, Tails
  <2> QED
    BY <1>3, <2>3, <2>4 DEF Forward
<1> QED
  BY <1>2, <1>3

\* The rests of the steps are different from one another.
LEMMA Different ==
    /\ Upgrade \notin {Rest8, Rest7, Rest6, Rest5, Rest4, Rest3, Rest2, Rest1, Rollback, Back3, Back2, Back1, KeptRunning, Kept1, <<>>}
    /\ Rest8 \notin {Rest7, Rest6, Rest5, Rest4, Rest3, Rest2, Rest1, Rollback, Back3, Back2, Back1, KeptRunning, Kept1, <<>>}
    /\ Rest7 \notin {Rest6, Rest5, Rest4, Rest3, Rest2, Rest1, Rollback, Back3, Back2, Back1, KeptRunning, Kept1, <<>>}
    /\ Rest6 \notin {Rest5, Rest4, Rest3, Rest2, Rest1, Rollback, Back3, Back2, Back1, KeptRunning, Kept1, <<>>}
    /\ Rest5 \notin {Rest4, Rest3, Rest2, Rest1, Rollback, Back3, Back2, Back1, KeptRunning, Kept1, <<>>}
    /\ Rest4 \notin {Rest3, Rest2, Rest1, Rollback, Back3, Back2, Back1, KeptRunning, Kept1, <<>>}
    /\ Rest3 \notin {Rest2, Rest1, Rollback, Back3, Back2, Back1, KeptRunning, Kept1, <<>>}
    /\ Rest2 \notin {Rest1, Rollback, Back3, Back2, Back1, KeptRunning, Kept1, <<>>}
    /\ Rest1 \notin {Rollback, Back3, Back2, Back1, KeptRunning, Kept1, <<>>}
    /\ Rollback \notin {Back3, Back2, Back1, KeptRunning, Kept1, <<>>}
    /\ Back3 \notin {Back2, Back1, KeptRunning, Kept1, <<>>}
    /\ Back2 \notin {Back1, KeptRunning, Kept1, <<>>}
    /\ Back1 \notin {KeptRunning, Kept1, <<>>}
    /\ KeptRunning \notin {Kept1, <<>>}
    /\ Kept1 \notin {<<>>}
BY Heads, NotEmpty

\* What is left after a step is known by the step.
LEMMA TailIs ==
    ASSUME gor.steps \in Forward \cup Backward, gor.steps # <<>>
    PROVE  /\ Tail(gor.steps) = Rest8 <=> Step = "PRECHECK"
           /\ Tail(gor.steps) = Rest7 <=> Step = "BACKUP"
           /\ Tail(gor.steps) = Rest6 <=> Step = "DISTRIBUTE"
           /\ Tail(gor.steps) = Rest5 <=> Step = "MERGE_CONFIG"
           /\ Tail(gor.steps) = Rest4 <=> Step = "STOP_CLUSTER"
           /\ Tail(gor.steps) = Rest3 <=> Step = "SWITCH_VERSION"
           /\ Tail(gor.steps) = Rest2 <=> Step = "START_CLUSTER"
           /\ Tail(gor.steps) = Rest1 <=> Step = "HEALTH_CHECK"
           /\ Tail(gor.steps) = Back3 <=> Step = "ROLLBACK_PREPARE"
           /\ Tail(gor.steps) = Back2 <=> Step = "ROLLBACK_RESTORE"
           /\ Tail(gor.steps) = Back1 <=> Step = "ROLLBACK_RESTART"
           /\ Tail(gor.steps) = Kept1 <=> Step = "KEEP_RUNNING"
           /\ Tail(gor.steps) = <<>> <=> Step \in {"COMPLETE", "ROLLBACK_VERIFY", "VERIFY_SOURCE"}
           /\ Tail(gor.steps) \notin {Upgrade, Rollback, KeptRunning}
<1>1. CASE gor.steps = Upgrade
  <2>1. Tail(gor.steps) = Rest8 /\ Step = "PRECHECK"
    BY <1>1, Heads, Tails DEF Step
  <2> QED
    BY <2>1, Different
<1>2. CASE gor.steps = Rest8
  <2>1. Tail(gor.steps) = Rest7 /\ Step = "BACKUP"
    BY <1>2, Heads, Tails DEF Step
  <2> QED
    BY <2>1, Different
<1>3. CASE gor.steps = Rest7
  <2>1. Tail(gor.steps) = Rest6 /\ Step = "DISTRIBUTE"
    BY <1>3, Heads, Tails DEF Step
  <2> QED
    BY <2>1, Different
<1>4. CASE gor.steps = Rest6
  <2>1. Tail(gor.steps) = Rest5 /\ Step = "MERGE_CONFIG"
    BY <1>4, Heads, Tails DEF Step
  <2> QED
    BY <2>1, Different
<1>5. CASE gor.steps = Rest5
  <2>1. Tail(gor.steps) = Rest4 /\ Step = "STOP_CLUSTER"
    BY <1>5, Heads, Tails DEF Step
  <2> QED
    BY <2>1, Different
<1>6. CASE gor.steps = Rest4
  <2>1. Tail(gor.steps) = Rest3 /\ Step = "SWITCH_VERSION"
    BY <1>6, Heads, Tails DEF Step
  <2> QED
    BY <2>1, Different
<1>7. CASE gor.steps = Rest3
  <2>1. Tail(gor.steps) = Rest2 /\ Step = "START_CLUSTER"
    BY <1>7, Heads, Tails DEF Step
  <2> QED
    BY <2>1, Different
<1>8. CASE gor.steps = Rest2
  <2>1. Tail(gor.steps) = Rest1 /\ Step = "HEALTH_CHECK"
    BY <1>8, Heads, Tails DEF Step
  <2> QED
    BY <2>1, Different
<1>9. CASE gor.steps = Rest1
  <2>1. Tail(gor.steps) = <<>> /\ Step = "COMPLETE"
    BY <1>9, Heads, Tails DEF Step
  <2> QED
    BY <2>1, Different
<1>10. CASE gor.steps = Rollback
  <2>1. Tail(gor.steps) = Back3 /\ Step = "ROLLBACK_PREPARE"
    BY <1>10, Heads, Tails DEF Step
  <2> QED
    BY <2>1, Different
<1>11. CASE gor.steps = Back3
  <2>1. Tail(gor.steps) = Back2 /\ Step = "ROLLBACK_RESTORE"
    BY <1>11, Heads, Tails DEF Step
  <2> QED
    BY <2>1, Different
<1>12. CASE gor.steps = Back2
  <2>1. Tail(gor.steps) = Back1 /\ Step = "ROLLBACK_RESTART"
    BY <1>12, Heads, Tails DEF Step
  <2> QED
    BY <2>1, Different
<1>13. CASE gor.steps = Back1
  <2>1. Tail(gor.steps) = <<>> /\ Step = "ROLLBACK_VERIFY"
    BY <1>13, Heads, Tails DEF Step
  <2> QED
    BY <2>1, Different
<1>14. CASE gor.steps = KeptRunning
  <2>1. Tail(gor.steps) = Kept1 /\ Step = "KEEP_RUNNING"
    BY <1>14, Heads, Tails DEF Step
  <2> QED
    BY <2>1, Different
<1>15. CASE gor.steps = Kept1
  <2>1. Tail(gor.steps) = <<>> /\ Step = "VERIFY_SOURCE"
    BY <1>15, Heads, Tails DEF Step
  <2> QED
    BY <2>1, Different
<1> QED
  BY <1>1, <1>2, <1>3, <1>4, <1>5, <1>6, <1>7, <1>8, <1>9, <1>10, <1>11, <1>12, <1>13, <1>14, <1>15 DEF Forward, Backward

\* The last step is left.
LEMMA LastStep ==
    ASSUME gor.steps \in Forward \cup Backward, Len(gor.steps) = 1
    PROVE  Tail(gor.steps) = <<>>
<1>1. /\ Len(Upgrade) # 1 /\ Len(Rest8) # 1 /\ Len(Rest7) # 1 /\ Len(Rest6) # 1 /\ Len(Rest5) # 1
      /\ Len(Rest4) # 1 /\ Len(Rest3) # 1 /\ Len(Rest2) # 1
  BY DEF Upgrade, Rest8, Rest7, Rest6, Rest5, Rest4, Rest3, Rest2
<1>2. Len(Rollback) # 1 /\ Len(Back3) # 1 /\ Len(Back2) # 1 /\ Len(KeptRunning) # 1 /\ Len(<<>>) # 1
  BY DEF Rollback, Back3, Back2, KeptRunning
<1>3. gor.steps \in {Rest1, Back1, Kept1}
  BY <1>1, <1>2 DEF Forward, Backward
<1> QED
  BY <1>3, Tails

-----------------------------------------------------------------------------
(* What a goroutine that moves on keeps.                                   *)

LEMMA MovesOn ==
    ASSUME gor \in Goroutine, NEW at \in Places, gor' = [gor EXCEPT !.at = at]
    PROVE  /\ gor' \in Goroutine /\ gor'.at = at /\ gor'.task = gor.task
           /\ gor'.steps = gor.steps /\ gor'.back = gor.back /\ gor'.paths = gor.paths /\ gor'.entered = gor.entered
BY DEF Goroutine

LEMMA MovesWithTask ==
    ASSUME gor \in Goroutine, NEW at \in Places, NEW t \in TaskType, gor' = [gor EXCEPT !.at = at, !.task = t]
    PROVE  /\ gor' \in Goroutine /\ gor'.at = at /\ gor'.task = t
           /\ gor'.steps = gor.steps /\ gor'.back = gor.back /\ gor'.paths = gor.paths /\ gor'.entered = gor.entered
BY DEF Goroutine

-----------------------------------------------------------------------------
(* Steps that leave the hosts and the records alone.                       *)

LEMMA FrameInv ==
    ASSUME Inv, Types', UNCHANGED <<inPlace, hosts, record>>,
           gor'.steps = gor.steps, gor'.back = gor.back, gor'.paths = gor.paths, gor'.entered = gor.entered,
           \/ gor'.at \notin {"step", "node"}
           \/ gor'.at = "step" /\ gor.steps = Upgrade
           \/ gor'.at = gor.at /\ gor'.todo = gor.todo /\ gor'.bad = gor.bad
    PROVE  OldVersionKept' /\ BackedUp' /\ Reached' /\ Returned'
<1>1. UNCHANGED <<inPlace, disk, backup, proc, meta, version>>
  BY DEF hosts, record
<1>2. OldVersionKept'
  BY <1>1 DEF Inv, OldVersionKept
<1>3. \A n \in Nodes : Target(n)' = Target(n)
  BY <1>1 DEF Target
<1>4. gor.steps = Upgrade => gor.steps \notin {Rest8, Rest3, Back2}
  BY Heads
<1>5. BackedUp'
  BY <1>1, <1>4 DEF Inv, BackedUp
<1>6. \A rest \in {Rest6, Rest5, Rest4, Rest3, Rollback, Back3, Back2} : AtWork(rest)' => AtWork(rest)
  <2>1. gor.steps = Upgrade => gor.steps \notin {Rest6, Rest5, Rest4, Rest3, Rollback, Back3, Back2}
    BY Heads
  <2> QED
    BY <1>1, <2>1 DEF AtWork
<1>7. Reached'
  BY <1>1, <1>3, <1>4, <1>6 DEF Inv, Reached, ReachedAt, Past, Before, AtWork
<1>8. Returned'
  BY <1>1, <1>3, <1>4, <1>6 DEF Inv, Returned, ReturnedAt, AsBefore, Before, AtWork
<1> QED
  BY <1>2, <1>5, <1>7, <1>8

LEMMA ClaimCancelInv == Inv /\ ClaimCancel => Inv'
<1> SUFFICES ASSUME Inv, ClaimCancel PROVE Inv'
  OBVIOUS
<1>1. UNCHANGED <<inPlace, hosts, record, agents, task, nodes, open, bound, gor, unsaved, touched, faults>>
  BY DEF ClaimCancel
<1>2. exec' = "cancel_requested" /\ cancel' = "claimed"
  BY DEF ClaimCancel
<1>3. Types'
  BY <1>1, <1>2 DEF Inv, Types, ExecStatus, hosts, record
<1>4. OldVersionKept' /\ BackedUp' /\ Reached' /\ Returned'
  BY <1>1, <1>3, FrameInv
<1>5. Cancelled' /\ Reported'
  BY <1>1, <1>2 DEF Inv, Cancelled, Reported, record
<1> QED
  BY <1>3, <1>4, <1>5 DEF Inv

LEMMA ExecutionStatus ==
    ASSUME NEW t \in TaskType
    PROVE  /\ upgradeExecutionStatus(t) \in {"running", "pending"} \cup Ended
           /\ upgradeExecutionStatus(t) = "cancelled" => t.status = "cancelled"
BY DEF TaskType, TaskStatus, upgradeExecutionStatus, Ended

LEMMA RequestCancelInv == Inv /\ RequestCancel => Inv'
<1> SUFFICES ASSUME Inv, RequestCancel PROVE Inv'
  OBVIOUS
<1>1. UNCHANGED <<inPlace, hosts, record, agents, exec, open, bound, gor, unsaved, touched, faults>>
  BY DEF RequestCancel
<1>2. \/ cancel' = "none" /\ UNCHANGED <<task, nodes>>
      \/ /\ bound /\ task.status = "pending" /\ cancel' = "cancelled"
         /\ task' = [task EXCEPT !.status = "cancelled", !.done = TRUE]
         /\ nodes' = [n \in Nodes |-> "skipped"]
      \/ cancel' = upgradeExecutionStatus(task) /\ UNCHANGED <<task, nodes>>
  BY DEF RequestCancel
<1>3. Types'
  <2>1. task' \in TaskType
    BY <1>2 DEF Inv, Types, TaskType, TaskStatus, Ended
  <2>2. nodes' \in [Nodes -> NodeStatus]
    BY <1>2 DEF Inv, Types, NodeStatus
  <2>3. cancel' \in {"none", "claimed", "pending", "running"} \cup Ended
    BY <1>2, ExecutionStatus DEF Inv, Types, Ended
  <2> QED
    BY <1>1, <2>1, <2>2, <2>3 DEF Inv, Types, hosts, record
<1>4. OldVersionKept' /\ BackedUp' /\ Reached' /\ Returned'
  BY <1>1, <1>3, FrameInv
<1>5. task'.status = task.status \/ (bound /\ task.status = "pending" /\ task'.status = "cancelled")
  BY <1>2 DEF Inv, Types, TaskType
<1>6. task'.rollback = task.rollback
  BY <1>2 DEF Inv, Types, TaskType
<1>7. cancel' = "cancelled" => task'.status = "cancelled"
  BY <1>2, <1>5, ExecutionStatus DEF Inv, Types, TaskType
<1>8. Cancelled'
  BY <1>1, <1>5, <1>7 DEF Inv, Cancelled, Begun, Working, Settled
<1>9. Reported'
  BY <1>1, <1>5, <1>6 DEF Inv, Reported, record
<1> QED
  BY <1>3, <1>4, <1>8, <1>9 DEF Inv

LEMMA FinishCancelInv == Inv /\ FinishCancel => Inv'
<1> SUFFICES ASSUME Inv, FinishCancel PROVE Inv'
  OBVIOUS
<1>1. UNCHANGED <<inPlace, hosts, record, agents, task, nodes, bound, gor, unsaved, touched, faults>>
  BY DEF FinishCancel
<1>2. /\ cancel' = "none" /\ cancel \in {"running"} \cup Ended
      /\ exec' \in {exec, cancel} /\ open' \in {open, FALSE}
  BY DEF FinishCancel
<1>3. Types'
  BY <1>1, <1>2 DEF Inv, Types, ExecStatus, Ended, hosts, record
<1>4. OldVersionKept' /\ BackedUp' /\ Reached' /\ Returned'
  BY <1>1, <1>3, FrameInv
<1>5. Cancelled' /\ Reported'
  BY <1>1, <1>2 DEF Inv, Cancelled, Reported, record
<1> QED
  BY <1>3, <1>4, <1>5 DEF Inv

LEMMA CreateExecutionInv == Inv /\ CreateExecution => Inv'
<1> SUFFICES ASSUME Inv, CreateExecution PROVE Inv'
  OBVIOUS
<1>1. UNCHANGED <<inPlace, hosts, record, agents, task, nodes, open, bound, cancel, unsaved, touched, faults>>
  BY DEF CreateExecution, world
<1>2. exec' = "pending" /\ gor' = [gor EXCEPT !.at = "create"] /\ exec = "none"
  BY DEF CreateExecution
<1>3. /\ gor' \in Goroutine /\ gor'.at = "create"
      /\ gor'.steps = gor.steps /\ gor'.back = gor.back /\ gor'.paths = gor.paths /\ gor'.entered = gor.entered
      /\ gor'.task = gor.task
  BY <1>2 DEF Inv, Types, Goroutine, Places
<1>4. gor.at = "none"
  BY <1>2 DEF Inv, Types
<1>5. Types'
  BY <1>1, <1>2, <1>3, <1>4 DEF Inv, Types, ExecStatus, hosts, record
<1>6. OldVersionKept' /\ BackedUp' /\ Reached' /\ Returned'
  BY <1>1, <1>3, <1>5, FrameInv
<1>7. Cancelled' /\ Reported'
  BY <1>1, <1>2, <1>3, <1>4 DEF Inv, Cancelled, Reported, record, Working, Settled
<1> QED
  BY <1>5, <1>6, <1>7 DEF Inv

LEMMA StartPlanExecutionWithExecutionInv == Inv /\ StartPlanExecutionWithExecution => Inv'
<1> SUFFICES ASSUME Inv, StartPlanExecutionWithExecution PROVE Inv'
  OBVIOUS
<1>1. UNCHANGED <<inPlace, hosts, record, agents, nodes, open, cancel, unsaved, touched>>
  BY DEF StartPlanExecutionWithExecution, world
<1>2. gor.at \in {"create", "bind"} /\ faults' \in 0..MaxFaults
  BY BoundsAssumption DEF StartPlanExecutionWithExecution, Fault, Inv, Types
<1>3. \/ /\ gor.at = "create" /\ task' = [task EXCEPT !.status = "pending"]
         /\ gor' = [gor EXCEPT !.at = "bind", !.task = task'] /\ UNCHANGED <<exec, bound>>
      \/ /\ gor.at = "create" /\ exec' = (IF exec = "pending" THEN "failed" ELSE exec)
         /\ gor' = [gor EXCEPT !.at = "gone"] /\ UNCHANGED <<task, bound>>
      \/ /\ gor.at = "bind" /\ bound' = TRUE /\ gor' = [gor EXCEPT !.at = "claim"] /\ UNCHANGED <<exec, task>>
      \/ /\ gor.at = "bind" /\ gor' = [gor EXCEPT !.at = "gone"] /\ UNCHANGED <<exec, task, bound>>
  BY DEF StartPlanExecutionWithExecution
<1>4. task' \in TaskType /\ task'.rollback = task.rollback
  BY <1>3 DEF Inv, Types, TaskType, TaskStatus
<1>5. /\ gor' \in Goroutine /\ gor'.at \in {"bind", "claim", "gone"}
      /\ gor'.steps = gor.steps /\ gor'.back = gor.back /\ gor'.paths = gor.paths /\ gor'.entered = gor.entered
      /\ gor'.task \in {gor.task, task'}
  <2>1. gor \in Goroutine /\ "bind" \in Places /\ "gone" \in Places /\ "claim" \in Places
    BY DEF Inv, Types, Places
  <2>2. CASE gor' = [gor EXCEPT !.at = "bind", !.task = task']
    BY <1>4, <2>1, <2>2, MovesWithTask
  <2>3. CASE gor' = [gor EXCEPT !.at = "gone"]
    BY <2>1, <2>3, MovesOn
  <2>4. CASE gor' = [gor EXCEPT !.at = "claim"]
    BY <2>1, <2>4, MovesOn
  <2> QED
    BY <1>3, <2>2, <2>3, <2>4
<1>6. exec' \in {exec, "failed"} /\ bound' \in BOOLEAN /\ exec # "none"
  BY <1>2, <1>3 DEF Inv, Types
<1>7. Types'
  BY <1>1, <1>2, <1>4, <1>5, <1>6 DEF Inv, Types, ExecStatus, Ended, hosts, record
<1>8. OldVersionKept' /\ BackedUp' /\ Reached' /\ Returned'
  BY <1>1, <1>5, <1>7, FrameInv
<1>9. /\ task.status \in {"none", "pending"} /\ ~bound /\ ~touched
  BY <1>2 DEF Inv, Cancelled, Working, Settled
<1>10. /\ gor'.at = "bind" => task'.status = "pending" /\ ~bound'
       /\ gor'.at = "claim" => task'.status = "pending"
       /\ gor'.at = "gone" => task'.status \in {"none", "pending"} /\ ~bound'
  BY <1>3, <1>5, <1>9 DEF Inv, Cancelled, Types, Goroutine, TaskType
<1>11. Cancelled'
  BY <1>1, <1>5, <1>6, <1>9, <1>10 DEF Inv, Cancelled, Working, Settled
<1>12. task'.status \in {"none", "pending"}
  BY <1>5, <1>10
<1>13. Reported'
  BY <1>1, <1>2, <1>4, <1>5, <1>12 DEF Inv, Reported, record, Settled
<1> QED
  BY <1>7, <1>8, <1>11, <1>13 DEF Inv

LEMMA executeTaskInv == Inv /\ executeTask => Inv'
<1> SUFFICES ASSUME Inv, executeTask PROVE Inv'
  OBVIOUS
<1>1. UNCHANGED <<inPlace, hosts, record, agents, nodes, exec, open, bound, cancel, unsaved, touched, faults>>
  BY DEF executeTask, world, control
<1>2. gor.at = "claim" /\ task.status \in {"pending", "cancelled"}
  BY DEF executeTask, Inv, Cancelled
<1>3. \/ /\ task.status = "pending" /\ task' = [task EXCEPT !.status = "running"]
         /\ gor' = [gor EXCEPT !.at = "sync", !.task = task']
      \/ task.status # "pending" /\ task' = task /\ gor' = [gor EXCEPT !.at = "endsync", !.task = task]
  BY DEF executeTask
<1>4. task' \in TaskType /\ task'.rollback = task.rollback
  BY <1>3 DEF Inv, Types, TaskType, TaskStatus
<1>5. /\ gor' \in Goroutine /\ gor'.task = task'
      /\ gor'.steps = gor.steps /\ gor'.back = gor.back /\ gor'.paths = gor.paths /\ gor'.entered = gor.entered
  <2>1. gor \in Goroutine /\ "sync" \in Places /\ "endsync" \in Places
    BY DEF Inv, Types, Places
  <2>2. CASE gor' = [gor EXCEPT !.at = "sync", !.task = task']
    BY <1>4, <2>1, <2>2, MovesWithTask
  <2>3. CASE gor' = [gor EXCEPT !.at = "endsync", !.task = task']
    BY <1>4, <2>1, <2>3, MovesWithTask
  <2> QED
    BY <1>3, <2>2, <2>3
<1>6. \/ gor'.at = "sync" /\ task'.status = "running" /\ task.status = "pending"
      \/ gor'.at = "endsync" /\ task'.status = "cancelled" /\ task.status = "cancelled"
  BY <1>2, <1>3 DEF Inv, Types, Goroutine, TaskType
<1>7. Types'
  BY <1>1, <1>2, <1>4, <1>5, <1>6 DEF Inv, Types, hosts, record
<1>8. OldVersionKept' /\ BackedUp' /\ Reached' /\ Returned'
  BY <1>1, <1>5, <1>6, <1>7, FrameInv
<1>9. ~touched
  BY <1>2 DEF Inv, Cancelled, Working, Settled
<1>10. Cancelled'
  BY <1>1, <1>5, <1>6, <1>9 DEF Inv, Cancelled, Working, Settled, Begun
<1>11. Reported'
  BY <1>1, <1>2, <1>4, <1>5, <1>6 DEF Inv, Reported, record, Settled
<1> QED
  BY <1>7, <1>8, <1>10, <1>11 DEF Inv

LEMMA syncExecutionFromTaskInv == Inv /\ syncExecutionFromTask => Inv'
<1> SUFFICES ASSUME Inv, syncExecutionFromTask PROVE Inv'
  OBVIOUS
<1>1. UNCHANGED <<inPlace, hosts, record, agents, task, nodes, bound, cancel, unsaved, touched, faults>>
  BY DEF syncExecutionFromTask, world
<1>2. \/ gor.at = "sync" /\ gor' = [gor EXCEPT !.seen = exec, !.at = "move"] /\ UNCHANGED <<exec, open>>
      \/ gor.at = "endsync" /\ gor' = [gor EXCEPT !.seen = exec, !.at = "endmove"] /\ UNCHANGED <<exec, open>>
      \/ /\ gor.at = "move" /\ exec' \in {exec, "running"} /\ open' \in {open, FALSE}
         /\ \E at \in {"step", "gone"} : gor' = [gor EXCEPT !.at = at]
      \/ /\ gor.at = "endmove" /\ exec' \in {exec, upgradeExecutionStatus(gor.task)} /\ open' \in {open, FALSE}
         /\ gor' = [gor EXCEPT !.at = "gone"]
  BY DEF syncExecutionFromTask, Moves
<1>3. /\ gor' \in Goroutine /\ gor'.task = gor.task
      /\ gor'.steps = gor.steps /\ gor'.back = gor.back /\ gor'.paths = gor.paths /\ gor'.entered = gor.entered
  <2>1. gor \in Goroutine /\ exec \in ExecStatus
    BY DEF Inv, Types
  <2>2. \/ \E at \in {"move", "endmove"} : gor' = [gor EXCEPT !.seen = exec, !.at = at]
        \/ \E at \in {"step", "gone"} : gor' = [gor EXCEPT !.at = at]
    BY <1>2
  <2>3. CASE \E at \in {"move", "endmove"} : gor' = [gor EXCEPT !.seen = exec, !.at = at]
    <3>1. PICK at \in {"move", "endmove"} : gor' = [gor EXCEPT !.seen = exec, !.at = at]
      BY <2>3
    <3>2. at \in Places
      BY DEF Places
    <3> QED
      BY <2>1, <3>1, <3>2 DEF Goroutine
  <2>4. CASE \E at \in {"step", "gone"} : gor' = [gor EXCEPT !.at = at]
    <3>1. PICK at \in {"step", "gone"} : gor' = [gor EXCEPT !.at = at]
      BY <2>4
    <3>2. at \in Places
      BY DEF Places
    <3> QED
      BY <2>1, <3>1, <3>2, MovesOn
  <2> QED
    BY <2>2, <2>3, <2>4
<1>4. \/ gor.at = "sync" /\ gor'.at = "move" /\ exec' = exec
      \/ gor.at = "endsync" /\ gor'.at = "endmove" /\ exec' = exec
      \/ gor.at = "move" /\ gor'.at \in {"step", "gone"} /\ exec' \in {exec, "running"}
      \/ gor.at = "endmove" /\ gor'.at = "gone" /\ exec' \in {exec, upgradeExecutionStatus(gor.task)}
  <2>1. gor \in Goroutine
    BY DEF Inv, Types
  <2> QED
    BY <1>2, <2>1 DEF Goroutine
<1>5. gor.task \in TaskType /\ exec # "none" /\ open' \in BOOLEAN
  BY <1>2 DEF Inv, Types, Goroutine
<1>6. Types'
  BY <1>1, <1>3, <1>4, <1>5, ExecutionStatus, NotEmpty DEF Inv, Types, ExecStatus, Ended, hosts, record
<1>7. OldVersionKept' /\ BackedUp' /\ Reached' /\ Returned'
  BY <1>1, <1>3, <1>4, <1>6, FrameInv DEF Inv, Types
<1>8. Cancelled'
  <2>1. exec' = "cancelled" => task.status = "cancelled"
    BY <1>4, <1>5, ExecutionStatus DEF Inv, Cancelled
  <2> QED
    BY <1>1, <1>3, <1>4, <2>1 DEF Inv, Cancelled, Working, Settled, Begun
<1>9. Reported'
  BY <1>1, <1>3, <1>4 DEF Inv, Reported, record, Settled
<1> QED
  BY <1>6, <1>7, <1>8, <1>9 DEF Inv

-----------------------------------------------------------------------------
(* Steps of the goroutine that change what it knows, and the task.         *)

\* A task that has begun goes on.
LEMMA GoesOn ==
    ASSUME Inv, gor.at \in Working, gor'.at \in Working \cup Settled,
           task'.status \in Begun, gor'.task.status \in Begun, UNCHANGED <<exec, cancel, bound>>
    PROVE  Cancelled'
<1>1. task.status \in Begun /\ exec # "cancelled" /\ cancel # "cancelled"
  BY DEF Inv, Cancelled, Begun
<1> QED
  BY <1>1 DEF Cancelled, Begun, Working, Settled

\* The task is saved, or the save failed.
LEMMA SavedOrNot ==
    ASSUME Inv, gor.at \in Working, NEW t \in TaskType, t.status \in Begun, task' \in {task, t}
    PROVE  task' \in TaskType /\ task'.status \in Begun /\ task'.rollback \in {task.rollback, t.rollback}
BY DEF Inv, Types, Cancelled

LEMMA breakStepInv == Inv /\ breakStep => Inv'
<1> SUFFICES ASSUME Inv, breakStep PROVE Inv'
  OBVIOUS
<1>1. UNCHANGED <<inPlace, hosts, record, agents, task, nodes, exec, open, bound, cancel, unsaved, touched, faults>>
  BY DEF breakStep, world, control
<1>2. gor.at = "node" /\ gor' = [gor EXCEPT !.at = "fail"]
  BY DEF breakStep
<1>3. /\ gor' \in Goroutine /\ gor'.task = gor.task /\ gor'.at = "fail"
      /\ gor'.steps = gor.steps /\ gor'.back = gor.back /\ gor'.paths = gor.paths /\ gor'.entered = gor.entered
  BY <1>2 DEF Inv, Types, Goroutine, Places
<1>4. Types'
  BY <1>1, <1>2, <1>3 DEF Inv, Types, hosts, record
<1>5. OldVersionKept' /\ BackedUp' /\ Reached' /\ Returned'
  BY <1>1, <1>3, <1>4, FrameInv
<1>6. Cancelled'
  BY <1>1, <1>2, <1>3, GoesOn DEF Inv, Cancelled, Working
<1>7. Reported'
  BY <1>1, <1>2, <1>3 DEF Inv, Reported, record, Settled
<1> QED
  BY <1>4, <1>5, <1>6, <1>7 DEF Inv

\* How a failed step, or the end of a failed task, settles the nodes.
Left(saved, status) == [n \in Nodes |-> IF n \in saved THEN status ELSE nodes[n]]

LEMMA failStepDoes ==
    ASSUME Inv, failStep
    PROVE  \E settled \in SUBSET Nodes, saved \in SUBSET Nodes, lost \in SUBSET Nodes :
             LET t == IF gor.back THEN [gor.task EXCEPT !.rollback = "rollback_failed"]
                      ELSE [gor.task EXCEPT !.status = "failed"] IN
             /\ gor' = [gor EXCEPT !.at = "err", !.task = t, !.todo = {}, !.bad = FALSE, !.settled = settled]
             /\ task' = task \/ (task' = t /\ (gor.back => Nodes \ gor.settled \subseteq saved))
             /\ faults' \in 0..MaxFaults
             /\ nodes' = Left(saved, "rollback_failed") /\ unsaved' = unsaved \cup lost
             /\ settled = IF gor.back THEN gor.settled \cup saved \cup lost ELSE gor.settled
             /\ saved \cap gor.settled = {}
<1> DEFINE t == IF gor.back THEN [gor.task EXCEPT !.rollback = "rollback_failed"] ELSE [gor.task EXCEPT !.status = "failed"]
           g(settled) == [gor EXCEPT !.at = "err", !.task = t, !.todo = {}, !.bad = FALSE, !.settled = settled]
<1>1. gor \in Goroutine /\ gor.settled \subseteq Nodes /\ nodes = [n \in Nodes |-> nodes[n]] /\ unsaved \subseteq Nodes
  BY DEF Inv, Types, Goroutine
<1> DEFINE Does(settled, saved, lost) ==
             /\ gor' = g(settled)
             /\ task' = task \/ (task' = t /\ (gor.back => Nodes \ gor.settled \subseteq saved))
             /\ faults' \in 0..MaxFaults
             /\ nodes' = Left(saved, "rollback_failed") /\ unsaved' = unsaved \cup lost
             /\ settled = IF gor.back THEN gor.settled \cup saved \cup lost ELSE gor.settled
             /\ saved \cap gor.settled = {}
<1>2. faults' \in 0..MaxFaults
  <2>1. faults' = faults \/ (faults < MaxFaults /\ faults' = faults + 1)
    BY DEF failStep, Fault
  <2> QED
    BY <2>1, BoundsAssumption DEF Inv, Types
<1>3. CASE /\ gor' = [gor EXCEPT !.at = "err", !.task = t, !.todo = {}, !.bad = FALSE,
                                 !.settled = IF gor.back THEN Nodes ELSE @]
           /\ IF gor.back THEN finalizeNodeExecutionsRollbackFailed(Unsettled) ELSE UNCHANGED nodes
           /\ task' \in {task, t} /\ UNCHANGED unsaved
  <2>1. CASE gor.back
    <3>1. gor' = g(Nodes) /\ nodes' = Left(Nodes \ gor.settled, "rollback_failed") /\ unsaved' = unsaved \cup {}
      BY <1>1, <1>3, <2>1 DEF finalizeNodeExecutionsRollbackFailed, Unsettled, Left, Goroutine
    <3>2. Nodes = gor.settled \cup (Nodes \ gor.settled) \cup {} /\ (Nodes \ gor.settled) \cap gor.settled = {}
      BY <1>1
    <3> HIDE DEF t, g
    <3>3. Does(Nodes, Nodes \ gor.settled, {})
      BY <1>2, <1>3, <2>1, <3>1, <3>2
    <3> HIDE DEF Does
    <3>4. \E settled \in SUBSET Nodes, saved \in SUBSET Nodes, lost \in SUBSET Nodes : Does(settled, saved, lost)
      BY <3>3
    <3> QED
      BY <3>4 DEF Does, g, t
  <2>2. CASE ~gor.back
    <3>1. gor' = g(gor.settled) /\ nodes' = Left({}, "rollback_failed") /\ unsaved' = unsaved \cup {}
      BY <1>1, <1>3, <2>2 DEF Left, Goroutine
    <3> HIDE DEF t, g
    <3>2. Does(gor.settled, {}, {}) /\ gor.settled \in SUBSET Nodes
      BY <1>1, <1>2, <1>3, <2>2, <3>1
    <3> HIDE DEF Does
    <3>3. \E settled \in SUBSET Nodes, saved \in SUBSET Nodes, lost \in SUBSET Nodes : Does(settled, saved, lost)
      BY <3>2
    <3> QED
      BY <3>3 DEF Does, g, t
  <2> QED
    BY <2>1, <2>2
<1>4. CASE /\ gor.back /\ UNCHANGED task
           /\ \E n \in Unsettled : \E saved \in SUBSET (Unsettled \ {n}) :
                 /\ finalizeNodeExecutionsRollbackFailed(saved)
                 /\ gor' = [gor EXCEPT !.at = "err", !.task = t, !.todo = {}, !.bad = FALSE,
                                       !.settled = @ \cup saved \cup {n}]
                 /\ unsaved' = unsaved \cup {n}
  <2>a. PICK n \in Unsettled : \E saved \in SUBSET (Unsettled \ {n}) :
          /\ finalizeNodeExecutionsRollbackFailed(saved)
          /\ gor' = [gor EXCEPT !.at = "err", !.task = t, !.todo = {}, !.bad = FALSE, !.settled = @ \cup saved \cup {n}]
          /\ unsaved' = unsaved \cup {n}
    BY <1>4
  <2>1. PICK saved \in SUBSET (Unsettled \ {n}) :
          /\ finalizeNodeExecutionsRollbackFailed(saved)
          /\ gor' = [gor EXCEPT !.at = "err", !.task = t, !.todo = {}, !.bad = FALSE, !.settled = @ \cup saved \cup {n}]
          /\ unsaved' = unsaved \cup {n}
    BY <2>a
  <2>2. /\ gor' = g(gor.settled \cup saved \cup {n}) /\ nodes' = Left(saved, "rollback_failed")
        /\ unsaved' = unsaved \cup {n}
    BY <1>1, <2>1 DEF finalizeNodeExecutionsRollbackFailed, Left, Goroutine
  <2>3. saved \in SUBSET Nodes /\ {n} \in SUBSET Nodes /\ saved \cap gor.settled = {}
    BY DEF Unsettled
  <2>4. gor.settled \cup saved \cup {n} \in SUBSET Nodes
    BY <1>1, <2>3
  <2> HIDE DEF t, g
  <2>5. Does(gor.settled \cup saved \cup {n}, saved, {n})
    BY <1>2, <1>4, <2>2, <2>3
  <2> HIDE DEF Does
  <2>6. \E settled \in SUBSET Nodes, gone \in SUBSET Nodes, lost \in SUBSET Nodes : Does(settled, gone, lost)
    BY <2>3, <2>4, <2>5
  <2> QED
    BY <2>6 DEF Does, g, t
<1> QED
  BY <1>1, <1>3, <1>4 DEF failStep, Saved, Goroutine

LEMMA failStepInv == Inv /\ failStep => Inv'
<1> SUFFICES ASSUME Inv, failStep PROVE Inv'
  OBVIOUS
<1> DEFINE t == IF gor.back THEN [gor.task EXCEPT !.rollback = "rollback_failed"] ELSE [gor.task EXCEPT !.status = "failed"]
<1>1. UNCHANGED <<inPlace, hosts, record, agents, exec, open, bound, cancel, touched>> /\ gor.at = "fail"
  BY DEF failStep, world, control
<1>2. PICK settled \in SUBSET Nodes, saved \in SUBSET Nodes, lost \in SUBSET Nodes :
        /\ gor' = [gor EXCEPT !.at = "err", !.task = t, !.todo = {}, !.bad = FALSE, !.settled = settled]
        /\ task' \in {task, t} /\ faults' \in 0..MaxFaults
        /\ nodes' = Left(saved, "rollback_failed") /\ unsaved' = unsaved \cup lost
  <2> HIDE DEF t
  <2> QED
    BY failStepDoes DEF t
<1>3. gor.task \in TaskType /\ gor.task.status \in Begun
  BY <1>1 DEF Inv, Types, Goroutine, Cancelled, Working
<1>4. t \in TaskType /\ t.status \in {gor.task.status, "failed"} /\ t.rollback \in {gor.task.rollback, "rollback_failed"}
  BY <1>3 DEF TaskType, TaskStatus, Ended
<1> HIDE DEF t
<1>5. /\ gor' \in Goroutine /\ gor'.task = t /\ gor'.at = "err"
      /\ gor'.steps = gor.steps /\ gor'.back = gor.back /\ gor'.paths = gor.paths /\ gor'.entered = gor.entered
  BY <1>2, <1>4 DEF Inv, Types, Goroutine, Places
<1>6. task' \in TaskType /\ task'.status \in Begun /\ task'.rollback \in {task.rollback, t.rollback} /\ t.status \in Begun
  BY <1>1, <1>2, <1>3, <1>4, SavedOrNot DEF Begun, Working
<1>7. nodes' \in [Nodes -> NodeStatus] /\ unsaved' \subseteq Nodes
  BY <1>2 DEF Inv, Types, NodeStatus, Left
<1>8. Types'
  BY <1>1, <1>2, <1>5, <1>6, <1>7 DEF Inv, Types, hosts, record
<1>9. OldVersionKept' /\ BackedUp' /\ Reached' /\ Returned'
  BY <1>1, <1>5, <1>8, FrameInv
<1>10. Cancelled'
  BY <1>1, <1>5, <1>6, GoesOn DEF Working
<1>11. Reported'
  <2>1. task.status # "succeeded" /\ gor.task.status # "succeeded"
    BY <1>1 DEF Inv, Reported, Settled
  <2>2. task.rollback # "rollback_succeeded" /\ gor.task.rollback # "rollback_succeeded"
    BY <1>1 DEF Inv, Reported, Settled
  <2>3. task'.status # "succeeded" /\ gor'.task.status # "succeeded"
    BY <1>2, <1>4, <1>5, <2>1
  <2>4. task'.rollback # "rollback_succeeded" /\ gor'.task.rollback # "rollback_succeeded"
    BY <1>4, <1>5, <1>6, <2>2
  <2> QED
    BY <1>1, <1>5, <2>3, <2>4 DEF Inv, Reported, record
<1> QED
  BY <1>8, <1>9, <1>10, <1>11 DEF Inv

LEMMA SettleFailureDoes ==
    ASSUME Inv, SettleFailure
    PROVE  /\ faults' \in 0..MaxFaults
           /\ \E saved \in SUBSET Nodes, lost \in SUBSET Nodes :
                /\ nodes' = Left(saved, IF gor.back THEN "rollback_failed" ELSE "failed") /\ unsaved' = unsaved \cup lost
                /\ saved \cup lost = IF gor.back THEN Nodes \ gor.settled ELSE Nodes
<1>1. faults' \in 0..MaxFaults
  BY BoundsAssumption DEF SettleFailure, Fault, Inv, Types
<1> DEFINE left == IF gor.back THEN Unsettled ELSE Nodes
<1>2. PICK saved \in SUBSET left :
        /\ IF gor.back THEN finalizeNodeExecutionsRollbackFailed(saved) ELSE finalizeNodeExecutionsFailed(saved)
        /\ unsaved' = unsaved \cup (left \ saved)
  BY DEF SettleFailure
<1>3. nodes' = Left(saved, IF gor.back THEN "rollback_failed" ELSE "failed")
  BY <1>2 DEF Left, finalizeNodeExecutionsRollbackFailed, finalizeNodeExecutionsFailed
<1>4. /\ saved \in SUBSET Nodes /\ left \ saved \in SUBSET Nodes
      /\ saved \cup (left \ saved) = IF gor.back THEN Nodes \ gor.settled ELSE Nodes
  BY DEF Unsettled
<1> QED
  BY <1>1, <1>2, <1>3, <1>4

LEMMA SettleFailureInv == Inv /\ SettleFailure => Inv'
<1> SUFFICES ASSUME Inv, SettleFailure PROVE Inv'
  OBVIOUS
<1> DEFINE t == [gor.task EXCEPT !.status = "failed", !.rollback = IF gor.back THEN "rollback_failed" ELSE "skipped"]
<1>1. UNCHANGED <<inPlace, hosts, record, agents, task, exec, open, bound, cancel, touched>>
  BY DEF SettleFailure, world, control
<1>2. /\ gor.at = "err" /\ faults' \in 0..MaxFaults
      /\ gor' = [gor EXCEPT !.at = "close", !.task.status = "failed",
                            !.task.rollback = IF gor.back THEN "rollback_failed" ELSE "skipped"]
  BY SettleFailureDoes DEF SettleFailure
<1>3. gor.task \in TaskType
  BY DEF Inv, Types, Goroutine
<1>4. t \in TaskType /\ t.status = "failed" /\ t.rollback # "rollback_succeeded"
  BY <1>3 DEF TaskType, TaskStatus, Ended
<1>5. gor' = [gor EXCEPT !.at = "close", !.task = t]
  BY <1>2 DEF Inv, Types, Goroutine, TaskType
<1> HIDE DEF t
<1>6. /\ gor' \in Goroutine /\ gor'.task = t /\ gor'.at = "close"
      /\ gor'.steps = gor.steps /\ gor'.back = gor.back /\ gor'.paths = gor.paths /\ gor'.entered = gor.entered
  BY <1>4, <1>5 DEF Inv, Types, Goroutine, Places
<1>7. nodes' \in [Nodes -> NodeStatus] /\ unsaved' \subseteq Nodes
  BY SettleFailureDoes DEF Inv, Types, NodeStatus, Left
<1>8. Types'
  BY <1>1, <1>2, <1>6, <1>7 DEF Inv, Types, hosts, record
<1>9. OldVersionKept' /\ BackedUp' /\ Reached' /\ Returned'
  BY <1>1, <1>6, <1>8, FrameInv
<1>10. Cancelled'
  BY <1>1, <1>2, <1>4, <1>6, GoesOn DEF Inv, Cancelled, Working, Begun
<1>11. Reported'
  BY <1>1, <1>2, <1>4, <1>6 DEF Inv, Reported, record, Settled
<1> QED
  BY <1>8, <1>9, <1>10, <1>11 DEF Inv

LEMMA recordFailureClosureStepInv == Inv /\ recordFailureClosureStep => Inv'
<1> SUFFICES ASSUME Inv, recordFailureClosureStep PROVE Inv'
  OBVIOUS
<1>1. UNCHANGED <<inPlace, hosts, record, agents, nodes, exec, open, bound, cancel, unsaved, touched>>
  BY DEF recordFailureClosureStep, world, control
<1>2. /\ gor.at \in {"close", "last"} /\ faults' \in 0..MaxFaults /\ task' \in {task, gor'.task}
      /\ gor' \in {[gor EXCEPT !.at = "last"], [gor EXCEPT !.at = "endsync", !.task.done = TRUE]}
  BY BoundsAssumption DEF recordFailureClosureStep, Fault, Saved, Inv, Types
<1>3. gor.task \in TaskType /\ gor.task.status \in Begun
  BY <1>2 DEF Inv, Types, Goroutine, Cancelled, Working
<1>4. /\ gor'.task \in TaskType /\ gor'.task.status = gor.task.status /\ gor'.task.rollback = gor.task.rollback
      /\ gor'.at \in {"last", "endsync"} /\ gor' \in Goroutine
      /\ gor'.steps = gor.steps /\ gor'.back = gor.back /\ gor'.paths = gor.paths /\ gor'.entered = gor.entered
  <2>1. CASE gor' = [gor EXCEPT !.at = "last"]
    BY <1>3, <2>1 DEF Inv, Types, Goroutine, Places
  <2>2. CASE gor' = [gor EXCEPT !.at = "endsync", !.task.done = TRUE]
    <3> DEFINE t == [gor.task EXCEPT !.done = TRUE]
    <3>1. t \in TaskType /\ t.status = gor.task.status /\ t.rollback = gor.task.rollback
      BY <1>3 DEF TaskType
    <3>2. gor' = [gor EXCEPT !.at = "endsync", !.task = t]
      BY <2>2 DEF Inv, Types, Goroutine
    <3> HIDE DEF t
    <3> QED
      BY <3>1, <3>2 DEF Inv, Types, Goroutine, Places
  <2> QED
    BY <1>2, <2>1, <2>2
<1>5. task' \in TaskType /\ task'.status \in Begun /\ task'.rollback \in {task.rollback, gor.task.rollback}
  BY <1>2, <1>3, <1>4, SavedOrNot DEF Working
<1>6. Types'
  BY <1>1, <1>2, <1>4, <1>5 DEF Inv, Types, hosts, record
<1>7. OldVersionKept' /\ BackedUp' /\ Reached' /\ Returned'
  BY <1>1, <1>4, <1>6, FrameInv
<1>8. Cancelled'
  BY <1>1, <1>2, <1>3, <1>4, <1>5, GoesOn DEF Working, Settled
<1>9. Reported'
  <2>1. task.status # "succeeded" /\ gor.task.status # "succeeded"
    BY <1>2 DEF Inv, Reported, Settled
  <2>2. task'.status # "succeeded"
    BY <1>2, <1>4, <2>1
  <2> QED
    BY <1>1, <1>2, <1>4, <1>5, <2>1, <2>2 DEF Inv, Reported, record, Settled
<1> QED
  BY <1>6, <1>7, <1>8, <1>9 DEF Inv

LEMMA FinishSuccessInv == Inv /\ FinishSuccess => Inv'
<1> SUFFICES ASSUME Inv, FinishSuccess PROVE Inv'
  OBVIOUS
<1> DEFINE t == [gor.task EXCEPT !.status = "succeeded", !.rollback = "pending", !.done = TRUE]
<1>1. UNCHANGED <<inPlace, hosts, record, agents, exec, open, bound, cancel, unsaved, touched>>
  BY DEF FinishSuccess, world, control
<1>2. faults' \in 0..MaxFaults /\ nodes' \in [Nodes -> NodeStatus]
  BY BoundsAssumption DEF FinishSuccess, Fault, Inv, Types, NodeStatus
<1>3. \/ gor.at = "won" /\ gor' = [gor EXCEPT !.at = "commit"] /\ task' = task
      \/ gor.at = "commit" /\ task' = t /\ gor' = [gor EXCEPT !.at = "endsync", !.task = t]
      \/ gor.at \in {"won", "commit"} /\ gor' = [gor EXCEPT !.at = "gone"] /\ task' = task
  BY DEF FinishSuccess, Saved
<1>4. gor.task \in TaskType /\ gor.task.status \in Begun /\ task.status \in Begun /\ ~gor.back /\ gor.steps = <<>>
  BY <1>3 DEF Inv, Types, Goroutine, Cancelled, Working, Reported
<1>5. t \in TaskType /\ t.status = "succeeded" /\ t.rollback = "pending"
  BY <1>4 DEF TaskType, TaskStatus, Ended
<1> HIDE DEF t
<1>6. /\ gor' \in Goroutine
      /\ gor'.steps = gor.steps /\ gor'.back = gor.back /\ gor'.paths = gor.paths /\ gor'.entered = gor.entered
  <2>1. gor \in Goroutine /\ "commit" \in Places /\ "gone" \in Places /\ "endsync" \in Places
    BY DEF Inv, Types, Places
  <2>2. CASE gor' = [gor EXCEPT !.at = "endsync", !.task = t]
    BY <1>5, <2>1, <2>2, MovesWithTask
  <2>3. CASE gor' = [gor EXCEPT !.at = "commit"]
    BY <2>1, <2>3, MovesOn
  <2>4. CASE gor' = [gor EXCEPT !.at = "gone"]
    BY <2>1, <2>4, MovesOn
  <2> QED
    BY <1>3, <2>2, <2>3, <2>4
<1>7. \/ gor.at = "won" /\ gor'.at = "commit" /\ gor'.task = gor.task /\ task' = task
      \/ gor'.at = "endsync" /\ gor'.task = t /\ task' = t
      \/ gor'.at = "gone" /\ gor'.task = gor.task /\ task' = task
  BY <1>3 DEF Inv, Types, Goroutine
<1>8. Types'
  BY <1>1, <1>2, <1>3, <1>5, <1>6, <1>7 DEF Inv, Types, hosts, record
<1>9. OldVersionKept' /\ BackedUp' /\ Reached' /\ Returned'
  BY <1>1, <1>6, <1>7, <1>8, FrameInv
<1>10. Cancelled'
  BY <1>1, <1>3, <1>4, <1>5, <1>6, <1>7, GoesOn DEF Working, Settled, Begun
<1>11. Reported'
  BY <1>1, <1>3, <1>4, <1>5, <1>6, <1>7 DEF Inv, Reported, record, Settled
<1> QED
  BY <1>8, <1>9, <1>10, <1>11 DEF Inv

LEMMA RestartInv == Inv /\ Restart => Inv'
<1> SUFFICES ASSUME Inv, Restart PROVE Inv'
  OBVIOUS
<1>1. UNCHANGED <<inPlace, hosts, record, agents, task, nodes, exec, open, bound, unsaved, touched>>
  BY DEF Restart, world
<1>2. /\ gor.at \notin {"none", "gone"} /\ faults' \in 0..MaxFaults /\ cancel' = "none"
      /\ gor' = [gor EXCEPT !.at = "gone"]
  BY BoundsAssumption DEF Restart, Fault, Inv, Types
<1>3. /\ gor' \in Goroutine /\ gor'.task = gor.task /\ gor'.at = "gone"
      /\ gor'.steps = gor.steps /\ gor'.back = gor.back /\ gor'.paths = gor.paths /\ gor'.entered = gor.entered
  BY <1>2 DEF Inv, Types, Goroutine, Places
<1>4. Types'
  BY <1>1, <1>2, <1>3 DEF Inv, Types, hosts, record
<1>5. OldVersionKept' /\ BackedUp' /\ Reached' /\ Returned'
  BY <1>1, <1>3, <1>4, FrameInv
<1>6. Cancelled' /\ Reported'
  BY <1>1, <1>2, <1>3 DEF Inv, Cancelled, Reported, record, Working, Settled
<1> QED
  BY <1>4, <1>5, <1>6 DEF Inv

LEMMA StartRollbackInv == Inv /\ StartRollback => Inv'
<1> SUFFICES ASSUME Inv, StartRollback PROVE Inv'
  OBVIOUS
<1> DEFINE t == [gor.task EXCEPT !.status = "failed", !.rollback = "rollback_running"]
           s == IF rollsBackBeforeCutover THEN KeptRunning ELSE Rollback
<1>1. UNCHANGED <<inPlace, disk, backup, proc, meta, version, agents, nodes, exec, open, bound, cancel, unsaved, touched>>
  BY DEF StartRollback, world, control, hosts, record
<1>2. /\ gor.at = "err" /\ ~gor.back /\ faults' \in 0..MaxFaults
      /\ \/ task' = t /\ gor' = [gor EXCEPT !.task = t, !.back = TRUE, !.at = "step", !.steps = s]
         \/ task' = task /\ gor' = [gor EXCEPT !.at = "gone"]
  BY BoundsAssumption DEF StartRollback, Fault, Saved, Inv, Types
<1>3. gor.task \in TaskType /\ gor.task.status \in Begun /\ task.status \in Begun
  BY <1>2 DEF Inv, Types, Goroutine, Cancelled, Working
<1>4. t \in TaskType /\ t.status = "failed" /\ t.rollback = "rollback_running"
  BY <1>3 DEF TaskType, TaskStatus, Ended
<1>5. s = (IF AsBefore THEN KeptRunning ELSE Rollback)
  BY DEF rollsBackBeforeCutover, AsBefore
<1> HIDE DEF t, s
<1>6. CASE task' = t /\ gor' = [gor EXCEPT !.task = t, !.back = TRUE, !.at = "step", !.steps = s]
  <2>1. /\ gor' \in Goroutine /\ gor'.task = t /\ gor'.at = "step" /\ gor'.back /\ gor'.steps = s
        /\ gor'.paths = gor.paths /\ gor'.entered = gor.entered
    BY <1>4, <1>5, <1>6 DEF Inv, Types, Goroutine, Places, Backward
  <2>2. s \in {KeptRunning, Rollback} /\ s \in Backward /\ s # <<>>
    BY <1>5, NotEmpty DEF Backward
  <2>3. s \notin {Upgrade, Rest8, Rest7, Rest6, Rest5, Rest4, Rest3, Rest2, Rest1, Back3, Back2, Back1, Kept1}
    BY <2>2, Heads
  <2>4. Types'
    BY <1>1, <1>2, <1>4, <1>6, <2>1, <2>2, <2>3 DEF Inv, Types
  <2>5. \A n \in Nodes : (IF n \in gor.paths THEN backup[n] = "old" ELSE disk[n]["src"] = "old")
    BY DEF Inv, BackedUp
  <2>6. OldVersionKept' /\ BackedUp'
    BY <1>1, <2>1, <2>3, <2>5 DEF Inv, OldVersionKept, BackedUp
  <2>7. AsBefore' <=> AsBefore
    BY <2>1 DEF AsBefore
  <2>8. Reached'
    BY <1>1, <2>1, <2>3 DEF Inv, Reached, ReachedAt, Past, Before, AtWork
  <2>9. s = KeptRunning <=> AsBefore
    BY <1>5, Heads
  <2>10. Returned'
    <3>1. AsBefore => version = "old" /\ \A n \in Nodes : /\ disk[n]["src"] = "old" /\ meta[n] = "src"
                                                           /\ proc[n].dir = "src" /\ proc[n].ver = "old" /\ proc[n].st # "off"
      BY DEF Inv, Returned, ReturnedAt
    <3>2. \A n \in Nodes : proc[n].dir # meta[n] => proc[n].st = "off"
      BY DEF Inv, Returned, ReturnedAt
    <3>3. s = KeptRunning \/ s = Rollback
      BY <2>2
    <3>4. ~AtWork(Rollback)' /\ ~AtWork(Back3)' /\ ~AtWork(Back2)'
      BY <2>1 DEF AtWork
    <3>5. /\ gor'.steps \in {KeptRunning, Kept1} <=> AsBefore'
          /\ gor'.steps \in {Rollback, Back3, Back2, Back1} <=> ~AsBefore'
          /\ gor'.steps \notin {Back3, Back2, Back1, <<>>}
      <4>1. KeptRunning # Rollback
        BY Heads
      <4> QED
        BY <2>1, <2>2, <2>3, <2>7, <2>9, <3>3, <4>1
    <3> HIDE <2>2, <2>3, <2>9, <3>3
    <3> QED
      BY <1>1, <2>1, <2>7, <3>1, <3>2, <3>4, <3>5 DEF Returned, ReturnedAt
  <2>11. Cancelled'
    BY <1>1, <1>2, <1>4, <1>6, <2>1, GoesOn DEF Working, Begun
  <2>12. Reported'
    BY <1>1, <1>4, <1>6, <2>1 DEF Inv, Reported
  <2> QED
    BY <2>4, <2>6, <2>8, <2>10, <2>11, <2>12 DEF Inv
<1>7. CASE task' = task /\ gor' = [gor EXCEPT !.at = "gone"]
  <2>1. /\ gor' \in Goroutine /\ gor'.task = gor.task /\ gor'.at = "gone"
        /\ gor'.steps = gor.steps /\ gor'.back = gor.back /\ gor'.paths = gor.paths /\ gor'.entered = gor.entered
    BY <1>7 DEF Inv, Types, Goroutine, Places
  <2>2. Types'
    BY <1>1, <1>2, <1>7, <2>1 DEF Inv, Types
  <2>3. OldVersionKept' /\ BackedUp' /\ Reached' /\ Returned'
    BY <1>1, <2>1, <2>2, FrameInv DEF hosts, record
  <2>4. Cancelled'
    BY <1>1, <1>2, <1>3, <1>7, <2>1, GoesOn DEF Working, Settled
  <2>5. Reported'
    BY <1>1, <1>2, <1>7, <2>1 DEF Inv, Reported, Settled
  <2> QED
    BY <2>2, <2>3, <2>4, <2>5 DEF Inv
<1> QED
  BY <1>2, <1>6, <1>7

\* The start of a step: every node is before it.
LEMMA startStepInv == Inv /\ startStep => Inv'
<1> SUFFICES ASSUME Inv, startStep PROVE Inv'
  OBVIOUS
<1> DEFINE t == IF gor.back THEN [gor.task EXCEPT !.rollback = "rollback_running"] ELSE [gor.task EXCEPT !.status = "running"]
           entered == gor.entered \/ Step = "STOP_CLUSTER"
           todo == IF Step \in NodeSteps THEN Nodes ELSE {}
<1>1. UNCHANGED <<inPlace, disk, backup, proc, meta, version, agents, nodes, exec, open, bound, cancel, unsaved>>
  BY DEF startStep, world, control, hosts, record
<1>2. gor.at = "step" /\ faults' \in 0..MaxFaults /\ touched' = TRUE
  BY BoundsAssumption DEF startStep, Fault, Inv, Types
<1>3. \/ gor' = [gor EXCEPT !.task = t, !.entered = entered, !.bad = FALSE, !.todo = todo, !.at = "node"] /\ task' = t
      \/ gor' = [gor EXCEPT !.task = t, !.entered = entered, !.bad = FALSE, !.todo = {}, !.at = "err"] /\ task' = task
  BY DEF startStep, Saved, Inv, Types, Goroutine
<1>4. gor.task \in TaskType /\ gor.task.status \in Begun /\ task.status \in Begun
  BY <1>2 DEF Inv, Types, Goroutine, Cancelled, Working
<1>5. /\ t \in TaskType /\ t.status \in {gor.task.status, "running"} /\ t.rollback \in {gor.task.rollback, "rollback_running"}
  BY <1>4 DEF TaskType, TaskStatus
<1>6. gor.steps # <<>> /\ gor.steps \in Forward \cup Backward /\ gor.steps \in (IF gor.back THEN Backward ELSE Forward)
  BY <1>2 DEF Inv, Types, Goroutine
<1>7. entered \in BOOLEAN /\ (entered <=> gor.entered \/ gor.steps = Rest5)
  BY <1>6, StepIs DEF Inv, Types, Goroutine
<1>8. todo \subseteq Nodes
  OBVIOUS
<1>9. gor.steps \in {Rest8, Rest6, Rest5, Rest4, Rest3, Rollback, Back3, Back2} => todo = Nodes
  BY <1>6, StepIs DEF NodeSteps
<1> HIDE DEF t, entered, todo
<1>10. /\ gor' \in Goroutine /\ gor'.task = t /\ (gor'.entered <=> entered) /\ ~gor'.bad
       /\ gor'.steps = gor.steps /\ gor'.back = gor.back /\ gor'.paths = gor.paths
  <2>1. gor \in Goroutine /\ entered \in BOOLEAN
    BY <1>7 DEF Inv, Types
  <2>2. CASE gor' = [gor EXCEPT !.task = t, !.entered = entered, !.bad = FALSE, !.todo = todo, !.at = "node"]
    BY <1>5, <1>8, <2>1, <2>2 DEF Goroutine, Places
  <2>3. CASE gor' = [gor EXCEPT !.task = t, !.entered = entered, !.bad = FALSE, !.todo = {}, !.at = "err"]
    BY <1>5, <2>1, <2>3 DEF Goroutine, Places
  <2> QED
    BY <1>3, <2>2, <2>3
<1>11. \/ gor'.at = "node" /\ gor'.todo = todo /\ task' = t
       \/ gor'.at = "err" /\ task' = task
  <2>1. gor \in Goroutine
    BY DEF Inv, Types
  <2> QED
    BY <1>3, <2>1 DEF Goroutine
<1>12. Types'
  BY <1>1, <1>2, <1>5, <1>6, <1>10, <1>11 DEF Inv, Types
<1>13. /\ gor.steps = Upgrade <=> Step = "PRECHECK"
       /\ gor.steps = Rest8 <=> Step = "BACKUP"
       /\ gor.steps = Rest6 <=> Step = "MERGE_CONFIG"
       /\ gor.steps = Rest5 <=> Step = "STOP_CLUSTER"
       /\ gor.steps = Rest4 <=> Step = "SWITCH_VERSION"
       /\ gor.steps = Rest3 <=> Step = "START_CLUSTER"
       /\ gor.steps = Rollback <=> Step = "ROLLBACK_PREPARE"
       /\ gor.steps = Back3 <=> Step = "ROLLBACK_RESTORE"
       /\ gor.steps = Back2 <=> Step = "ROLLBACK_RESTART"
       /\ gor.steps = Back1 <=> Step = "ROLLBACK_VERIFY"
       /\ gor.steps = KeptRunning <=> Step = "KEEP_RUNNING"
       /\ gor.steps = Kept1 <=> Step = "VERIFY_SOURCE"
  BY <1>6, StepIs
<1>14. OldVersionKept' /\ BackedUp'
  BY <1>1, <1>2, <1>9, <1>10, <1>11, <1>13 DEF Inv, Types, OldVersionKept, BackedUp
<1>15. \A rest \in {Rest6, Rest5, Rest4, Rest3, Rollback, Back3, Back2} : ~AtWork(rest) /\ (AtWork(rest)' => gor'.todo = Nodes)
  BY <1>2, <1>9, <1>10, <1>11 DEF AtWork
<1>16. Reached'
  <2> SUFFICES ASSUME NEW n \in Nodes PROVE ReachedAt(n)'
    BY DEF Reached
  <2>1. Target(n)' = Target(n)
    BY <1>1 DEF Target
  <2>2. ReachedAt(n)
    BY DEF Inv, Reached
  <2>3. \A rest \in {Rest6, Rest5, Rest4, Rest3} : ~(AtWork(rest)' /\ n \notin gor'.todo)
    BY <1>15
  <2>4. AtWork(Rest3)' => gor.steps = Rest3
    BY <1>10 DEF AtWork
  <2>5. /\ Past("MERGE_CONFIG", Rest6, n)' => Past("MERGE_CONFIG", Rest6, n)
        /\ Past("SWITCH_VERSION", Rest4, n)' => Past("SWITCH_VERSION", Rest4, n)
        /\ Past("START_CLUSTER", Rest3, n)' => Past("START_CLUSTER", Rest3, n)
    BY <1>10, <2>3 DEF Past
  <2> QED
    BY <1>1, <1>2, <1>10, <2>1, <2>2, <2>3, <2>4, <2>5 DEF ReachedAt
<1>17. Returned'
  <2>1. AsBefore' => AsBefore
    BY <1>7, <1>10 DEF AsBefore
  <2>2. gor.steps \in {KeptRunning, Kept1} => AsBefore'
    BY <1>7, <1>10, <1>13 DEF AsBefore, Inv, Returned
  <2>3. ~gor'.back /\ ~gor'.entered => gor.steps \in Before("STOP_CLUSTER")
    BY <1>2, <1>7, <1>10 DEF Inv, Returned
  <2>4. gor.steps \in {Rollback, Back3, Back2, Back1} => ~AsBefore'
    BY <2>1 DEF Inv, Returned
  <2>5. ASSUME NEW n \in Nodes PROVE ReturnedAt(n)'
    <3>1. \A rest \in {Rollback, Back3, Back2} : ~(AtWork(rest)' /\ n \notin gor'.todo)
      BY <1>15
    <3>2. AtWork(Back2)' => gor.steps = Back2
      BY <1>10 DEF AtWork
    <3>3. ReturnedAt(n)
      BY DEF Inv, Returned
    <3> QED
      BY <1>1, <1>2, <1>10, <2>1, <3>1, <3>2, <3>3 DEF ReturnedAt
  <2>6. AsBefore \/ gor.steps \in {Back2, Back1} \/ (gor.back /\ gor.steps = <<>>) => version = "old"
    BY DEF Inv, Returned
  <2>7. gor.steps = Rest5 => gor'.entered
    BY <1>7, <1>10
  <2> QED
    BY <1>1, <1>10, <2>1, <2>2, <2>3, <2>4, <2>5, <2>6, <2>7 DEF Returned, Before
<1>18. Cancelled'
  BY <1>1, <1>2, <1>4, <1>5, <1>10, <1>11, GoesOn DEF Working, Begun
<1>19. Reported'
  <2>1. gor.task.status # "succeeded" /\ task.status # "succeeded"
    BY <1>2 DEF Inv, Reported, Settled
  <2>2. gor.task.rollback # "rollback_succeeded" /\ task.rollback # "rollback_succeeded"
    BY <1>2 DEF Inv, Reported, Settled
  <2> QED
    BY <1>1, <1>5, <1>10, <1>11, <2>1, <2>2 DEF Inv, Reported
<1> QED
  BY <1>12, <1>14, <1>16, <1>17, <1>18, <1>19 DEF Inv

-----------------------------------------------------------------------------
(* The hosts.                                                              *)

\* Nothing but who is online changes.
LEMMA AgentsInv ==
    ASSUME Inv, agents' \subseteq Nodes, faults' \in 0..MaxFaults,
           UNCHANGED <<inPlace, hosts, record, task, nodes, control, gor, unsaved, touched>>
    PROVE  Inv'
<1>1. UNCHANGED <<exec, open, bound, cancel, version>>
  BY DEF control, record
<1>2. Types'
  BY <1>1 DEF Inv, Types, hosts, record
<1>3. OldVersionKept' /\ BackedUp' /\ Reached' /\ Returned'
  BY <1>2, FrameInv
<1>4. Cancelled' /\ Reported'
  BY <1>1 DEF Inv, Cancelled, Reported
<1> QED
  BY <1>2, <1>3, <1>4 DEF Inv

\* A process that dies or is restarted was not stopped, and is restarted from
\* what its directory holds.
LEMMA ProcessInv ==
    ASSUME Inv, faults' \in 0..MaxFaults,
           UNCHANGED <<inPlace, disk, backup, record, agents, task, nodes, control, gor, unsaved, touched>>,
           proc' \in [Nodes -> [st : {"up", "off", "dead"}, dir : Dirs, ver : Whole]],
           \A n \in Nodes : /\ proc'[n].dir = proc[n].dir
                            /\ proc'[n].st = "off" <=> proc[n].st = "off"
                            /\ proc'[n].ver \in {proc[n].ver, disk[n][proc[n].dir]}
    PROVE  Inv'
<1>1. UNCHANGED <<exec, open, bound, cancel, meta, version>>
  BY DEF control, record
<1>2. Types'
  BY <1>1 DEF Inv, Types
<1>3. OldVersionKept' /\ BackedUp'
  BY DEF Inv, OldVersionKept, BackedUp
<1>4. Reached'
  <2> SUFFICES ASSUME NEW n \in Nodes PROVE ReachedAt(n)'
    BY DEF Reached
  <2>1. ReachedAt(n)
    BY DEF Inv, Reached
  <2>2. Target(n)' = Target(n)
    BY DEF Target
  <2>3. Past("START_CLUSTER", Rest3, n) => Past("MERGE_CONFIG", Rest6, n)
    <3>1. Rest3 \notin {Upgrade, Rest8, Rest7, Rest6}
      BY Heads
    <3> QED
      BY <3>1 DEF Past, Before, AtWork
  <2>4. /\ Past("MERGE_CONFIG", Rest6, n)' = Past("MERGE_CONFIG", Rest6, n)
        /\ Past("SWITCH_VERSION", Rest4, n)' = Past("SWITCH_VERSION", Rest4, n)
        /\ Past("START_CLUSTER", Rest3, n)' = Past("START_CLUSTER", Rest3, n)
    BY DEF Past, AtWork
  <2>5. \A rest : AtWork(rest)' = AtWork(rest)
    BY DEF AtWork
  <2>6. Past("START_CLUSTER", Rest3, n) =>
          proc'[n].dir = Target(n) /\ proc'[n].ver = "new" /\ proc'[n].st # "off"
    BY <2>1, <2>3 DEF ReachedAt
  <2> QED
    BY <1>1, <2>1, <2>2, <2>4, <2>5, <2>6 DEF ReachedAt
<1>5. Returned'
  <2>1. AsBefore' = AsBefore
    BY DEF AsBefore
  <2>2. ASSUME NEW n \in Nodes PROVE ReturnedAt(n)'
    <3>1. ReturnedAt(n)
      BY DEF Inv, Returned
    <3>2. \A rest : AtWork(rest)' = AtWork(rest)
      BY DEF AtWork
    <3>3. AtWork(Back2) => gor.steps = Back2
      BY DEF AtWork
    <3> QED
      BY <1>1, <2>1, <3>1, <3>2, <3>3 DEF ReturnedAt
  <2> QED
    BY <1>1, <2>1, <2>2 DEF Inv, Returned
<1>6. Cancelled' /\ Reported'
  BY <1>1 DEF Inv, Cancelled, Reported
<1> QED
  BY <1>2, <1>3, <1>4, <1>5, <1>6 DEF Inv

LEMMA EnvironmentInv == Inv /\ Environment => Inv'
<1> SUFFICES ASSUME Inv, Environment PROVE Inv'
  OBVIOUS
<1>1. ASSUME NEW n \in Nodes, AgentGoesOffline(n) PROVE Inv'
  <2>1. agents' \subseteq Nodes /\ faults' \in 0..MaxFaults
    BY <1>1, BoundsAssumption DEF AgentGoesOffline, Fault, Inv, Types
  <2> QED
    BY <1>1, <2>1, AgentsInv DEF AgentGoesOffline
<1>2. ASSUME NEW n \in Nodes, AgentReturns(n) PROVE Inv'
  <2>1. agents' \subseteq Nodes /\ faults' \in 0..MaxFaults
    BY <1>2 DEF AgentReturns, Inv, Types
  <2> QED
    BY <1>2, <2>1, AgentsInv DEF AgentReturns
<1>3. ASSUME NEW n \in Nodes, ProcessDies(n) PROVE Inv'
  <2>1. faults' \in 0..MaxFaults /\ proc' = [proc EXCEPT ![n].st = "dead"] /\ proc[n].st = "up"
    BY <1>3, BoundsAssumption DEF ProcessDies, Fault, Inv, Types
  <2>2. proc \in [Nodes -> [st : {"up", "off", "dead"}, dir : Dirs, ver : Whole]]
    BY DEF Inv, Types
  <2>3. proc' \in [Nodes -> [st : {"up", "off", "dead"}, dir : Dirs, ver : Whole]]
    BY <2>1, <2>2
  <2>4. \A m \in Nodes : /\ proc'[m].dir = proc[m].dir
                         /\ proc'[m].st = "off" <=> proc[m].st = "off"
                         /\ proc'[m].ver \in {proc[m].ver, disk[m][proc[m].dir]}
    BY <2>1, <2>2
  <2> QED
    BY <1>3, <2>1, <2>3, <2>4, ProcessInv DEF ProcessDies
<1>4. ASSUME NEW n \in Nodes, ProcessRestarts(n) PROVE Inv'
  <2>1. /\ faults' \in 0..MaxFaults /\ proc' = [proc EXCEPT ![n].st = "up", ![n].ver = disk[n][proc[n].dir]]
        /\ proc[n].st = "dead" /\ disk[n][proc[n].dir] \in Whole
    BY <1>4 DEF ProcessRestarts, Inv, Types
  <2>2. proc \in [Nodes -> [st : {"up", "off", "dead"}, dir : Dirs, ver : Whole]]
    BY DEF Inv, Types
  <2>3. /\ DOMAIN proc' = Nodes /\ \A m \in Nodes \ {n} : proc'[m] = proc[m]
        /\ proc'[n] = [st |-> "up", dir |-> proc[n].dir, ver |-> disk[n][proc[n].dir]]
    BY <2>1, <2>2
  <2>4. proc' \in [Nodes -> [st : {"up", "off", "dead"}, dir : Dirs, ver : Whole]]
    BY <2>1, <2>2, <2>3
  <2>5. \A m \in Nodes : /\ proc'[m].dir = proc[m].dir
                         /\ proc'[m].st = "off" <=> proc[m].st = "off"
                         /\ proc'[m].ver \in {proc[m].ver, disk[m][proc[m].dir]}
    BY <2>1, <2>2, <2>3
  <2> QED
    BY <1>4, <2>1, <2>4, <2>5, ProcessInv DEF ProcessRestarts
<1> QED
  BY <1>1, <1>2, <1>3, <1>4, RestartInv DEF Environment

-----------------------------------------------------------------------------
(* The end of a step.                                                      *)

LEMMA RecordingIs ==
    ASSUME Inv, gor.at = "node", NEW done \in SUBSET Nodes, Recording(done)
    PROVE  /\ meta' \in [Nodes -> Dirs] /\ version' \in {"old", "new"}
           /\ gor.steps # Back3 => meta' = meta
           /\ gor.steps = Back3 => \A n \in Nodes : meta'[n] = IF n \in done THEN "src" ELSE meta[n]
           /\ gor.steps \notin {Rest4, Back3} => version' = version
           /\ gor.steps = Rest4 => version' = IF done = Nodes THEN "new" ELSE version
           /\ gor.steps = Back3 => version' = IF done = Nodes THEN "old" ELSE version
<1>1. /\ meta \in [Nodes -> Dirs] /\ version \in {"old", "new"} /\ "src" \in Dirs
      /\ gor.steps = Rest4 <=> Step = "SWITCH_VERSION"
      /\ gor.steps = Back3 <=> Step = "ROLLBACK_RESTORE"
  BY StepIs DEF Inv, Types, Goroutine, Dirs
<1>2. CASE Step = "SWITCH_VERSION"
  BY <1>1, <1>2 DEF Recording
<1>3. CASE Step = "ROLLBACK_RESTORE"
  BY <1>1, <1>3 DEF Recording
<1>4. CASE Step \notin {"SWITCH_VERSION", "ROLLBACK_RESTORE"}
  BY <1>1, <1>4 DEF Recording, record
<1> QED
  BY <1>2, <1>3, <1>4

\* The records are written, and the step fails or its end is not saved.
LEMMA UnfinishedStepInv ==
    ASSUME Inv, UNCHANGED <<inPlace, hosts, agents, task, nodes, control, unsaved, touched>>,
           faults' \in 0..MaxFaults, gor.at = "node", NEW done \in SUBSET Nodes, Recording(done),
           gor' \in Goroutine, gor'.at \in {"fail", "err"}, gor'.task = gor.task,
           gor'.steps = gor.steps, gor'.back = gor.back, gor'.paths = gor.paths, gor'.entered = gor.entered
    PROVE  Inv'
<1>1. UNCHANGED <<disk, backup, proc, exec, open, bound, cancel>>
  BY DEF hosts, control
<1>2. /\ meta' \in [Nodes -> Dirs] /\ version' \in {"old", "new"}
      /\ gor.steps # Back3 => meta' = meta
      /\ gor.steps = Back3 => \A n \in Nodes : meta'[n] = IF n \in done THEN "src" ELSE meta[n]
      /\ gor.steps \notin {Rest4, Back3} => version' = version
      /\ gor.steps = Rest4 => version' = IF done = Nodes THEN "new" ELSE version
      /\ gor.steps = Back3 => version' = IF done = Nodes THEN "old" ELSE version
  BY RecordingIs
<1>3. Types'
  BY <1>1, <1>2 DEF Inv, Types
<1>4. OldVersionKept' /\ BackedUp'
  BY <1>1 DEF Inv, OldVersionKept, BackedUp
<1>5. \A rest : ~AtWork(rest)'
  BY DEF AtWork
<1>6. gor.steps = Back3 => gor.back /\ gor.steps \notin {Upgrade, Rest8, Rest7, Rest6, Rest5, Rest4, Rest3, <<>>, KeptRunning, Kept1}
  BY Heads, NotEmpty, StepOfTask DEF Inv, Step
<1>7. gor.steps = Rest4 => ~gor.back /\ gor.steps \notin {Upgrade, Rest8, Rest7, Rest6, Rest5, Back3, Back2, Back1}
  BY Heads, NotEmpty, StepOfTask DEF Inv, Step
<1>8. Reached'
  <2> SUFFICES ASSUME NEW n \in Nodes PROVE ReachedAt(n)'
    BY DEF Reached
  <2>1. ReachedAt(n) /\ Target(n)' = Target(n)
    BY DEF Inv, Reached, Target
  <2>2. \A rest : /\ Past("MERGE_CONFIG", rest, n)' => Past("MERGE_CONFIG", rest, n)
                  /\ Past("SWITCH_VERSION", rest, n)' => Past("SWITCH_VERSION", rest, n)
                  /\ Past("START_CLUSTER", rest, n)' => Past("START_CLUSTER", rest, n)
    BY <1>5 DEF Past
  <2>3. CASE gor.steps = Back3
    BY <1>1, <1>2, <1>5, <1>6, <2>1, <2>2, <2>3 DEF ReachedAt, Past, Before
  <2>4. CASE gor.steps # Back3
    BY <1>1, <1>2, <1>5, <2>1, <2>2, <2>4 DEF ReachedAt
  <2> QED
    BY <2>3, <2>4
<1>9. Returned'
  <2>1. AsBefore' = AsBefore
    BY DEF AsBefore
  <2>2. gor.steps = Rest4 => ~AsBefore
    BY <1>7 DEF Inv, Returned, Before, AsBefore
  <2>3. ASSUME NEW n \in Nodes PROVE ReturnedAt(n)'
    <3>1. ReturnedAt(n)
      BY DEF Inv, Returned
    <3>2. gor.steps = Back3 => proc[n].st = "off"
      BY <3>1 DEF ReturnedAt
    <3>3. meta'[n] = meta[n] \/ (gor.steps = Back3 /\ meta'[n] = "src")
      BY <1>2
    <3> QED
      BY <1>1, <1>5, <2>1, <3>1, <3>2, <3>3 DEF ReturnedAt
  <2>4. version' = version \/ (gor.steps = Back3 /\ version' = "old") \/ gor.steps = Rest4
    BY <1>2
  <2>5. AsBefore \/ gor.steps \in {Back2, Back1} \/ (gor.back /\ gor.steps = <<>>) => version' = "old"
    BY <1>7, <2>2, <2>4 DEF Inv, Returned
  <2> QED
    BY <2>1, <2>3, <2>5 DEF Inv, Returned
<1>10. Cancelled'
  BY <1>1, GoesOn DEF Inv, Cancelled, Working
<1>11. Reported'
  BY <1>1, <1>2, <1>6 DEF Inv, Reported, Settled
<1> QED
  BY <1>3, <1>4, <1>8, <1>9, <1>10, <1>11 DEF Inv

\* The next step comes, or the end.
LEMMA FinishedStepInv ==
    ASSUME Inv, UNCHANGED <<inPlace, hosts, agents, task, nodes, control, unsaved, touched>>,
           faults' = faults, gor.at = "node", gor.todo = {}, ~gor.bad, Recording(Nodes),
           gor' \in Goroutine, gor'.steps = Tail(gor.steps),
           gor'.at = IF Tail(gor.steps) # <<>> THEN "step" ELSE IF gor.back THEN "close" ELSE "won",
           gor'.task.status = gor.task.status,
           gor'.task.rollback = gor.task.rollback \/ (gor.back /\ Tail(gor.steps) = <<>>),
           gor'.back = gor.back, gor'.paths = gor.paths, gor'.entered = gor.entered
    PROVE  Inv'
<1>1. UNCHANGED <<disk, backup, proc, exec, open, bound, cancel>>
  BY DEF hosts, control
<1>2. /\ meta' \in [Nodes -> Dirs] /\ version' \in {"old", "new"}
      /\ gor.steps # Back3 => meta' = meta
      /\ gor.steps = Back3 => \A n \in Nodes : meta'[n] = "src"
      /\ gor.steps \notin {Rest4, Back3} => version' = version
      /\ gor.steps = Rest4 => version' = "new"
      /\ gor.steps = Back3 => version' = "old"
  BY RecordingIs
<1>3. gor.steps # <<>> /\ gor.steps \in (IF gor.back THEN Backward ELSE Forward)
  BY DEF Inv, Types
<1>4. Tail(gor.steps) \in (IF gor.back THEN Backward ELSE Forward)
  BY <1>3, StepOfTask DEF Inv
<1>5. Types'
  BY <1>1, <1>2, <1>4 DEF Inv, Types
<1>6. \A rest : ~AtWork(rest)'
  BY DEF AtWork
<1>7. \A rest : AtWork(rest) <=> gor.steps = rest
  BY DEF AtWork
<1>8. CASE ~gor.back
  <2>1. gor.steps \in {Upgrade, Rest8, Rest7, Rest6, Rest5, Rest4, Rest3, Rest2, Rest1}
    BY <1>3, <1>8 DEF Forward
  <2>2. gor.steps \notin {Rollback, Back3, Back2, Back1, KeptRunning, Kept1}
    BY <2>1, Heads
  <2>3. OldVersionKept' /\ BackedUp'
    <3>1. Tail(gor.steps) = Rest8 => gor.steps = Upgrade
      BY <2>1, <1>3, StepIs, TailIs
    <3>2. Tail(gor.steps) # Upgrade
      BY <2>1, <1>3, StepIs, TailIs
    <3>3. gor.steps = Upgrade => Tail(gor.steps) = Rest8
      BY Tails
    <3> QED
      BY <1>1, <1>8, <3>1, <3>2, <3>3 DEF Inv, OldVersionKept, BackedUp
  <2>4. Reached'
    <3> SUFFICES ASSUME NEW n \in Nodes PROVE ReachedAt(n)'
      BY DEF Reached
    <3>1. ReachedAt(n) /\ Target(n)' = Target(n)
      BY DEF Inv, Reached, Target
    <3>2. meta' = meta
      BY <1>2, <2>2
    <3> QED
      BY <1>1, <1>6, <1>7, <1>8, <2>1, <3>1, <3>2, <1>3, StepIs, TailIs DEF ReachedAt, Past, Before
  <2>5. Returned'
    <3>1. AsBefore' = AsBefore
      BY DEF AsBefore
    <3>2. Tail(gor.steps) \in {Upgrade, Rest8, Rest7, Rest6, Rest5, Rest4, Rest3, Rest2, Rest1, <<>>}
      BY <1>4, <1>8 DEF Forward
    <3>3. Tail(gor.steps) \notin {Rollback, Back3, Back2, Back1, KeptRunning, Kept1}
      BY <3>2, Different
    <3>4. meta' = meta
      BY <1>2, <2>2
    <3>5. AsBefore => gor.steps \in Before("STOP_CLUSTER") \ {Rest5}
      <4>1. AsBefore => gor.steps \in Before("STOP_CLUSTER")
        BY <1>8 DEF Inv, Returned, AsBefore
      <4>2. gor.steps = Rest5 => gor.entered
        BY DEF Inv, Returned
      <4> QED
        BY <4>1, <4>2 DEF AsBefore
    <3>6. ASSUME NEW n \in Nodes PROVE ReturnedAt(n)'
      <4>1. ReturnedAt(n)
        BY DEF Inv, Returned
      <4> QED
        BY <1>1, <1>6, <1>8, <3>1, <3>3, <3>4, <4>1 DEF ReturnedAt
    <3>7. ~gor.entered => Tail(gor.steps) \in Before("STOP_CLUSTER") \cup {<<>>}
      <4>1. ~gor.entered => gor.steps \in {Upgrade, Rest8, Rest7, Rest6}
        BY <1>8, <2>1 DEF Inv, Returned, Before
      <4> QED
        BY <4>1, Tails DEF Before
    <3>8. Tail(gor.steps) = Rest5 => gor'.at = "step"
      BY Different
    <3>9. AsBefore => version = "old" /\ gor.steps # Rest4
      <4>1. AsBefore => gor.steps \in {Upgrade, Rest8, Rest7, Rest6, Rest5}
        BY <3>5 DEF Before
      <4> QED
        BY <4>1, Different DEF Inv, Returned
    <3>10. gor.steps # Back3
      BY <2>2
    <3> QED
      BY <1>2, <1>8, <3>1, <3>3, <3>6, <3>7, <3>8, <3>9, <3>10 DEF Returned
  <2>6. Cancelled'
    BY <1>1, GoesOn DEF Inv, Cancelled, Working
  <2>7. Reported'
    BY <1>1, <1>2, <1>8, <2>1, <1>3, StepIs, TailIs DEF Inv, Reported, Settled, Before
  <2> QED
    BY <1>5, <2>3, <2>4, <2>5, <2>6, <2>7 DEF Inv
<1>9. CASE gor.back
  <2>1. gor.steps \in {Rollback, Back3, Back2, Back1, KeptRunning, Kept1}
    BY <1>3, <1>9 DEF Backward
  <2>2. Tail(gor.steps) \in {Back3, Back2, Back1, Kept1, <<>>}
    BY <2>1, Tails
  <2>3. /\ Tail(gor.steps) = Back3 => gor.steps = Rollback
        /\ Tail(gor.steps) = Back2 => gor.steps = Back3
        /\ Tail(gor.steps) = Back1 => gor.steps = Back2
        /\ Tail(gor.steps) = Kept1 => gor.steps = KeptRunning
        /\ Tail(gor.steps) = <<>> => gor.steps \in {Back1, Kept1}
    BY <2>1, <1>3, StepIs, TailIs
  <2>4. Tail(gor.steps) \notin {Upgrade, Rest8, Rest7, Rest6, Rest5, Rest4, Rest3}
    BY <2>2, Different
  <2>5. OldVersionKept' /\ BackedUp'
    BY <1>1, <1>9, <2>4 DEF Inv, OldVersionKept, BackedUp
  <2>6. Reached'
    BY <1>6, <1>9, <2>4 DEF Reached, ReachedAt, Past, Before
  <2>7. AsBefore' = AsBefore
    BY DEF AsBefore
  <2>8. ASSUME NEW n \in Nodes PROVE ReturnedAt(n)'
    <3>1. ReturnedAt(n)
      BY DEF Inv, Returned
    <3>2. gor.steps \in {KeptRunning, Kept1} => AsBefore
      BY DEF Inv, Returned
    <3>3. meta'[n] = meta[n] \/ (gor.steps = Back3 /\ meta'[n] = "src")
      BY <1>2
    <3>4. gor.steps = Back3 => meta'[n] = "src" /\ proc[n].st = "off" /\ disk[n]["src"] = "old"
      BY <1>2, <1>7, <3>1 DEF ReturnedAt
    <3> QED
      BY <1>1, <1>6, <1>7, <1>9, <2>2, <2>3, <2>7, <3>1, <3>2, <3>3, <3>4, Heads, NotEmpty DEF ReturnedAt
  <2>9. Returned'
    <3>1. /\ gor.steps \in {KeptRunning, Kept1} => AsBefore
          /\ gor.steps \in {Rollback, Back3, Back2, Back1} => ~AsBefore
          /\ AsBefore \/ gor.steps \in {Back2, Back1} => version = "old"
      BY DEF Inv, Returned
    <3>2. AsBefore \/ gor.steps \in {Back3, Back2, Back1} => version' = "old"
      <4>1. gor.steps # Rest4
        BY <2>1, Heads
      <4> QED
        BY <1>2, <3>1, <4>1
    <3>3. gor'.steps \notin {Rest5, Rollback, KeptRunning} /\ gor'.back
      BY <1>9, <2>2, Different
    <3>4. gor'.steps = Kept1 => gor.steps = KeptRunning
      BY <2>3
    <3>5. gor'.steps \in {Back3, Back2, Back1} => gor.steps \in {Rollback, Back3, Back2}
      BY <2>3
    <3>6. gor'.steps = <<>> => gor.steps \in {Back1, Kept1}
      BY <2>3
    <3>7. gor'.steps \in {KeptRunning, Kept1} => AsBefore'
      BY <2>7, <3>1, <3>3, <3>4
    <3>8. gor'.steps \in {Rollback, Back3, Back2, Back1} => ~AsBefore'
      BY <2>7, <3>1, <3>3, <3>5
    <3>9. AsBefore' \/ gor'.steps \in {Back2, Back1} \/ gor'.steps = <<>> => version' = "old"
      <4>1. gor'.steps = Back2 => gor.steps = Back3
        BY <2>3
      <4>2. gor'.steps = Back1 => gor.steps = Back2
        BY <2>3
      <4> QED
        BY <2>7, <3>1, <3>2, <3>6, <4>1, <4>2
    <3> QED
      BY <2>8, <3>3, <3>7, <3>8, <3>9 DEF Returned
  <2>10. Cancelled'
    BY <1>1, GoesOn DEF Inv, Cancelled, Working
  <2>11. Reported'
    <3>1. task.status # "succeeded" /\ gor.task.status # "succeeded"
      BY DEF Inv, Reported, Settled
    <3>2. task.rollback # "rollback_succeeded" /\ gor.task.rollback # "rollback_succeeded"
      BY DEF Inv, Reported, Settled
    <3> QED
      BY <1>9, <3>1, <3>2 DEF Reported
  <2> QED
    BY <1>5, <2>5, <2>6, <2>9, <2>10, <2>11 DEF Inv
<1> QED
  BY <1>8, <1>9

LEMMA finishStepInv == Inv /\ finishStep => Inv'
<1> SUFFICES ASSUME Inv, finishStep PROVE Inv'
  OBVIOUS
<1>1. /\ UNCHANGED <<inPlace, hosts, agents, task, nodes, control, unsaved, touched>>
      /\ gor.at = "node" /\ gor.todo = {} /\ ~gor.bad
  BY DEF finishStep
<1>2. gor.steps # <<>> /\ gor.steps \in Forward \cup Backward
  BY <1>1 DEF Inv, Types, Goroutine
<1> DEFINE backed == gor.backed \/ Step = "BACKUP"
           next == IF Tail(gor.steps) # <<>> THEN "step" ELSE IF gor.back THEN "close" ELSE "won"
           rollback == IF gor.back /\ Len(gor.steps) = 1 THEN "rollback_succeeded" ELSE gor.task.rollback
           t == [gor.task EXCEPT !.rollback = rollback]
<1>3. gor.task \in TaskType /\ backed \in BOOLEAN /\ next \in Places
  BY DEF Inv, Types, Goroutine, Places
<1>4. /\ t \in TaskType /\ t.status = gor.task.status
      /\ t.rollback = gor.task.rollback \/ (gor.back /\ Tail(gor.steps) = <<>>)
  BY <1>2, <1>3, LastStep DEF TaskType
<1>5. CASE /\ faults' = faults /\ Recording(Nodes)
           /\ gor' = [finished EXCEPT !.steps = Tail(@), !.at = next, !.task.rollback = rollback]
  <2>1. gor' = [gor EXCEPT !.backed = backed, !.steps = Tail(gor.steps), !.at = next, !.task = t]
    BY <1>5 DEF finished, Inv, Types, Goroutine
  <2>2. Tail(gor.steps) \in Forward \cup Backward
    BY <1>2, StepOfTask DEF Inv
  <2> HIDE DEF backed, next, t
  <2>3. /\ gor' \in Goroutine /\ gor'.steps = Tail(gor.steps) /\ gor'.at = next /\ gor'.task = t
        /\ gor'.back = gor.back /\ gor'.paths = gor.paths /\ gor'.entered = gor.entered
    BY <1>3, <1>4, <2>1, <2>2 DEF Inv, Types, Goroutine
  <2> QED
    BY <1>1, <1>4, <1>5, <2>3, FinishedStepInv DEF next
<1>6. CASE Fault /\ Recording(Nodes) /\ gor' = [finished EXCEPT !.at = "err"]
  <2>1. gor' = [gor EXCEPT !.backed = backed, !.at = "err"]
    BY <1>6 DEF finished, Inv, Types, Goroutine
  <2> HIDE DEF backed
  <2>2. /\ gor' \in Goroutine /\ gor'.at = "err" /\ gor'.task = gor.task
        /\ gor'.steps = gor.steps /\ gor'.back = gor.back /\ gor'.paths = gor.paths /\ gor'.entered = gor.entered
    BY <1>3, <2>1 DEF Inv, Types, Goroutine, Places
  <2>3. faults' \in 0..MaxFaults
    BY <1>6, BoundsAssumption DEF Fault, Inv, Types
  <2> QED
    BY <1>1, <1>6, <2>2, <2>3, UnfinishedStepInv
<1>7. CASE Fault /\ (\E done \in SUBSET Nodes : Recording(done)) /\ gor' = [gor EXCEPT !.at = "fail"]
  <2>1. /\ gor' \in Goroutine /\ gor'.at = "fail" /\ gor'.task = gor.task
        /\ gor'.steps = gor.steps /\ gor'.back = gor.back /\ gor'.paths = gor.paths /\ gor'.entered = gor.entered
    BY <1>7 DEF Inv, Types, Goroutine, Places
  <2>2. faults' \in 0..MaxFaults
    BY <1>7, BoundsAssumption DEF Fault, Inv, Types
  <2> QED
    BY <1>1, <1>7, <2>1, <2>2, UnfinishedStepInv
<1> QED
  BY <1>5, <1>6, <1>7 DEF finishStep, finished

-----------------------------------------------------------------------------
(* One step on one node.                                                   *)

\* What a command leaves of the directories of its node.
LEMMA DiskIs ==
    ASSUME Types, NEW n \in Nodes, NEW part \in {"none", "torn", "all"}
    PROVE  /\ diskAfter(n, part) \in [Dirs -> {"none", "torn"} \cup Whole]
           /\ Step \notin {"DISTRIBUTE", "MERGE_CONFIG", "ROLLBACK_RESTORE"} => diskAfter(n, part) = disk[n]
           /\ Step \in {"DISTRIBUTE", "MERGE_CONFIG"} /\ n \notin inPlace => diskAfter(n, part)["src"] = disk[n]["src"]
           /\ Step = "MERGE_CONFIG" /\ part = "all" => diskAfter(n, part)[Target(n)] = "new"
           /\ Step = "ROLLBACK_RESTORE" /\ n \notin gor.paths => diskAfter(n, part) = disk[n]
           /\ Step = "ROLLBACK_RESTORE" /\ n \in gor.paths /\ part = "all" => diskAfter(n, part)["src"] = backup[n]
<1>1. /\ disk[n] \in [Dirs -> {"none", "torn"} \cup Whole] /\ backup[n] \in {"none", "torn"} \cup Whole
      /\ Target(n) \in Dirs /\ "src" \in Dirs /\ (n \notin inPlace => Target(n) # "src")
  BY DEF Types, Target, Dirs
<1>2. \A old, new : Written(part, old, new) = IF part = "none" THEN old ELSE IF part = "torn" THEN "torn" ELSE new
  BY DEF Written
<1>3. "raw" \in Whole /\ "new" \in Whole
  BY DEF Whole
<1>4. CASE Step = "DISTRIBUTE"
  <2>1. diskAfter(n, part) = [disk[n] EXCEPT ![Target(n)] = Written(part, disk[n][Target(n)], "raw")]
    BY <1>4 DEF diskAfter, Distributed
  <2> QED
    BY <1>1, <1>2, <1>3, <1>4, <2>1
<1>5. CASE Step = "MERGE_CONFIG"
  <2>1. diskAfter(n, part) = [disk[n] EXCEPT ![Target(n)] = Written(part, disk[n][Target(n)], "new")]
    BY <1>5 DEF diskAfter, Merged
  <2> QED
    BY <1>1, <1>2, <1>3, <1>5, <2>1
<1>6. CASE Step = "ROLLBACK_RESTORE"
  <2>1. diskAfter(n, part) = IF n \in gor.paths THEN [disk[n] EXCEPT !["src"] = Written(part, disk[n]["src"], backup[n])] ELSE disk[n]
    BY <1>6 DEF diskAfter, Restored, backupDir
  <2> QED
    BY <1>1, <1>2, <1>6, <2>1
<1>7. CASE Step \notin {"DISTRIBUTE", "MERGE_CONFIG", "ROLLBACK_RESTORE"}
  <2>1. diskAfter(n, part) = disk[n]
    BY <1>7 DEF diskAfter
  <2> QED
    BY <1>1, <1>7, <2>1
<1> QED
  BY <1>4, <1>5, <1>6, <1>7

\* What a command leaves of the process of its node.
LEMMA ProcIs ==
    ASSUME Types, NEW n \in Nodes, NEW part \in {"none", "torn", "all"}
    PROVE  /\ procAfter(n, part) \in [st : {"up", "off", "dead"}, dir : Dirs, ver : Whole]
           /\ Step \notin {"STOP_CLUSTER", "ROLLBACK_PREPARE", "START_CLUSTER", "ROLLBACK_RESTART"}
              => procAfter(n, part) = proc[n]
           /\ Step \in {"STOP_CLUSTER", "ROLLBACK_PREPARE"}
              => /\ procAfter(n, part).dir = proc[n].dir /\ procAfter(n, part).ver = proc[n].ver
                 /\ proc[n].st = "off" => procAfter(n, part).st = "off"
                 /\ part = "all" /\ proc[n].dir = meta[n] => procAfter(n, part).st = "off"
           /\ Step \in {"START_CLUSTER", "ROLLBACK_RESTART"}
              => /\ procAfter(n, part) = proc[n] \/ procAfter(n, part).dir = meta[n]
                 /\ part = "all" /\ proc[n].st = "off" /\ disk[n][meta[n]] \in Whole
                    => procAfter(n, part) = [st |-> "up", dir |-> meta[n], ver |-> disk[n][meta[n]]]
<1>1. /\ proc[n] \in [st : {"up", "off", "dead"}, dir : Dirs, ver : Whole] /\ meta[n] \in Dirs
  BY DEF Types
<1>2. CASE Step \in {"STOP_CLUSTER", "ROLLBACK_PREPARE"}
  <2>1. procAfter(n, part) = IF part # "none" /\ proc[n].dir = meta[n] THEN [proc[n] EXCEPT !.st = "off"] ELSE proc[n]
    BY <1>2 DEF procAfter
  <2> QED
    BY <1>1, <1>2, <2>1
<1>3. CASE Step \in {"START_CLUSTER", "ROLLBACK_RESTART"}
  <2>1. procAfter(n, part) = IF part # "none" /\ proc[n].st # "up" /\ disk[n][meta[n]] \in Whole
                             THEN [st |-> "up", dir |-> meta[n], ver |-> disk[n][meta[n]]] ELSE proc[n]
    BY <1>3 DEF procAfter
  <2> QED
    BY <1>1, <1>3, <2>1
<1>4. CASE Step \notin {"STOP_CLUSTER", "ROLLBACK_PREPARE", "START_CLUSTER", "ROLLBACK_RESTART"}
  <2>1. procAfter(n, part) = proc[n]
    BY <1>4 DEF procAfter
  <2> QED
    BY <1>1, <1>4, <2>1
<1> QED
  BY <1>2, <1>3, <1>4

\* A command acts on its own node only.
LEMMA ActsOn ==
    ASSUME Types, NEW n \in Nodes, NEW part \in {"none", "torn", "all"}, Acts(n, part)
    PROVE  /\ disk' \in [Nodes -> [Dirs -> {"none", "torn"} \cup Whole]]
           /\ backup' \in [Nodes -> {"none", "torn"} \cup Whole]
           /\ proc' \in [Nodes -> [st : {"up", "off", "dead"}, dir : Dirs, ver : Whole]]
           /\ meta' \in [Nodes -> Dirs]
           /\ \A m \in Nodes \ {n} : disk'[m] = disk[m] /\ backup'[m] = backup[m] /\ proc'[m] = proc[m] /\ meta'[m] = meta[m]
           /\ disk'[n] = diskAfter(n, part) /\ proc'[n] = procAfter(n, part)
           /\ backup'[n] = backup[n] \/ (Step = "BACKUP" /\ n \in inPlace)
           /\ Step = "BACKUP" /\ n \in inPlace /\ part = "all" => backup'[n] = disk[n]["src"]
           /\ meta'[n] = IF Step = "SWITCH_VERSION" /\ part = "all" THEN Target(n) ELSE meta[n]
<1>1. /\ disk' = [disk EXCEPT ![n] = diskAfter(n, part)] /\ backup' = [backup EXCEPT ![n] = backupAfter(n, part)]
      /\ proc' = [proc EXCEPT ![n] = procAfter(n, part)]
      /\ meta' = IF Step = "SWITCH_VERSION" /\ part = "all" THEN [meta EXCEPT ![n] = Target(n)] ELSE meta
  BY DEF Acts, Switches
<1>2. /\ disk \in [Nodes -> [Dirs -> {"none", "torn"} \cup Whole]] /\ backup \in [Nodes -> {"none", "torn"} \cup Whole]
      /\ proc \in [Nodes -> [st : {"up", "off", "dead"}, dir : Dirs, ver : Whole]] /\ meta \in [Nodes -> Dirs]
      /\ disk[n]["src"] \in {"none", "torn"} \cup Whole /\ Target(n) \in Dirs
  BY DEF Types, Target, Dirs
<1>3. backupAfter(n, part) = IF Step = "BACKUP" /\ n \in inPlace
                             THEN IF part = "none" THEN backup[n] ELSE IF part = "torn" THEN "torn" ELSE disk[n]["src"]
                             ELSE backup[n]
  BY DEF backupAfter, Written
<1>4. diskAfter(n, part) \in [Dirs -> {"none", "torn"} \cup Whole]
  BY DiskIs
<1>5. procAfter(n, part) \in [st : {"up", "off", "dead"}, dir : Dirs, ver : Whole]
  BY ProcIs
<1> QED
  BY <1>1, <1>2, <1>3, <1>4, <1>5

LEMMA AfterFailureIs ==
    ASSUME gor \in Goroutine, gor.at = "node", NEW n \in Nodes, gor' = afterFailure(n)
    PROVE  /\ gor' \in Goroutine /\ gor'.task = gor.task /\ gor'.paths = gor.paths
           /\ gor'.steps = gor.steps /\ gor'.back = gor.back /\ gor'.entered = gor.entered
           /\ gor'.settled = (IF gor.back THEN gor.settled \cup {n} ELSE gor.settled)
           /\ \/ gor'.at = "node" /\ gor'.todo = gor.todo \ {n} /\ gor'.bad /\ Step \in Lifecycle
              \/ gor'.at = "fail"
<1> DEFINE settled == IF gor.back THEN gor.settled \cup {n} ELSE gor.settled
<1>1. settled \in SUBSET Nodes /\ gor.todo \ {n} \in SUBSET Nodes
  BY DEF Goroutine
<1>2. CASE Step \in Lifecycle
  <2>1. gor' = [gor EXCEPT !.settled = settled, !.todo = gor.todo \ {n}, !.bad = TRUE]
    BY <1>2 DEF afterFailure, Goroutine
  <2> HIDE DEF settled
  <2>2. /\ gor' \in Goroutine /\ gor'.task = gor.task /\ gor'.paths = gor.paths
        /\ gor'.steps = gor.steps /\ gor'.back = gor.back /\ gor'.entered = gor.entered
        /\ gor'.settled = settled /\ gor'.at = "node" /\ gor'.todo = gor.todo \ {n} /\ gor'.bad
    BY <1>1, <2>1 DEF Goroutine
  <2> QED
    BY <1>2, <2>2 DEF settled
<1>3. CASE Step \notin Lifecycle
  <2>1. gor' = [gor EXCEPT !.settled = settled, !.at = "fail"]
    BY <1>3 DEF afterFailure, Goroutine
  <2> HIDE DEF settled
  <2>2. /\ gor' \in Goroutine /\ gor'.task = gor.task /\ gor'.paths = gor.paths
        /\ gor'.steps = gor.steps /\ gor'.back = gor.back /\ gor'.entered = gor.entered
        /\ gor'.settled = settled /\ gor'.at = "fail"
    BY <1>1, <2>1 DEF Goroutine, Places
  <2> QED
    BY <2>2 DEF settled
<1> QED
  BY <1>2, <1>3

\* What the goroutine makes of the command.
LEMMA OutcomeIs ==
    ASSUME Inv, NEW n \in Nodes, NodeStep(n)
    PROVE  \E part \in {"none", "torn", "all"} :
             /\ Acts(n, part)
             /\ gor' \in Goroutine /\ gor'.task = gor.task
             /\ gor'.steps = gor.steps /\ gor'.back = gor.back /\ gor'.entered = gor.entered
             /\ nodes' \in [Nodes -> NodeStatus] /\ unsaved' \subseteq Nodes /\ faults' \in 0..MaxFaults
             /\ gor'.paths = gor.paths \/ (gor'.paths = Recorded(n) /\ part = "all")
             /\ \/ /\ gor'.at = "node" /\ gor'.todo = gor.todo \ {n} /\ gor'.bad = gor.bad
                   /\ gor'.paths = Recorded(n) /\ part = "all" /\ ~Fails(n)
                \/ gor'.at = "node" /\ gor'.todo = gor.todo \ {n} /\ gor'.bad /\ Step \in Lifecycle
                \/ gor'.at \in {"fail", "err"}
<1> DEFINE Outcome(part) ==
             /\ Acts(n, part)
             /\ gor' \in Goroutine /\ gor'.task = gor.task
             /\ gor'.steps = gor.steps /\ gor'.back = gor.back /\ gor'.entered = gor.entered
             /\ nodes' \in [Nodes -> NodeStatus] /\ unsaved' \subseteq Nodes /\ faults' \in 0..MaxFaults
             /\ gor'.paths = gor.paths \/ (gor'.paths = Recorded(n) /\ part = "all")
             /\ \/ /\ gor'.at = "node" /\ gor'.todo = gor.todo \ {n} /\ gor'.bad = gor.bad
                   /\ gor'.paths = Recorded(n) /\ part = "all" /\ ~Fails(n)
                \/ gor'.at = "node" /\ gor'.todo = gor.todo \ {n} /\ gor'.bad /\ Step \in Lifecycle
                \/ gor'.at \in {"fail", "err"}
<1>1. gor.at = "node" /\ gor \in Goroutine /\ nodes \in [Nodes -> NodeStatus] /\ unsaved \subseteq Nodes /\ faults \in 0..MaxFaults
  BY DEF NodeStep, Inv, Types
<1>2. Recorded(n) \subseteq Nodes /\ SettledAfter(n) \subseteq Nodes
  BY <1>1 DEF Recorded, SettledAfter, Goroutine
<1>3. okStatus \in NodeStatus /\ deriveFailureStatus \in NodeStatus
  BY DEF okStatus, deriveFailureStatus, NodeStatus
<1>4. Fault => faults' \in 0..MaxFaults
  BY <1>1, BoundsAssumption DEF Fault
<1>5. gor' = afterFailure(n) =>
        /\ gor' \in Goroutine /\ gor'.task = gor.task /\ gor'.paths = gor.paths
        /\ gor'.steps = gor.steps /\ gor'.back = gor.back /\ gor'.entered = gor.entered
        /\ \/ gor'.at = "node" /\ gor'.todo = gor.todo \ {n} /\ gor'.bad /\ Step \in Lifecycle
           \/ gor'.at \in {"fail", "err"}
  BY <1>1, AfterFailureIs
<1>6. nodes' = [nodes EXCEPT ![n] = okStatus] \/ nodes' = [nodes EXCEPT ![n] = deriveFailureStatus] \/ nodes' = nodes
      => nodes' \in [Nodes -> NodeStatus]
  BY <1>1, <1>3
<1>7. CASE ~Fails(n) /\ Acts(n, "all") /\ finishNodeStep(n) /\ UNCHANGED <<unsaved, faults>>
  <2>1. /\ gor' = [gor EXCEPT !.todo = gor.todo \ {n}, !.paths = Recorded(n), !.settled = SettledAfter(n)]
        /\ nodes' = [nodes EXCEPT ![n] = okStatus]
    BY <1>1, <1>7 DEF finishNodeStep, Goroutine
  <2>2. /\ gor' \in Goroutine /\ gor'.task = gor.task /\ gor'.paths = Recorded(n) /\ gor'.at = "node"
        /\ gor'.steps = gor.steps /\ gor'.back = gor.back /\ gor'.entered = gor.entered
        /\ gor'.todo = gor.todo \ {n} /\ gor'.bad = gor.bad
    BY <1>1, <1>2, <2>1 DEF Goroutine
  <2>3. Outcome("all")
    BY <1>1, <1>6, <1>7, <2>1, <2>2
  <2> QED
    BY <2>3
<1>8. CASE Fails(n) /\ Acts(n, "none") /\ failNodeStep(n) /\ UNCHANGED <<unsaved, faults>>
  <2>1. Outcome("none")
    BY <1>1, <1>5, <1>6, <1>8 DEF failNodeStep
  <2> QED
    BY <2>1
<1>9. CASE /\ Fault /\ (\E part \in IF Step \in Files THEN {"none", "torn", "all"} ELSE {"none", "all"} : Acts(n, part))
           /\ failNodeStep(n) /\ UNCHANGED unsaved
  <2>1. PICK part \in {"none", "torn", "all"} : Acts(n, part)
    BY <1>9
  <2>2. Outcome(part)
    BY <1>1, <1>4, <1>5, <1>6, <1>9, <2>1 DEF failNodeStep
  <2> QED
    BY <2>2
<1>10. CASE Fault /\ Acts(n, "all") /\ unsavedNodeStep(n) /\ UNCHANGED nodes
  <2>1. gor' = [gor EXCEPT !.at = IF gor.back THEN "err" ELSE "fail", !.paths = Recorded(n), !.settled = SettledAfter(n)]
    BY <1>10 DEF unsavedNodeStep
  <2>2. /\ gor' \in Goroutine /\ gor'.task = gor.task /\ gor'.paths = Recorded(n) /\ gor'.at \in {"fail", "err"}
        /\ gor'.steps = gor.steps /\ gor'.back = gor.back /\ gor'.entered = gor.entered
    BY <1>1, <1>2, <2>1 DEF Goroutine, Places
  <2>3. unsaved' \subseteq Nodes
    BY <1>1, <1>10 DEF unsavedNodeStep
  <2>4. Outcome("all")
    BY <1>1, <1>4, <1>6, <1>10, <2>2, <2>3
  <2> QED
    BY <2>4
<1>11. CASE Fault /\ Acts(n, "none") /\ gor' = afterFailure(n) /\ unsaved' = unsaved \cup {n} /\ UNCHANGED nodes
  <2>1. Outcome("none")
    BY <1>1, <1>4, <1>5, <1>6, <1>11
  <2> QED
    BY <2>1
<1> QED
  BY <1>7, <1>8, <1>9, <1>10, <1>11 DEF NodeStep

LEMMA NodeStepInv ==
    ASSUME Inv, NEW n \in Nodes, NodeStep(n)
    PROVE  Inv'
<1>1. /\ UNCHANGED <<inPlace, version, agents, task, exec, open, bound, cancel, touched>>
      /\ gor.at = "node" /\ n \in gor.todo
  BY DEF NodeStep, control
<1>2. PICK part \in {"none", "torn", "all"} :
        /\ Acts(n, part)
        /\ gor' \in Goroutine /\ gor'.task = gor.task
        /\ gor'.steps = gor.steps /\ gor'.back = gor.back /\ gor'.entered = gor.entered
        /\ nodes' \in [Nodes -> NodeStatus] /\ unsaved' \subseteq Nodes /\ faults' \in 0..MaxFaults
        /\ gor'.paths = gor.paths \/ (gor'.paths = Recorded(n) /\ part = "all")
        /\ \/ /\ gor'.at = "node" /\ gor'.todo = gor.todo \ {n} /\ gor'.bad = gor.bad
              /\ gor'.paths = Recorded(n) /\ part = "all" /\ ~Fails(n)
           \/ gor'.at = "node" /\ gor'.todo = gor.todo \ {n} /\ gor'.bad /\ Step \in Lifecycle
           \/ gor'.at \in {"fail", "err"}
  BY OutcomeIs
<1>3. /\ gor.steps # <<>> /\ gor.steps \in Forward \cup Backward
      /\ gor.steps \in (IF gor.back THEN Backward ELSE Forward)
  BY <1>1 DEF Inv, Types, Goroutine
<1>4. /\ gor.steps = Upgrade <=> Step = "PRECHECK"
      /\ gor.steps = Rest8 <=> Step = "BACKUP"
      /\ gor.steps = Rest7 <=> Step = "DISTRIBUTE"
      /\ gor.steps = Rest6 <=> Step = "MERGE_CONFIG"
      /\ gor.steps = Rest5 <=> Step = "STOP_CLUSTER"
      /\ gor.steps = Rest4 <=> Step = "SWITCH_VERSION"
      /\ gor.steps = Rest3 <=> Step = "START_CLUSTER"
      /\ gor.steps = Rollback <=> Step = "ROLLBACK_PREPARE"
      /\ gor.steps = Back3 <=> Step = "ROLLBACK_RESTORE"
      /\ gor.steps = Back2 <=> Step = "ROLLBACK_RESTART"
      /\ gor.steps = Back1 <=> Step = "ROLLBACK_VERIFY"
  BY <1>3, StepIs
<1>5. gor.back <=> Step \in {"ROLLBACK_PREPARE", "ROLLBACK_RESTORE", "ROLLBACK_RESTART", "ROLLBACK_VERIFY",
                             "KEEP_RUNNING", "VERIFY_SOURCE"}
  BY <1>3, StepOfTask DEF Inv
<1>6. /\ disk' \in [Nodes -> [Dirs -> {"none", "torn"} \cup Whole]]
      /\ backup' \in [Nodes -> {"none", "torn"} \cup Whole]
      /\ proc' \in [Nodes -> [st : {"up", "off", "dead"}, dir : Dirs, ver : Whole]]
      /\ meta' \in [Nodes -> Dirs]
      /\ \A m \in Nodes \ {n} : disk'[m] = disk[m] /\ backup'[m] = backup[m] /\ proc'[m] = proc[m] /\ meta'[m] = meta[m]
      /\ disk'[n] = diskAfter(n, part) /\ proc'[n] = procAfter(n, part)
      /\ backup'[n] = backup[n] \/ (Step = "BACKUP" /\ n \in inPlace)
      /\ Step = "BACKUP" /\ n \in inPlace /\ part = "all" => backup'[n] = disk[n]["src"]
      /\ meta'[n] = IF Step = "SWITCH_VERSION" /\ part = "all" THEN Target(n) ELSE meta[n]
  BY <1>2, ActsOn DEF Inv
<1>7. Recorded(n) = (IF Step = "BACKUP" /\ n \in inPlace THEN gor.paths \cup {n} ELSE gor.paths)
  BY DEF Recorded
<1>8. gor'.paths \subseteq inPlace /\ gor.paths \subseteq gor'.paths
  BY <1>2, <1>7 DEF Inv, Types
<1>9. Types'
  BY <1>1, <1>2, <1>3, <1>6, <1>8 DEF Inv, Types
<1>10. \A m \in Nodes : \/ disk'[m] = disk[m]
                        \/ m = n /\ Step \in {"DISTRIBUTE", "MERGE_CONFIG", "ROLLBACK_RESTORE"}
  BY <1>2, <1>6, DiskIs DEF Inv
<1>11. \A m \in Nodes : disk'[m]["src"] = disk[m]["src"] \/ (m = n /\ m \in gor.paths)
  <2>1. Step \in {"DISTRIBUTE", "MERGE_CONFIG"} => gor.paths = inPlace
    BY <1>4, <1>5 DEF Inv, BackedUp
  <2> QED
    BY <1>2, <1>6, <1>10, <2>1, DiskIs DEF Inv
<1>12. BackedUp'
  <2>1. \A m \in Nodes : IF m \in gor'.paths THEN backup'[m] = "old" ELSE disk'[m]["src"] = "old"
    <3>1. \A m \in Nodes : IF m \in gor.paths THEN backup[m] = "old" ELSE disk[m]["src"] = "old"
      BY DEF Inv, BackedUp
    <3>2. Step = "BACKUP" => disk[n]["src"] = "old" /\ n \notin gor.paths
      BY <1>1, <1>4 DEF Inv, BackedUp
    <3> QED
      BY <1>2, <1>6, <1>7, <1>11, <3>1, <3>2
  <2>2. gor.steps = Rest8 /\ gor'.at = "node" => gor'.paths = inPlace \ gor'.todo /\ ~gor'.bad
    <3>1. gor.steps = Rest8 => gor.paths = inPlace \ gor.todo /\ ~gor.bad /\ Step \notin Lifecycle
      BY <1>1, <1>4 DEF Inv, BackedUp, Lifecycle
    <3> QED
      BY <1>1, <1>2, <1>4, <1>7, <3>1
  <2>3. gor.steps # Rest8 => gor'.paths = gor.paths
    BY <1>2, <1>4, <1>7
  <2>4. gor.steps \in {Upgrade, Rest8} => \A m \in Nodes : disk'[m]["src"] = "old"
    BY <1>4, <1>10 DEF Inv, BackedUp
  <2>5. gor.steps = Upgrade => gor.steps # Rest8
    BY <1>4
  <2> QED
    BY <1>1, <1>2, <2>1, <2>2, <2>3, <2>4, <2>5 DEF Inv, BackedUp
<1>13. OldVersionKept'
  BY <1>12 DEF OldVersionKept, BackedUp
\* What the other steps leave alone.
<1>14. \A m \in Nodes : \/ proc'[m] = proc[m]
                        \/ /\ m = n /\ Step \in {"STOP_CLUSTER", "ROLLBACK_PREPARE", "START_CLUSTER", "ROLLBACK_RESTART"}
  BY <1>2, <1>6, ProcIs DEF Inv
<1>15. \A m \in Nodes : meta'[m] = meta[m] \/ (m = n /\ Step = "SWITCH_VERSION" /\ meta'[m] = Target(m))
  BY <1>6
\* A step that is not broken is done on the node.
<1>16. gor'.at = "node" /\ ~gor'.bad => ~gor.bad /\ part = "all" /\ ~Fails(n) /\ gor'.todo = gor.todo \ {n}
  BY <1>2
<1>17. \A rest : AtWork(rest)' => AtWork(rest) /\ part = "all" /\ ~Fails(n) /\ gor'.todo = gor.todo \ {n}
  BY <1>1, <1>2, <1>16 DEF AtWork
<1>18. Reached'
  <2> SUFFICES ASSUME NEW m \in Nodes PROVE ReachedAt(m)'
    BY DEF Reached
  <2>1. ReachedAt(m) /\ Target(m)' = Target(m)
    BY <1>1 DEF Inv, Reached, Target
  <2>2. gor.steps \in Before("STOP_CLUSTER") => meta'[m] = "src"
    BY <1>4, <1>15, <2>1 DEF ReachedAt, Before
  <2>3. gor.steps \in Before("SWITCH_VERSION") => proc'[m].dir = "src"
    <3>1. gor.steps \in Before("SWITCH_VERSION") => Step \notin {"START_CLUSTER", "ROLLBACK_RESTART", "ROLLBACK_PREPARE"}
      BY <1>4 DEF Before
    <3> QED
      BY <1>2, <1>6, <1>14, <2>1, <3>1, ProcIs DEF ReachedAt, Inv
  <2>4. Past("MERGE_CONFIG", Rest6, m)' => disk'[m][Target(m)] = "new"
    <3>1. CASE ~gor.back /\ gor.steps \notin Before("MERGE_CONFIG")
      <4>1. Step \notin {"DISTRIBUTE", "MERGE_CONFIG", "ROLLBACK_RESTORE"}
        BY <1>4, <1>5, <3>1 DEF Before
      <4> QED
        BY <1>10, <2>1, <3>1, <4>1 DEF ReachedAt, Past
    <3>2. CASE AtWork(Rest6)' /\ m \notin gor'.todo /\ ~gor.back
      <4>1. AtWork(Rest6) /\ part = "all" /\ Step = "MERGE_CONFIG" /\ (m = n \/ m \notin gor.todo)
        BY <1>4, <1>17, <3>2 DEF AtWork
      <4>2. CASE m = n
        BY <1>2, <1>6, <4>1, <4>2, DiskIs DEF Inv
      <4>3. CASE m # n /\ m \notin gor.todo
        BY <1>6, <2>1, <3>2, <4>1, <4>3 DEF ReachedAt, Past
      <4> QED
        BY <4>1, <4>2, <4>3
    <3> QED
      BY <1>2, <3>1, <3>2 DEF Past
  <2>5. \/ AtWork(Rest5)' /\ m \notin gor'.todo
        \/ gor.steps = Rest4
        \/ gor.steps = Rest3 /\ gor'.at = "step"
        \/ AtWork(Rest3)' /\ m \in gor'.todo
        => proc'[m].st = "off"
    <3>1. CASE AtWork(Rest5)' /\ m \notin gor'.todo
      <4>1. AtWork(Rest5) /\ part = "all" /\ Step = "STOP_CLUSTER" /\ (m = n \/ m \notin gor.todo)
        BY <1>4, <1>17, <3>1 DEF AtWork
      <4>2. proc[m].dir = "src" /\ meta[m] = "src"
        BY <1>4, <2>1, <4>1 DEF ReachedAt, Before
      <4>3. CASE m = n
        BY <1>2, <1>6, <4>1, <4>2, <4>3, ProcIs DEF Inv
      <4>4. CASE m # n /\ m \notin gor.todo
        BY <1>6, <2>1, <4>1, <4>4 DEF ReachedAt
      <4> QED
        BY <4>1, <4>3, <4>4
    <3>2. CASE gor.steps = Rest4
      BY <1>4, <1>14, <2>1, <3>2 DEF ReachedAt
    <3>3. CASE AtWork(Rest3)' /\ m \in gor'.todo
      BY <1>6, <1>17, <2>1, <3>3 DEF ReachedAt
    <3>4. gor'.at # "step"
      BY <1>2
    <3> QED
      BY <3>1, <3>2, <3>3, <3>4
  <2>6. Past("SWITCH_VERSION", Rest4, m)' => meta'[m] = Target(m)
    <3>1. CASE ~gor.back /\ gor.steps \notin Before("SWITCH_VERSION")
      BY <1>15, <2>1, <3>1 DEF ReachedAt, Past
    <3>2. CASE AtWork(Rest4)' /\ m \notin gor'.todo /\ ~gor.back
      <4>1. AtWork(Rest4) /\ part = "all" /\ Step = "SWITCH_VERSION" /\ (m = n \/ m \notin gor.todo)
        BY <1>4, <1>17, <3>2 DEF AtWork
      <4>2. CASE m = n
        BY <1>6, <4>1, <4>2
      <4>3. CASE m # n /\ m \notin gor.todo
        BY <1>6, <2>1, <3>2, <4>1, <4>3 DEF ReachedAt, Past
      <4> QED
        BY <4>1, <4>2, <4>3
    <3> QED
      BY <1>2, <3>1, <3>2 DEF Past
  <2>7. Past("START_CLUSTER", Rest3, m)' => proc'[m].dir = Target(m) /\ proc'[m].ver = "new" /\ proc'[m].st # "off"
    <3>1. CASE ~gor.back /\ gor.steps \notin Before("START_CLUSTER")
      <4>1. Step \notin {"STOP_CLUSTER", "ROLLBACK_PREPARE", "START_CLUSTER", "ROLLBACK_RESTART"}
        BY <1>4, <1>5, <3>1 DEF Before
      <4> QED
        BY <1>14, <2>1, <3>1, <4>1 DEF ReachedAt, Past
    <3>2. CASE AtWork(Rest3)' /\ m \notin gor'.todo /\ ~gor.back
      <4>1. AtWork(Rest3) /\ part = "all" /\ ~Fails(n) /\ Step = "START_CLUSTER" /\ (m = n \/ m \notin gor.todo)
        BY <1>4, <1>17, <3>2 DEF AtWork
      <4>2. CASE m = n
        <5>1. gor.steps \notin Before("SWITCH_VERSION") /\ gor.steps \notin Before("MERGE_CONFIG")
          BY <1>4, <4>1 DEF Before
        <5>2. proc[m].st = "off" /\ meta[m] = Target(m) /\ disk[m][Target(m)] = "new"
          BY <1>1, <2>1, <3>2, <4>1, <4>2, <5>1 DEF ReachedAt, Past
        <5> QED
          BY <1>2, <1>6, <4>1, <4>2, <5>2, ProcIs DEF Inv, Whole
      <4>3. CASE m # n /\ m \notin gor.todo
        BY <1>6, <2>1, <3>2, <4>1, <4>3 DEF ReachedAt, Past
      <4> QED
        BY <4>1, <4>2, <4>3
    <3> QED
      BY <1>2, <3>1, <3>2 DEF Past
  <2> QED
    BY <1>2, <2>1, <2>2, <2>3, <2>4, <2>5, <2>6, <2>7 DEF ReachedAt
<1>19. Returned'
  <2>1. AsBefore' => AsBefore
    BY <1>2, <1>8 DEF AsBefore
  <2>2. AsBefore => Step \notin {"STOP_CLUSTER", "SWITCH_VERSION", "START_CLUSTER", "ROLLBACK_PREPARE", "ROLLBACK_RESTORE",
                                 "ROLLBACK_RESTART", "ROLLBACK_VERIFY"}
    <3>1. AsBefore => gor.steps \notin {Rest5, Rollback, Back3, Back2, Back1}
      BY <1>1 DEF Inv, Returned, AsBefore
    <3>2. AsBefore /\ ~gor.back => gor.steps \in Before("STOP_CLUSTER")
      BY <1>1 DEF Inv, Returned, AsBefore
    <3> QED
      BY <1>4, <1>5, <3>1, <3>2 DEF Before
  <2>3. ASSUME NEW m \in Nodes PROVE ReturnedAt(m)'
    <3>1. ReturnedAt(m)
      BY DEF Inv, Returned
    <3>2. proc'[m].dir # meta'[m] => proc'[m].st = "off"
      <4>1. CASE m = n /\ Step = "SWITCH_VERSION"
        <5>1. proc[m].st = "off" /\ proc'[m] = proc[m]
          BY <1>4, <1>14, <4>1 DEF Inv, Reached, ReachedAt
        <5> QED
          BY <5>1
      <4>2. CASE ~(m = n /\ Step = "SWITCH_VERSION")
        BY <1>2, <1>6, <1>14, <1>15, <3>1, <4>2, ProcIs DEF ReturnedAt, Inv
      <4> QED
        BY <4>1, <4>2
    <3>3. \/ AtWork(Rollback)' /\ m \notin gor'.todo
          \/ gor.steps = Back3
          \/ gor.steps = Back2 /\ gor'.at = "step"
          \/ AtWork(Back2)' /\ m \in gor'.todo
          => proc'[m].st = "off"
      <4>1. CASE AtWork(Rollback)' /\ m \notin gor'.todo
        <5>1. AtWork(Rollback) /\ part = "all" /\ Step = "ROLLBACK_PREPARE" /\ (m = n \/ m \notin gor.todo)
          BY <1>4, <1>17, <4>1 DEF AtWork
        <5>2. CASE m = n
          BY <1>2, <1>6, <3>1, <5>1, <5>2, ProcIs DEF ReturnedAt, Inv
        <5>3. CASE m # n /\ m \notin gor.todo
          BY <1>6, <3>1, <5>1, <5>3 DEF ReturnedAt
        <5> QED
          BY <5>1, <5>2, <5>3
      <4>2. CASE gor.steps = Back3
        BY <1>4, <1>14, <3>1, <4>2 DEF ReturnedAt
      <4>3. CASE AtWork(Back2)' /\ m \in gor'.todo
        BY <1>6, <1>17, <3>1, <4>3 DEF ReturnedAt
      <4>4. gor'.at # "step"
        BY <1>2
      <4> QED
        BY <4>1, <4>2, <4>3, <4>4
    <3>4. AsBefore' => disk'[m]["src"] = "old"
      BY <1>12 DEF AsBefore, BackedUp
    <3>5. AtWork(Back3)' /\ m \notin gor'.todo => disk'[m]["src"] = "old"
      <4> SUFFICES ASSUME AtWork(Back3)', m \notin gor'.todo PROVE disk'[m]["src"] = "old"
        OBVIOUS
      <4>1. AtWork(Back3) /\ part = "all" /\ Step = "ROLLBACK_RESTORE" /\ (m = n \/ m \notin gor.todo)
        BY <1>4, <1>17 DEF AtWork
      <4>2. CASE m = n
        <5>1. IF m \in gor.paths THEN backup[m] = "old" ELSE disk[m]["src"] = "old"
          BY DEF Inv, BackedUp
        <5> QED
          BY <1>2, <1>6, <4>1, <4>2, <5>1, DiskIs DEF Inv
      <4>3. CASE m # n /\ m \notin gor.todo
        BY <1>6, <3>1, <4>1, <4>3 DEF ReturnedAt
      <4> QED
        BY <4>1, <4>2, <4>3
    <3>6. gor.steps \in {Back2, Back1} => disk'[m]["src"] = "old" /\ meta'[m] = "src"
      BY <1>4, <1>10, <1>15, <3>1 DEF ReturnedAt
    <3>7. AsBefore => meta'[m] = "src" /\ proc'[m].dir = "src" /\ proc'[m].ver = "old" /\ proc'[m].st # "off"
      BY <1>14, <1>15, <2>2, <3>1 DEF ReturnedAt
    <3>8. AtWork(Back2)' /\ m \notin gor'.todo => proc'[m].dir = "src" /\ proc'[m].ver = "old" /\ proc'[m].st # "off"
      <4> SUFFICES ASSUME AtWork(Back2)', m \notin gor'.todo
                   PROVE  proc'[m].dir = "src" /\ proc'[m].ver = "old" /\ proc'[m].st # "off"
        OBVIOUS
      <4>1. AtWork(Back2) /\ part = "all" /\ Step = "ROLLBACK_RESTART" /\ (m = n \/ m \notin gor.todo)
        BY <1>4, <1>17 DEF AtWork
      <4>2. gor.steps = Back2
        BY <4>1 DEF AtWork
      <4>3. CASE m = n
        <5>1. proc[m].st = "off" /\ meta[m] = "src" /\ disk[m]["src"] = "old"
          BY <1>1, <3>1, <4>1, <4>2, <4>3 DEF ReturnedAt
        <5> QED
          BY <1>2, <1>6, <4>1, <4>3, <5>1, ProcIs DEF Inv, Whole
      <4>4. CASE m # n /\ m \notin gor.todo
        BY <1>6, <3>1, <4>1, <4>4 DEF ReturnedAt
      <4> QED
        BY <4>1, <4>3, <4>4
    <3>9. gor.steps = Back1 => proc'[m].dir = "src" /\ proc'[m].ver = "old" /\ proc'[m].st # "off"
      BY <1>4, <1>14, <3>1 DEF ReturnedAt
    <3> QED
      BY <1>2, <1>3, <2>1, <3>2, <3>3, <3>4, <3>5, <3>6, <3>7, <3>8, <3>9 DEF ReturnedAt
  <2>4. gor.steps \in {KeptRunning, Kept1} => AsBefore'
    <3>1. gor.steps \in {KeptRunning, Kept1} => gor.steps # Rest8
      BY Different
    <3>2. gor.steps # Rest8 => gor'.paths = gor.paths
      BY <1>2, <1>4, <1>7
    <3> QED
      BY <1>2, <3>1, <3>2 DEF Inv, Returned, AsBefore
  <2> QED
    BY <1>1, <1>2, <1>3, <2>1, <2>3, <2>4 DEF Inv, Returned
<1>20. Cancelled'
  BY <1>1, <1>2, GoesOn DEF Inv, Cancelled, Working
<1>21. Reported'
  BY <1>1, <1>2 DEF Inv, Reported, Settled
<1> QED
  BY <1>9, <1>12, <1>13, <1>18, <1>19, <1>20, <1>21 DEF Inv

-----------------------------------------------------------------------------
(* The specification.                                                      *)

LEMMA InitInv == Init => Inv
<1> SUFFICES ASSUME Init PROVE Inv
  OBVIOUS
<1>1. /\ gor.at = "none" /\ gor.steps = Upgrade /\ gor.todo = {} /\ ~gor.bad /\ ~gor.back /\ gor.task = NoTask
      /\ ~gor.entered /\ ~gor.backed /\ gor.paths = {} /\ gor.seen = "none" /\ gor = Fresh
  BY DEF Init, Fresh
<1>2. NoTask \in TaskType
  BY DEF NoTask, TaskType, TaskStatus
<1>3. gor \in Goroutine
  BY <1>2, <1>1 DEF Fresh, Goroutine, Places, Forward, ExecStatus
<1>4. Types
  <2>1. /\ disk \in [Nodes -> [Dirs -> {"none", "torn"} \cup Whole]] /\ backup \in [Nodes -> {"none", "torn"} \cup Whole]
        /\ meta \in [Nodes -> Dirs] /\ proc \in [Nodes -> [st : {"up", "off", "dead"}, dir : Dirs, ver : Whole]]
        /\ nodes \in [Nodes -> NodeStatus]
    BY DEF Init, Dirs, Whole, NodeStatus
  <2>2. faults \in 0..MaxFaults
    BY BoundsAssumption DEF Init
  <2>3. inPlace \subseteq Nodes /\ agents \subseteq Nodes /\ version \in {"old", "new"} /\ task \in TaskType
    BY <1>2 DEF Init
  <2>4. /\ exec \in ExecStatus /\ cancel \in {"none", "claimed", "pending", "running"} \cup Ended
        /\ {open, bound, touched} \subseteq BOOLEAN /\ unsaved \subseteq Nodes
    BY DEF Init, ExecStatus
  <2>5. gor.steps \in (IF gor.back THEN Backward ELSE Forward)
    BY <1>1 DEF Forward
  <2> QED
    BY <1>1, <1>3, <2>1, <2>2, <2>3, <2>4, <2>5 DEF Types
<1>5. /\ \A n \in Nodes : disk[n]["src"] = "old" /\ meta[n] = "src" /\ proc[n].dir = "src" /\ proc[n].ver = "old" /\ proc[n].st = "up"
      /\ version = "old"
  BY DEF Init, Dirs
<1>6. OldVersionKept /\ BackedUp
  BY <1>1, <1>5, Different DEF OldVersionKept, BackedUp
<1>7. Reached
  BY <1>1, <1>5, Different DEF Reached, ReachedAt, Past, Before, AtWork
<1>8. Returned
  BY <1>1, <1>5, Different DEF Returned, ReturnedAt, Before, AtWork, AsBefore
<1>9. Cancelled
  BY <1>1 DEF Init, Cancelled, Working, Settled, NoTask
<1>10. Reported
  BY <1>1 DEF Init, Reported, Before, NoTask
<1> QED
  BY <1>4, <1>6, <1>7, <1>8, <1>9, <1>10 DEF Inv

LEMMA NextInv == Inv /\ [Next]_vars => Inv'
<1> SUFFICES ASSUME Inv, [Next]_vars PROVE Inv'
  OBVIOUS
<1>1. CASE Works
  BY <1>1, StartPlanExecutionWithExecutionInv, executeTaskInv, syncExecutionFromTaskInv, startStepInv, NodeStepInv,
     finishStepInv, breakStepInv, failStepInv, StartRollbackInv, SettleFailureInv, recordFailureClosureStepInv,
     FinishSuccessInv DEF Works
<1>2. CASE Answers
  BY <1>2, RequestCancelInv, FinishCancelInv DEF Answers
<1>3. CASE UNCHANGED vars
  <2>1. agents' \subseteq Nodes /\ faults' \in 0..MaxFaults
    BY <1>3 DEF vars, Inv, Types
  <2> QED
    BY <1>3, <2>1, AgentsInv DEF vars
<1> QED
  BY <1>1, <1>2, <1>3, CreateExecutionInv, ClaimCancelInv, EnvironmentInv DEF Next

LEMMA Safe == Spec => []Inv
BY InitInv, NextInv, PTL DEF Spec

\* Every variable keeps its type, and the goroutine has a complete backup of
\* every directory it would restore (executeBackupStep).
THEOREM TypeCorrect == Spec => []TypeOK
<1>1. Inv => TypeOK
  BY DEF Inv, Types, BackedUp, TypeOK, TaskType, TaskStatus, NodeStatus, ExecStatus, Goroutine
<1> QED
  BY <1>1, Safe, PTL

\* However the upgrade and its rollback fail, a node whose directory no longer
\* holds the old version has a complete backup (executeBackupStep).
THEOREM OldVersionSafe == Spec => []OldVersionKept
<1>1. Inv => OldVersionKept
  BY DEF Inv
<1> QED
  BY <1>1, Safe, PTL

\* An upgrade that was reported cancelled has not touched the cluster, and will
\* not (RequestCancel, executeTask).
THEOREM CancelHolds == Spec => []CancelIsFinal
<1>1. Inv => CancelIsFinal
  BY DEF Inv, Cancelled, CancelIsFinal, Begun
<1> QED
  BY <1>1, Safe, PTL

LEMMA InvSuccess == Inv => SuccessIsReal
<1>1. ASSUME Inv, task.status = "succeeded", NEW n \in Nodes
      PROVE  /\ version = "new" /\ meta[n] = Target(n) /\ disk[n][Target(n)] = "new"
             /\ proc[n].dir = Target(n) /\ proc[n].ver = "new" /\ proc[n].st # "off"
  <2>1. ~gor.back /\ gor.steps = <<>>
    BY <1>1 DEF Inv, Reported
  <2>2. /\ <<>> \notin Before("MERGE_CONFIG") /\ <<>> \notin Before("SWITCH_VERSION")
        /\ <<>> \notin Before("START_CLUSTER")
    BY NotEmpty DEF Before
  <2> QED
    BY <1>1, <2>1, <2>2 DEF Inv, Reached, ReachedAt, Past, Reported
<1> QED
  BY <1>1, NodesAssumption DEF SuccessIsReal, Upgraded

\* A task that is reported successful has upgraded the files, the records and
\* the process of every node (executeTask).
THEOREM SuccessHolds == Spec => []SuccessIsReal
BY InvSuccess, Safe, PTL

LEMMA InvRollback == Inv => RollbackIsReal
<1>1. ASSUME Inv, task.rollback = "rollback_succeeded"
      PROVE  gor.back /\ gor.steps = <<>>
  BY <1>1 DEF Inv, Reported
<1> QED
  BY <1>1 DEF RollbackIsReal, AsItWas, Inv, Returned, ReturnedAt

\* A rollback that is reported successful has brought back the files, the
\* records and the process of every node (rollbackTask).
THEOREM RollbackHolds == Spec => []RollbackIsReal
BY InvRollback, Safe, PTL

-----------------------------------------------------------------------------
(* The goroutine's copy of the nodes.                                      *)

\* What the copy has at the end of a rollback was saved so, or is on record as
\* not saved; no step begins with a node at its end.
Copied ==
    /\ ~gor.back \/ gor.at = "step" => gor.settled = {}
    /\ gor.at = "node" => gor.settled \cap gor.todo = {}
    /\ gor.at = "node" /\ ~gor.bad /\ gor.steps \notin {Back1, Kept1} => gor.settled = {}
    /\ gor.at \in {"node", "fail", "err"} =>
          \A n \in gor.settled \ unsaved : nodes[n] \in {"rollback_failed", "rollback_succeeded"}

\* What leaves the goroutine and the nodes alone, or ends the goroutine's work.
LEMMA CopyStays ==
    ASSUME Copied, UNCHANGED <<nodes, unsaved, gor>>
    PROVE  Copied'
BY DEF Copied

LEMMA CopyUnused ==
    ASSUME Copied, gor'.settled = gor.settled, gor'.back = gor.back, gor'.at \notin {"step", "node", "fail", "err"}
    PROVE  Copied'
BY DEF Copied

\* Before the rollback the copy has no node at its end.
LEMMA CopyEmpty ==
    ASSUME gor'.settled = {}
    PROVE  Copied'
BY DEF Copied

LEMMA NodeStepCopied ==
    ASSUME Inv, Copied, NEW n \in Nodes, NodeStep(n)
    PROVE  Copied'
<1>1. /\ gor.at = "node" /\ n \in gor.todo /\ n \notin gor.settled /\ gor.settled \cap gor.todo = {}
      /\ gor \in Goroutine /\ nodes \in [Nodes -> NodeStatus] /\ unsaved \subseteq Nodes
      /\ gor.steps # <<>> /\ gor.steps \in Forward \cup Backward
  BY DEF NodeStep, Copied, Inv, Types, Goroutine
<1>2. gor.back <=> Step \in {"ROLLBACK_PREPARE", "ROLLBACK_RESTORE", "ROLLBACK_RESTART", "ROLLBACK_VERIFY",
                             "KEEP_RUNNING", "VERIFY_SOURCE"}
  BY <1>1, StepOfTask DEF Inv
<1>3. gor.steps \in {Back1, Kept1} <=> Step \in {"ROLLBACK_VERIFY", "VERIFY_SOURCE"}
  BY <1>1, StepIs
<1>4. okStatus = "rollback_succeeded" <=> gor.steps \in {Back1, Kept1}
  BY <1>3 DEF okStatus
<1>5. CASE finishNodeStep(n) /\ UNCHANGED unsaved
  <2>1. /\ gor' = [gor EXCEPT !.todo = gor.todo \ {n}, !.paths = Recorded(n), !.settled = SettledAfter(n)]
        /\ nodes' = [nodes EXCEPT ![n] = okStatus]
    BY <1>1, <1>5 DEF finishNodeStep, Goroutine
  <2>2. /\ gor'.settled = SettledAfter(n) /\ gor'.todo = gor.todo \ {n} /\ gor'.at = "node"
        /\ gor'.back = gor.back /\ gor'.bad = gor.bad /\ gor'.steps = gor.steps
    BY <1>1, <2>1 DEF Goroutine
  <2>3. CASE gor.steps \in {Back1, Kept1}
    <3>1. gor'.settled = gor.settled \cup {n} /\ gor.back /\ nodes' = [nodes EXCEPT ![n] = "rollback_succeeded"]
      BY <1>2, <1>3, <1>4, <2>1, <2>2, <2>3 DEF SettledAfter
    <3>2. gor'.settled \cap gor'.todo = {}
      BY <1>1, <2>2, <3>1
    <3>3. ASSUME NEW m \in gor'.settled \ unsaved' PROVE nodes'[m] \in {"rollback_failed", "rollback_succeeded"}
      <4>1. m = n \/ (m # n /\ m \in gor.settled \ unsaved)
        BY <1>5, <3>1, <3>3
      <4>2. m \in Nodes
        BY <1>1, <3>1, <3>3 DEF Goroutine
      <4>3. m # n => nodes[m] \in {"rollback_failed", "rollback_succeeded"}
        BY <1>1, <4>1 DEF Copied
      <4> QED
        BY <1>1, <3>1, <4>1, <4>2, <4>3
    <3> QED
      BY <2>2, <2>3, <3>1, <3>2, <3>3 DEF Copied
  <2>4. CASE gor.steps \notin {Back1, Kept1}
    <3>1. gor'.settled = gor.settled
      BY <1>4, <2>2, <2>4 DEF SettledAfter
    <3> QED
      BY <1>1, <1>5, <2>1, <2>2, <2>4, <3>1 DEF Copied
  <2> QED
    BY <2>3, <2>4
<1>6. CASE /\ gor' = afterFailure(n)
           /\ \/ nodes' = [nodes EXCEPT ![n] = deriveFailureStatus] /\ unsaved' = unsaved
              \/ nodes' = nodes /\ unsaved' = unsaved \cup {n}
  <2>1. /\ gor'.back = gor.back /\ gor'.steps = gor.steps
        /\ gor'.settled = IF gor.back THEN gor.settled \cup {n} ELSE gor.settled
        /\ (gor'.at = "node" /\ gor'.todo = gor.todo \ {n} /\ gor'.bad) \/ gor'.at = "fail"
    BY <1>1, <1>6, AfterFailureIs
  <2>2. CASE gor.back
    <3>1. nodes' = [nodes EXCEPT ![n] = "rollback_failed"] \/ (nodes' = nodes /\ n \in unsaved')
      BY <1>6, <2>2 DEF deriveFailureStatus
    <3>2. ASSUME NEW m \in gor'.settled \ unsaved' PROVE nodes'[m] \in {"rollback_failed", "rollback_succeeded"}
      <4>1. m = n \/ (m # n /\ m \in gor.settled \ unsaved)
        BY <1>6, <2>1, <2>2, <3>2
      <4>2. m \in Nodes
        BY <1>1, <2>1, <2>2, <3>2 DEF Goroutine
      <4>3. m # n => nodes[m] \in {"rollback_failed", "rollback_succeeded"}
        BY <1>1, <4>1 DEF Copied
      <4> QED
        BY <1>1, <3>1, <3>2, <4>1, <4>2, <4>3
    <3>3. gor'.at = "node" => gor'.settled \cap gor'.todo = {} /\ gor'.bad
      BY <1>1, <2>1, <2>2
    <3> QED
      BY <2>1, <2>2, <3>2, <3>3 DEF Copied
  <2>3. CASE ~gor.back
    BY <2>1, <2>3, CopyEmpty DEF Copied
  <2> QED
    BY <2>2, <2>3
<1>7. CASE unsavedNodeStep(n) /\ UNCHANGED nodes
  <2>1. /\ gor' = [gor EXCEPT !.at = IF gor.back THEN "err" ELSE "fail", !.paths = Recorded(n), !.settled = SettledAfter(n)]
        /\ unsaved' = IF okStatus = "rollback_succeeded" THEN unsaved \cup {n} ELSE unsaved
    BY <1>7 DEF unsavedNodeStep
  <2>2. /\ gor'.settled = SettledAfter(n) /\ gor'.at \in {"fail", "err"} /\ gor'.back = gor.back
    BY <1>1, <2>1 DEF Goroutine
  <2>3. CASE gor.steps \in {Back1, Kept1}
    <3>1. gor'.settled = gor.settled \cup {n} /\ gor.back /\ unsaved' = unsaved \cup {n}
      BY <1>2, <1>3, <1>4, <2>1, <2>2, <2>3 DEF SettledAfter
    <3>2. ASSUME NEW m \in gor'.settled \ unsaved' PROVE m \in gor.settled \ unsaved
      BY <3>1, <3>2
    <3> QED
      BY <1>1, <1>7, <2>2, <3>1, <3>2 DEF Copied
  <2>4. CASE gor.steps \notin {Back1, Kept1}
    <3>1. gor'.settled = gor.settled /\ unsaved' = unsaved
      BY <1>4, <2>1, <2>2, <2>4 DEF SettledAfter
    <3> QED
      BY <1>1, <1>7, <2>2, <3>1 DEF Copied
  <2> QED
    BY <2>3, <2>4
<1> QED
  BY <1>5, <1>6, <1>7 DEF NodeStep, failNodeStep

LEMMA finishStepCopied == Inv /\ Copied /\ finishStep => Copied'
<1> SUFFICES ASSUME Inv, Copied, finishStep PROVE Copied'
  OBVIOUS
<1>1. /\ gor.at = "node" /\ ~gor.bad /\ UNCHANGED <<nodes, unsaved>>
      /\ gor \in Goroutine /\ gor.task \in TaskType /\ gor.steps # <<>>
  BY DEF finishStep, Inv, Types, Goroutine
<1>2. gor'.settled = gor.settled /\ gor'.back = gor.back
  BY <1>1 DEF finishStep, finished, Goroutine
<1>3. \/ gor'.at = "step" /\ Tail(gor.steps) # <<>>
      \/ gor'.at \in {"close", "won", "err", "fail"}
  BY <1>1 DEF finishStep, finished, Goroutine
<1>4. CASE gor'.at = "step" /\ Tail(gor.steps) # <<>>
  <2>1. gor.steps \notin {Back1, Kept1}
    BY <1>4, Tails
  <2> QED
    BY <1>1, <1>2, <2>1, CopyEmpty DEF Copied
<1>5. CASE gor'.at \in {"close", "won"}
  BY <1>2, <1>5, CopyUnused
<1>6. CASE gor'.at \in {"err", "fail"}
  BY <1>1, <1>2, <1>6 DEF Copied
<1> QED
  BY <1>3, <1>4, <1>5, <1>6

LEMMA failStepCopied == Inv /\ Copied /\ failStep => Copied'
<1> SUFFICES ASSUME Inv, Copied, failStep PROVE Copied'
  OBVIOUS
<1> DEFINE t == IF gor.back THEN [gor.task EXCEPT !.rollback = "rollback_failed"] ELSE [gor.task EXCEPT !.status = "failed"]
<1>1. gor.at = "fail" /\ gor \in Goroutine
  BY DEF failStep, Inv, Types
<1>2. PICK settled \in SUBSET Nodes, saved \in SUBSET Nodes, lost \in SUBSET Nodes :
        /\ gor' = [gor EXCEPT !.at = "err", !.task = t, !.todo = {}, !.bad = FALSE, !.settled = settled]
        /\ nodes' = Left(saved, "rollback_failed") /\ unsaved' = unsaved \cup lost
        /\ settled = IF gor.back THEN gor.settled \cup saved \cup lost ELSE gor.settled
        /\ saved \cap gor.settled = {}
  BY failStepDoes
<1> HIDE DEF t
<1>3. gor'.settled = settled /\ gor'.at = "err" /\ gor'.back = gor.back
  BY <1>1, <1>2 DEF Goroutine
<1>4. CASE ~gor.back
  BY <1>2, <1>3, <1>4, CopyEmpty DEF Copied
<1>5. CASE gor.back
  <2>1. SUFFICES ASSUME NEW n \in gor'.settled \ unsaved' PROVE nodes'[n] \in {"rollback_failed", "rollback_succeeded"}
    BY <1>3, <1>5 DEF Copied
  <2>2. n \in saved \/ (n \in gor.settled \ unsaved /\ n \notin saved)
    BY <1>2, <1>3, <1>5, <2>1
  <2>3. n \in Nodes
    BY <1>2, <1>3, <2>1
  <2> QED
    BY <1>1, <1>2, <2>2, <2>3 DEF Left, Copied
<1> QED
  BY <1>4, <1>5

LEMMA InitCopied == Init => Copied
BY DEF Init, Fresh, Copied

LEMMA NextCopied == Inv /\ Copied /\ [Next]_vars => Copied'
<1> SUFFICES ASSUME Inv, Copied, [Next]_vars PROVE Copied'
  OBVIOUS
<1>1. gor \in Goroutine /\ gor.task \in TaskType /\ (gor.at \in {"none", "create", "bind", "claim", "sync", "move"} => ~gor.back)
  BY DEF Inv, Types, Goroutine
<1>2. CASE UNCHANGED vars \/ ClaimCancel \/ FinishCancel
  BY <1>2, CopyStays DEF vars, ClaimCancel, FinishCancel
<1>3. CASE RequestCancel
  <2>1. CASE UNCHANGED nodes
    BY <1>3, <2>1, CopyStays DEF RequestCancel
  <2>2. CASE bound /\ task.status = "pending"
    <3>1. gor.at \notin Working /\ UNCHANGED gor
      BY <1>3, <2>2 DEF RequestCancel, Inv, Cancelled, Begun
    <3> QED
      BY <3>1 DEF Copied, Working
  <2> QED
    BY <1>3, <2>1, <2>2 DEF RequestCancel
<1>4. CASE \/ CreateExecution \/ StartPlanExecutionWithExecution \/ executeTask \/ syncExecutionFromTask
  <2>1. gor'.settled = gor.settled /\ gor'.back = gor.back
    BY <1>1, <1>4 DEF CreateExecution, StartPlanExecutionWithExecution, executeTask, syncExecutionFromTask, Moves, Goroutine
  <2>2. gor'.at \notin {"step", "node", "fail", "err"} \/ gor.at = "move"
    BY <1>1, <1>4 DEF CreateExecution, StartPlanExecutionWithExecution, executeTask, syncExecutionFromTask, Moves, Goroutine
  <2> QED
    BY <1>1, <2>1, <2>2, CopyUnused, CopyEmpty DEF Copied
<1>5. CASE startStep
  <2>1. gor.at = "step" /\ gor'.settled = gor.settled
    BY <1>1, <1>5 DEF startStep, Goroutine
  <2> QED
    BY <2>1, CopyEmpty DEF Copied
<1>6. CASE breakStep
  <2>1. gor.at = "node" /\ gor'.at = "fail" /\ gor'.settled = gor.settled /\ gor'.back = gor.back /\ UNCHANGED <<nodes, unsaved>>
    BY <1>1, <1>6 DEF breakStep, Goroutine
  <2> QED
    BY <2>1 DEF Copied
<1>7. CASE StartRollback
  <2>1. ~gor.back /\ gor'.settled = gor.settled
    BY <1>1, <1>7 DEF StartRollback, Goroutine
  <2> QED
    BY <2>1, CopyEmpty DEF Copied
<1>8. CASE SettleFailure \/ recordFailureClosureStep \/ FinishSuccess \/ Restart
  <2>1. gor'.settled = gor.settled /\ gor'.back = gor.back /\ gor'.at \notin {"step", "node", "fail", "err"}
    BY <1>1, <1>8 DEF SettleFailure, recordFailureClosureStep, FinishSuccess, Restart, Goroutine
  <2> QED
    BY <2>1, CopyUnused
<1>9. CASE \E n \in Nodes : AgentGoesOffline(n) \/ AgentReturns(n) \/ ProcessDies(n) \/ ProcessRestarts(n)
  BY <1>9, CopyStays DEF AgentGoesOffline, AgentReturns, ProcessDies, ProcessRestarts
<1> QED
  BY <1>2, <1>3, <1>4, <1>5, <1>6, <1>7, <1>8, <1>9, NodeStepCopied, finishStepCopied, failStepCopied
  DEF Next, Works, Answers, Environment

-----------------------------------------------------------------------------
(* The nodes' statuses.                                                    *)

\* How a rollback ends, and how the nodes do when that is recorded.
RollbackEnds == {"skipped", "rollback_failed", "rollback_succeeded"}
NodesEnd(rollback) ==
    /\ rollback = "skipped" => \A n \in Nodes \ unsaved : nodes[n] = "failed"
    /\ rollback = "rollback_succeeded" => \A n \in Nodes \ unsaved : nodes[n] = "rollback_succeeded"
    /\ rollback = "rollback_failed" => \A n \in Nodes \ unsaved : nodes[n] \in {"rollback_failed", "rollback_succeeded"}

\* A rollback has ended for the goroutine, or on record, only once the steps are
\* over: no node is worked on any more.
EndsLate ==
    /\ gor.at \in {"node", "fail", "err", "close", "last", "won", "commit"} => touched
    /\ \A rollback \in {task.rollback, gor.task.rollback} :
         /\ rollback \in RollbackEnds => touched /\ gor.at \in {"err", "close", "last"} \cup Settled
         /\ rollback = "rollback_failed" => gor.back
         /\ rollback = "skipped" => gor.at # "err"

\* The nodes are settled before the task: one by one in the last check of a
\* rollback, together where an upgrade ends.
Marked ==
    /\ gor.steps \in {Back1, Kept1} /\ gor.at = "node" /\ ~gor.bad =>
          \A n \in Nodes \ (gor.todo \cup unsaved) : nodes[n] = "rollback_succeeded"
    /\ gor.at = "commit" \/ task.status = "succeeded" => \A n \in Nodes \ unsaved : nodes[n] = "succeeded"
    /\ gor.at \in {"close", "last"} => NodesEnd(gor.task.rollback)
    /\ NodesEnd(task.rollback)

Follow == EndsLate /\ Marked

\* Before that no rollback has ended.
LEMMA NoEndYet ==
    ASSUME Inv, Follow, gor.at \notin {"err", "close", "last"} \cup Settled \/ (gor.at = "err" /\ ~gor.back)
    PROVE  task.rollback \notin RollbackEnds /\ gor.task.rollback \notin RollbackEnds
BY DEF Inv, Reported, Follow, EndsLate, RollbackEnds, Settled

LEMMA NoEnd ==
    ASSUME NEW rollback, rollback \notin RollbackEnds
    PROVE  NodesEnd(rollback)
BY DEF NodesEnd, RollbackEnds

\* What leaves the goroutine, or where it is at work, alone.
LEMMA Elsewhere ==
    ASSUME Follow, UNCHANGED <<task, nodes, unsaved, touched, gor>>
    PROVE  Follow'
BY DEF Follow, EndsLate, Marked, NodesEnd

LEMMA Leaves ==
    ASSUME Follow, UNCHANGED <<task, nodes, unsaved, touched>>, gor'.task = gor.task, gor'.back = gor.back,
           gor'.at \in Settled
    PROVE  Follow'
BY DEF Follow, EndsLate, Marked, NodesEnd, Settled

\* Between two steps, and where a step ends without a rollback's end.
LEMMA Between ==
    ASSUME Inv, Follow, nodes' \in [Nodes -> NodeStatus],
           gor.at \notin {"err", "close", "last"} \cup Settled \/ (gor.at = "err" /\ ~gor.back),
           task'.rollback \notin RollbackEnds, gor'.task.rollback \notin RollbackEnds,
           task'.status # "succeeded", gor'.at \notin {"node", "commit", "close", "last"},
           gor'.at \in {"fail", "err", "won"} => touched'
    PROVE  Follow'
<1>1. EndsLate'
  BY DEF EndsLate, RollbackEnds
<1>2. NodesEnd(task.rollback)'
  BY DEF NodesEnd, RollbackEnds
<1>3. Marked'
  BY <1>2 DEF Marked
<1> QED
  BY <1>1, <1>3 DEF Follow

-----------------------------------------------------------------------------
(* Steps that leave the nodes alone.                                       *)

LEMMA StartPlanFollow == Inv /\ Follow /\ StartPlanExecutionWithExecution => Follow'
<1> SUFFICES ASSUME Inv, Follow, StartPlanExecutionWithExecution PROVE Follow'
  OBVIOUS
<1>1. UNCHANGED <<nodes, unsaved, touched>>
  BY DEF StartPlanExecutionWithExecution
<1>2. /\ gor.at \in {"create", "bind"}
      /\ \/ gor' = [gor EXCEPT !.at = "bind", !.task = task'] /\ task' = [task EXCEPT !.status = "pending"]
         \/ gor' = [gor EXCEPT !.at = "claim"] /\ task' = task
         \/ gor' = [gor EXCEPT !.at = "gone"] /\ task' = task
  BY DEF StartPlanExecutionWithExecution
<1>3. gor \in Goroutine /\ task \in TaskType /\ task.status \in {"none", "pending"} /\ nodes \in [Nodes -> NodeStatus]
  BY <1>2 DEF Inv, Types, Cancelled
<1>4. task.rollback \notin RollbackEnds /\ gor.task.rollback \notin RollbackEnds
  BY <1>2, NoEndYet DEF Settled
<1>5. /\ task'.rollback = task.rollback /\ task'.status # "succeeded"
      /\ gor'.at \in {"bind", "claim", "gone"} /\ gor'.task.rollback \in {task.rollback, gor.task.rollback}
  <2>1. task'.rollback = task.rollback /\ task'.status # "succeeded"
    BY <1>2, <1>3 DEF TaskType
  <2>2. gor'.at \in {"bind", "claim", "gone"} /\ gor'.task \in {task', gor.task}
    BY <1>2, <1>3 DEF Goroutine
  <2> QED
    BY <2>1, <2>2
<1> QED
  BY <1>1, <1>2, <1>3, <1>4, <1>5, Between DEF Settled

LEMMA executeTaskFollow == Inv /\ Follow /\ executeTask => Follow'
<1> SUFFICES ASSUME Inv, Follow, executeTask PROVE Follow'
  OBVIOUS
<1>1. UNCHANGED <<nodes, unsaved, touched>>
  BY DEF executeTask
<1>2. /\ gor.at = "claim"
      /\ \/ gor' = [gor EXCEPT !.at = "sync", !.task = task'] /\ task' = [task EXCEPT !.status = "running"]
         \/ gor' = [gor EXCEPT !.at = "endsync", !.task = task] /\ task' = task
  BY DEF executeTask
<1>3. gor \in Goroutine /\ task \in TaskType /\ task.status \in {"pending", "cancelled"} /\ nodes \in [Nodes -> NodeStatus]
  BY <1>2 DEF Inv, Types, Cancelled
<1>4. task.rollback \notin RollbackEnds /\ gor.task.rollback \notin RollbackEnds
  BY <1>2, NoEndYet DEF Settled
<1>5. /\ task'.rollback = task.rollback /\ task'.status # "succeeded"
      /\ gor'.at \in {"sync", "endsync"} /\ gor'.task.rollback = task.rollback
  <2>1. task'.rollback = task.rollback /\ task'.status # "succeeded"
    BY <1>2, <1>3 DEF TaskType
  <2>2. gor'.at \in {"sync", "endsync"} /\ gor'.task = task'
    BY <1>2, <1>3 DEF Goroutine
  <2> QED
    BY <2>1, <2>2
<1> QED
  BY <1>1, <1>2, <1>3, <1>4, <1>5, Between DEF Settled

LEMMA syncExecutionFollow == Inv /\ Follow /\ syncExecutionFromTask => Follow'
<1> SUFFICES ASSUME Inv, Follow, syncExecutionFromTask PROVE Follow'
  OBVIOUS
<1>1. UNCHANGED <<task, nodes, unsaved, touched>>
  BY DEF syncExecutionFromTask
<1>2. gor \in Goroutine /\ nodes \in [Nodes -> NodeStatus]
  BY DEF Inv, Types
<1>3. \/ gor.at = "sync" /\ gor' = [gor EXCEPT !.seen = exec, !.at = "move"]
      \/ gor.at = "endsync" /\ gor' = [gor EXCEPT !.seen = exec, !.at = "endmove"]
      \/ gor.at = "move" /\ (gor' = [gor EXCEPT !.at = "step"] \/ gor' = [gor EXCEPT !.at = "gone"])
      \/ gor.at = "endmove" /\ gor' = [gor EXCEPT !.at = "gone"]
  BY DEF syncExecutionFromTask, Moves
<1>4. /\ gor'.task = gor.task /\ gor'.back = gor.back
      /\ (gor.at \in {"sync", "move"} /\ gor'.at \in {"move", "step", "gone"}) \/ gor'.at \in Settled
  BY <1>2, <1>3 DEF Goroutine, Settled
<1>5. CASE gor'.at \in Settled
  BY <1>1, <1>4, <1>5, Leaves
<1>6. CASE gor.at \in {"sync", "move"} /\ gor'.at \in {"move", "step", "gone"}
  <2>1. task.rollback \notin RollbackEnds /\ gor.task.rollback \notin RollbackEnds
    BY <1>6, NoEndYet DEF Settled
  <2>2. task.status # "succeeded"
    BY <1>6 DEF Inv, Reported, Settled
  <2> QED
    BY <1>1, <1>2, <1>4, <1>6, <2>1, <2>2, Between DEF Settled
<1> QED
  BY <1>4, <1>5, <1>6

LEMMA startStepFollow == Inv /\ Follow /\ startStep => Follow'
<1> SUFFICES ASSUME Inv, Follow, startStep PROVE Follow'
  OBVIOUS
<1> DEFINE t == IF gor.back THEN [gor.task EXCEPT !.rollback = "rollback_running"] ELSE [gor.task EXCEPT !.status = "running"]
           entered == gor.entered \/ Step = "STOP_CLUSTER"
           todo == IF Step \in NodeSteps THEN Nodes ELSE {}
<1>1. UNCHANGED <<nodes, unsaved>> /\ touched' = TRUE /\ gor.at = "step"
  BY DEF startStep
<1>2. \/ gor' = [gor EXCEPT !.task = t, !.entered = entered, !.bad = FALSE, !.todo = todo, !.at = "node"] /\ task' = t
      \/ gor' = [gor EXCEPT !.task = t, !.entered = entered, !.bad = FALSE, !.todo = {}, !.at = "err"] /\ task' = task
  BY DEF startStep, Saved, Inv, Types, Goroutine
<1>3. /\ gor \in Goroutine /\ gor.task \in TaskType /\ nodes \in [Nodes -> NodeStatus]
      /\ gor.steps # <<>> /\ gor.steps \in Forward \cup Backward
  BY <1>1 DEF Inv, Types, Goroutine
<1>4. task.rollback \notin RollbackEnds /\ gor.task.rollback \notin RollbackEnds
  BY <1>1, NoEndYet DEF Settled
<1>5. task.status # "succeeded" /\ gor.task.status # "succeeded"
  BY <1>1 DEF Inv, Reported, Settled
<1>6. t.rollback \notin RollbackEnds /\ t.status # "succeeded"
  BY <1>3, <1>4, <1>5 DEF TaskType, RollbackEnds
<1>7. gor.steps \in {Back1, Kept1} => todo = Nodes
  BY <1>3, StepIs DEF NodeSteps
<1> HIDE DEF t, entered, todo
<1>8. CASE task' = t /\ gor' = [gor EXCEPT !.task = t, !.entered = entered, !.bad = FALSE, !.todo = todo, !.at = "node"]
  <2>1. gor'.task = t /\ gor'.at = "node" /\ gor'.todo = todo /\ gor'.steps = gor.steps
    BY <1>3, <1>8 DEF Goroutine
  <2>2. EndsLate'
    BY <1>1, <1>6, <1>8, <2>1 DEF EndsLate, RollbackEnds
  <2>3. NodesEnd(task.rollback)'
    BY <1>6, <1>8 DEF NodesEnd, RollbackEnds
  <2>4. Marked'
    BY <1>6, <1>7, <1>8, <2>1, <2>3 DEF Marked
  <2> QED
    BY <2>2, <2>4 DEF Follow
<1>9. CASE task' = task /\ gor' = [gor EXCEPT !.task = t, !.entered = entered, !.bad = FALSE, !.todo = {}, !.at = "err"]
  <2>1. gor'.task = t /\ gor'.at = "err"
    BY <1>3, <1>9 DEF Goroutine
  <2> QED
    BY <1>1, <1>3, <1>4, <1>5, <1>6, <1>9, <2>1, Between DEF Settled
<1> QED
  BY <1>2, <1>8, <1>9

LEMMA breakStepFollow == Inv /\ Follow /\ breakStep => Follow'
<1> SUFFICES ASSUME Inv, Follow, breakStep PROVE Follow'
  OBVIOUS
<1>1. UNCHANGED <<task, nodes, unsaved, touched>> /\ gor.at = "node" /\ gor' = [gor EXCEPT !.at = "fail"]
  BY DEF breakStep
<1>2. gor'.at = "fail" /\ gor'.task = gor.task /\ nodes \in [Nodes -> NodeStatus] /\ task.status # "succeeded" /\ touched
  BY <1>1 DEF Inv, Types, Goroutine, Reported, Settled, Follow, EndsLate
<1>3. task.rollback \notin RollbackEnds /\ gor.task.rollback \notin RollbackEnds
  BY <1>1, NoEndYet DEF Settled
<1> QED
  BY <1>1, <1>2, <1>3, Between DEF Settled

LEMMA StartRollbackFollow == Inv /\ Follow /\ StartRollback => Follow'
<1> SUFFICES ASSUME Inv, Follow, StartRollback PROVE Follow'
  OBVIOUS
<1> DEFINE t == [gor.task EXCEPT !.status = "failed", !.rollback = "rollback_running"]
           s == IF rollsBackBeforeCutover THEN KeptRunning ELSE Rollback
<1>1. UNCHANGED <<nodes, unsaved, touched>> /\ gor.at = "err" /\ ~gor.back
  BY DEF StartRollback
<1>2. \/ task' = t /\ gor' = [gor EXCEPT !.task = t, !.back = TRUE, !.at = "step", !.steps = s]
      \/ task' = task /\ gor' = [gor EXCEPT !.at = "gone"]
  BY DEF StartRollback, Saved
<1>3. gor \in Goroutine /\ gor.task \in TaskType /\ nodes \in [Nodes -> NodeStatus] /\ task.status # "succeeded"
  BY <1>1 DEF Inv, Types, Goroutine, Reported, Settled
<1>4. task.rollback \notin RollbackEnds /\ gor.task.rollback \notin RollbackEnds
  BY <1>1, NoEndYet
<1>5. t.status = "failed" /\ t.rollback = "rollback_running"
  BY <1>3 DEF TaskType
<1> HIDE DEF t, s
<1>6. \/ task' = t /\ gor'.task = t /\ gor'.at = "step"
      \/ task' = task /\ gor'.task = gor.task /\ gor'.at = "gone"
  BY <1>2, <1>3 DEF Goroutine
<1>7. /\ task'.rollback \notin RollbackEnds /\ gor'.task.rollback \notin RollbackEnds
      /\ task'.status # "succeeded" /\ gor'.at \in {"step", "gone"}
  BY <1>3, <1>4, <1>5, <1>6 DEF RollbackEnds
<1> QED
  BY <1>1, <1>3, <1>7, Between

\* The last step of a rollback is a check.
LEMMA LastCheck ==
    ASSUME Types, gor.back, gor.steps # <<>>, Tail(gor.steps) = <<>>
    PROVE  gor.steps \in {Back1, Kept1} /\ Len(gor.steps) = 1
<1>1. gor.steps \in Forward \cup Backward
  BY DEF Types, Goroutine
<1>2. Step \in {"ROLLBACK_VERIFY", "VERIFY_SOURCE"}
  BY <1>1, StepOfTask, TailIs
<1>3. gor.steps \in {Back1, Kept1}
  BY <1>1, <1>2, StepIs
<1> QED
  BY <1>3 DEF Back1, Kept1

\* A rollback has succeeded when the nodes of its last check have.
LEMMA finishStepFollow == Inv /\ Follow /\ finishStep => Follow'
<1> SUFFICES ASSUME Inv, Follow, finishStep PROVE Follow'
  OBVIOUS
<1>1. /\ UNCHANGED <<task, nodes, unsaved, touched>> /\ gor.at = "node" /\ gor.todo = {} /\ ~gor.bad
  BY DEF finishStep
<1>2. /\ gor \in Goroutine /\ gor.task \in TaskType /\ nodes \in [Nodes -> NodeStatus]
      /\ gor.steps # <<>> /\ gor.steps \in Forward \cup Backward
      /\ task.status # "succeeded" /\ touched
  BY <1>1 DEF Inv, Types, Goroutine, Reported, Settled, Follow, EndsLate
<1>3. task.rollback \notin RollbackEnds /\ gor.task.rollback \notin RollbackEnds
  BY <1>1, NoEndYet DEF Settled
<1> DEFINE backed == gor.backed \/ Step = "BACKUP"
           next == IF Tail(gor.steps) # <<>> THEN "step" ELSE IF gor.back THEN "close" ELSE "won"
           rollback == IF gor.back /\ Len(gor.steps) = 1 THEN "rollback_succeeded" ELSE gor.task.rollback
           t == [gor.task EXCEPT !.rollback = rollback]
<1>4. CASE gor' = [finished EXCEPT !.steps = Tail(@), !.at = next, !.task.rollback = rollback]
  <2>1. gor' = [gor EXCEPT !.backed = backed, !.steps = Tail(gor.steps), !.at = next, !.task = t]
    BY <1>2, <1>4 DEF finished, Goroutine
  <2>2. t.rollback = rollback
    BY <1>2 DEF TaskType
  <2>3. next \in {"step", "close", "won"} /\ (next = "close" <=> gor.back /\ Tail(gor.steps) = <<>>)
    OBVIOUS
  <2>4. rollback = IF next = "close" THEN "rollback_succeeded" ELSE gor.task.rollback
    <3>1. gor.back => (Len(gor.steps) = 1 <=> Tail(gor.steps) = <<>>)
      BY <1>2, LastStep, LastCheck DEF Inv
    <3> QED
      BY <2>3, <3>1
  <2> HIDE DEF backed, next, t, rollback
  <2>5. gor'.at = next /\ gor'.task = t /\ gor'.back = gor.back
    BY <1>2, <2>1 DEF Goroutine
  <2>6. CASE next = "close"
    <3>1. gor.steps \in {Back1, Kept1}
      BY <1>2, <2>3, <2>6, LastCheck DEF Inv
    <3>2. \A n \in Nodes \ unsaved : nodes[n] = "rollback_succeeded"
      BY <1>1, <3>1 DEF Follow, Marked
    <3>3. EndsLate'
      BY <1>1, <1>2, <1>3, <2>2, <2>3, <2>4, <2>5, <2>6 DEF EndsLate, RollbackEnds
    <3>4. NodesEnd(task.rollback)' /\ NodesEnd(gor.task.rollback)'
      BY <1>1, <1>3, <2>2, <2>4, <2>5, <2>6, <3>2 DEF NodesEnd, RollbackEnds
    <3>5. Marked'
      BY <1>1, <1>2, <2>5, <2>6, <3>4 DEF Marked
    <3> QED
      BY <3>3, <3>5 DEF Follow
  <2>7. CASE next # "close"
    BY <1>1, <1>2, <1>3, <2>2, <2>3, <2>4, <2>5, <2>7, Between DEF Settled
  <2> QED
    BY <2>6, <2>7
<1>5. CASE gor' = [finished EXCEPT !.at = "err"] \/ gor' = [gor EXCEPT !.at = "fail"]
  <2>1. gor'.at \in {"err", "fail"} /\ gor'.task = gor.task
    BY <1>2, <1>5 DEF finished, Goroutine
  <2> QED
    BY <1>1, <1>2, <1>3, <2>1, Between DEF Settled
<1> QED
  BY <1>4, <1>5 DEF finishStep, finished

\* The end of the task is saved as the goroutine knows it.
LEMMA recordFailureClosureFollow == Inv /\ Follow /\ recordFailureClosureStep => Follow'
<1> SUFFICES ASSUME Inv, Follow, recordFailureClosureStep PROVE Follow'
  OBVIOUS
<1>1. UNCHANGED <<nodes, unsaved, touched>>
  BY DEF recordFailureClosureStep
<1>2. /\ gor.at \in {"close", "last"} /\ task' \in {task, gor'.task}
      /\ gor' \in {[gor EXCEPT !.at = "last"], [gor EXCEPT !.at = "endsync", !.task.done = TRUE]}
  BY DEF recordFailureClosureStep, Saved
<1>3. gor \in Goroutine /\ gor.task \in TaskType /\ task.status # "succeeded" /\ gor.task.status # "succeeded"
  BY <1>2 DEF Inv, Types, Goroutine, Reported, Settled
<1>4. /\ gor'.task.status = gor.task.status /\ gor'.task.rollback = gor.task.rollback
      /\ gor'.at \in {"last", "endsync"} /\ gor'.back = gor.back
  <2>1. CASE gor' = [gor EXCEPT !.at = "last"]
    BY <1>3, <2>1 DEF Goroutine
  <2>2. CASE gor' = [gor EXCEPT !.at = "endsync", !.task.done = TRUE]
    <3> DEFINE t == [gor.task EXCEPT !.done = TRUE]
    <3>1. t.status = gor.task.status /\ t.rollback = gor.task.rollback
      BY <1>3 DEF TaskType
    <3>2. gor' = [gor EXCEPT !.at = "endsync", !.task = t]
      BY <1>3, <2>2 DEF Goroutine
    <3> HIDE DEF t
    <3> QED
      BY <1>3, <3>1, <3>2 DEF Goroutine
  <2> QED
    BY <1>2, <2>1, <2>2
<1>5. task'.rollback \in {task.rollback, gor.task.rollback} /\ task'.status # "succeeded"
  BY <1>2, <1>3, <1>4
<1>6. EndsLate'
  BY <1>1, <1>2, <1>4, <1>5 DEF Follow, EndsLate, Settled
<1>7. NodesEnd(task.rollback) /\ NodesEnd(gor.task.rollback)
  BY <1>2 DEF Follow, Marked
<1>8. NodesEnd(task.rollback)' /\ NodesEnd(gor.task.rollback)'
  BY <1>1, <1>4, <1>5, <1>7 DEF NodesEnd
<1>9. Marked'
  BY <1>1, <1>4, <1>5, <1>8 DEF Marked
<1> QED
  BY <1>6, <1>9 DEF Follow

-----------------------------------------------------------------------------
(* Steps that settle the nodes.                                            *)

\* A cancelled task has not begun.
LEMMA RequestCancelFollow == Inv /\ Follow /\ RequestCancel => Follow'
<1> SUFFICES ASSUME Inv, Follow, RequestCancel PROVE Follow'
  OBVIOUS
<1>1. UNCHANGED <<gor, unsaved, touched>>
  BY DEF RequestCancel
<1>2. \/ UNCHANGED <<task, nodes>>
      \/ /\ bound /\ task.status = "pending" /\ task' = [task EXCEPT !.status = "cancelled", !.done = TRUE]
         /\ nodes' = [n \in Nodes |-> "skipped"]
  BY DEF RequestCancel
<1>3. CASE UNCHANGED <<task, nodes>>
  BY <1>1, <1>3, Elsewhere
<1>4. CASE /\ bound /\ task.status = "pending" /\ task' = [task EXCEPT !.status = "cancelled", !.done = TRUE]
           /\ nodes' = [n \in Nodes |-> "skipped"]
  <2>1. ~touched /\ gor.at \notin Working
    BY <1>4 DEF Inv, Cancelled, Begun
  <2>2. task'.rollback = task.rollback /\ task'.status = "cancelled"
    BY <1>4 DEF Inv, Types, TaskType
  <2>3. task.rollback \notin RollbackEnds
    BY <2>1 DEF Follow, EndsLate
  <2>4. EndsLate'
    BY <1>1, <2>2 DEF Follow, EndsLate
  <2>5. NodesEnd(task.rollback)'
    BY <2>2, <2>3 DEF NodesEnd, RollbackEnds
  <2>6. Marked'
    BY <1>1, <2>1, <2>2, <2>5 DEF Marked, Working
  <2> QED
    BY <2>4, <2>6 DEF Follow
<1> QED
  BY <1>2, <1>3, <1>4

LEMMA failStepFollow == Inv /\ Copied /\ Follow /\ failStep => Follow'
<1> SUFFICES ASSUME Inv, Copied, Follow, failStep PROVE Follow'
  OBVIOUS
<1> DEFINE t == IF gor.back THEN [gor.task EXCEPT !.rollback = "rollback_failed"] ELSE [gor.task EXCEPT !.status = "failed"]
<1>1. UNCHANGED touched /\ gor.at = "fail"
  BY DEF failStep
<1>2. PICK settled \in SUBSET Nodes, saved \in SUBSET Nodes, lost \in SUBSET Nodes :
        /\ gor' = [gor EXCEPT !.at = "err", !.task = t, !.todo = {}, !.bad = FALSE, !.settled = settled]
        /\ task' = task \/ (task' = t /\ (gor.back => Nodes \ gor.settled \subseteq saved))
        /\ nodes' = Left(saved, "rollback_failed") /\ unsaved' = unsaved \cup lost
  BY failStepDoes
<1>3. /\ gor \in Goroutine /\ gor.task \in TaskType /\ nodes \in [Nodes -> NodeStatus] /\ touched
      /\ task.status # "succeeded" /\ gor.task.status # "succeeded"
  BY <1>1 DEF Inv, Types, Goroutine, Reported, Settled, Follow, EndsLate
<1>4. task.rollback \notin RollbackEnds /\ gor.task.rollback \notin RollbackEnds
  BY <1>1, NoEndYet DEF Settled
<1>5. t.status # "succeeded" /\ t.rollback = (IF gor.back THEN "rollback_failed" ELSE gor.task.rollback)
  BY <1>3 DEF TaskType
<1> HIDE DEF t
<1>6. ASSUME Nodes \ gor.settled \subseteq saved, NEW n \in Nodes \ unsaved'
      PROVE  nodes'[n] \in {"rollback_failed", "rollback_succeeded"}
  <2>1. n \in saved \/ (n \in gor.settled \ unsaved /\ nodes'[n] = nodes[n])
    BY <1>2, <1>6 DEF Left
  <2> QED
    BY <1>1, <1>2, <2>1 DEF Left, Copied
<1>7. gor'.at = "err" /\ gor'.task = t /\ gor'.back = gor.back
  BY <1>2, <1>3 DEF Goroutine
<1>8. EndsLate'
  BY <1>1, <1>2, <1>3, <1>4, <1>5, <1>7 DEF EndsLate, RollbackEnds
<1>9. NodesEnd(task.rollback)'
  <2>1. CASE task' = t /\ gor.back
    <3>1. CASE task = t
      BY <1>4, <1>5, <2>1, <3>1 DEF RollbackEnds
    <3>2. CASE task # t
      BY <1>2, <1>5, <1>6, <2>1, <3>2 DEF NodesEnd
    <3> QED
      BY <3>1, <3>2
  <2>2. CASE task'.rollback \notin RollbackEnds
    BY <2>2 DEF NodesEnd, RollbackEnds
  <2> QED
    BY <1>2, <1>4, <1>5, <2>1, <2>2
<1>10. Marked'
  BY <1>2, <1>3, <1>5, <1>7, <1>9 DEF Marked
<1> QED
  BY <1>8, <1>10 DEF Follow

LEMMA SettleFailureFollow == Inv /\ Copied /\ Follow /\ SettleFailure => Follow'
<1> SUFFICES ASSUME Inv, Copied, Follow, SettleFailure PROVE Follow'
  OBVIOUS
<1> DEFINE end == IF gor.back THEN "rollback_failed" ELSE "skipped"
           t == [gor.task EXCEPT !.status = "failed", !.rollback = end]
<1>1. UNCHANGED <<task, touched>> /\ gor.at = "err"
  BY DEF SettleFailure
<1>2. gor' = [gor EXCEPT !.at = "close", !.task.status = "failed", !.task.rollback = end]
  BY DEF SettleFailure
<1>3. PICK saved \in SUBSET Nodes, lost \in SUBSET Nodes :
        /\ nodes' = Left(saved, IF gor.back THEN "rollback_failed" ELSE "failed") /\ unsaved' = unsaved \cup lost
        /\ saved \cup lost = IF gor.back THEN Nodes \ gor.settled ELSE Nodes
  BY SettleFailureDoes
<1>4. /\ gor \in Goroutine /\ gor.task \in TaskType /\ touched /\ task.status # "succeeded"
  BY <1>1 DEF Inv, Types, Goroutine, Reported, Settled, Follow, EndsLate
<1>5. /\ task.rollback \in RollbackEnds => task.rollback = "rollback_failed" /\ gor.back
  BY <1>1 DEF Inv, Reported, Follow, EndsLate, RollbackEnds, Settled
<1>6. t.status = "failed" /\ t.rollback = end
  BY <1>4 DEF TaskType
<1>7. gor' = [gor EXCEPT !.at = "close", !.task = t]
  BY <1>2, <1>4 DEF Goroutine, TaskType
<1>8. \A n \in Nodes \ unsaved' :
        IF gor.back THEN nodes'[n] \in {"rollback_failed", "rollback_succeeded"} ELSE nodes'[n] = "failed"
  <2>1. SUFFICES ASSUME NEW n \in Nodes \ unsaved'
                 PROVE  IF gor.back THEN nodes'[n] \in {"rollback_failed", "rollback_succeeded"} ELSE nodes'[n] = "failed"
    OBVIOUS
  <2>2. n \in saved \/ (gor.back /\ n \in gor.settled \ unsaved /\ n \notin saved)
    BY <1>3
  <2> QED
    BY <1>1, <1>3, <2>2 DEF Left, Copied
<1> HIDE DEF t
<1>9. gor'.at = "close" /\ gor'.task = t /\ gor'.back = gor.back
  BY <1>4, <1>7 DEF Goroutine
<1>10. EndsLate'
  BY <1>1, <1>4, <1>5, <1>6, <1>9 DEF EndsLate, RollbackEnds
<1>11. NodesEnd(task.rollback)' /\ NodesEnd(gor.task.rollback)'
  BY <1>1, <1>5, <1>6, <1>8, <1>9 DEF NodesEnd, RollbackEnds
<1>12. Marked'
  BY <1>1, <1>4, <1>9, <1>11 DEF Marked
<1> QED
  BY <1>10, <1>12 DEF Follow

LEMMA FinishSuccessFollow == Inv /\ Follow /\ FinishSuccess => Follow'
<1> SUFFICES ASSUME Inv, Follow, FinishSuccess PROVE Follow'
  OBVIOUS
<1> DEFINE t == [gor.task EXCEPT !.status = "succeeded", !.rollback = "pending", !.done = TRUE]
<1>1. UNCHANGED <<unsaved, touched>> /\ gor.at \in {"won", "commit"}
  BY DEF FinishSuccess
<1>2. \/ /\ gor.at = "won" /\ gor' = [gor EXCEPT !.at = "commit"] /\ task' = task
         /\ nodes' = [n \in Nodes |-> "succeeded"]
      \/ gor.at = "commit" /\ task' = t /\ gor' = [gor EXCEPT !.at = "endsync", !.task = t] /\ nodes' = nodes
      \/ gor' = [gor EXCEPT !.at = "gone"] /\ task' = task /\ nodes' = nodes
  BY DEF FinishSuccess, Saved
<1>3. gor \in Goroutine /\ gor.task \in TaskType /\ touched /\ task.status # "succeeded"
  BY <1>1 DEF Inv, Types, Goroutine, Reported, Settled, Follow, EndsLate
<1>4. task.rollback \notin RollbackEnds /\ gor.task.rollback \notin RollbackEnds
  BY <1>1, NoEndYet DEF Settled
<1>5. t.rollback = "pending"
  BY <1>3 DEF TaskType
<1> HIDE DEF t
<1>6. CASE gor' = [gor EXCEPT !.at = "gone"] /\ task' = task /\ nodes' = nodes
  <2>1. gor'.at \in Settled /\ gor'.task = gor.task /\ gor'.back = gor.back
    BY <1>3, <1>6 DEF Goroutine, Settled
  <2> QED
    BY <1>1, <1>6, <2>1, Leaves
<1>7. CASE /\ gor' = [gor EXCEPT !.at = "commit"] /\ task' = task /\ nodes' = [n \in Nodes |-> "succeeded"]
  <2>1. gor'.at = "commit" /\ gor'.task = gor.task
    BY <1>3, <1>7 DEF Goroutine
  <2>2. NodesEnd(task.rollback)'
    BY <1>4, <1>7 DEF NodesEnd, RollbackEnds
  <2>3. EndsLate'
    BY <1>1, <1>3, <1>4, <1>7, <2>1 DEF EndsLate, RollbackEnds
  <2>4. Marked'
    BY <1>7, <2>1, <2>2 DEF Marked
  <2> QED
    BY <2>3, <2>4 DEF Follow
<1>8. CASE gor.at = "commit" /\ task' = t /\ gor' = [gor EXCEPT !.at = "endsync", !.task = t] /\ nodes' = nodes
  <2>1. gor'.at = "endsync" /\ gor'.task = t
    BY <1>3, <1>8 DEF Goroutine
  <2>2. NodesEnd(task.rollback)'
    BY <1>5, <1>8 DEF NodesEnd
  <2>3. EndsLate'
    BY <1>5, <1>8, <2>1 DEF EndsLate, RollbackEnds
  <2>4. \A n \in Nodes \ unsaved : nodes[n] = "succeeded"
    BY <1>8 DEF Follow, Marked
  <2>5. Marked'
    BY <1>1, <1>8, <2>1, <2>2, <2>4 DEF Marked
  <2> QED
    BY <2>3, <2>5 DEF Follow
<1> QED
  BY <1>2, <1>6, <1>7, <1>8

\* The last check of a rollback settles its nodes one by one.
LEMMA NodeStepFollow ==
    ASSUME Inv, Follow, NEW n \in Nodes, NodeStep(n)
    PROVE  Follow'
<1>1. UNCHANGED <<task, touched>> /\ gor.at = "node" /\ n \in gor.todo
  BY DEF NodeStep
<1>2. PICK part \in {"none", "torn", "all"} :
        /\ gor' \in Goroutine /\ gor'.task = gor.task
        /\ gor'.steps = gor.steps /\ gor'.back = gor.back
        /\ nodes' \in [Nodes -> NodeStatus]
        /\ \/ gor'.at = "node" /\ gor'.todo = gor.todo \ {n} /\ gor'.bad = gor.bad /\ ~Fails(n)
           \/ gor'.at = "node" /\ gor'.todo = gor.todo \ {n} /\ gor'.bad
           \/ gor'.at \in {"fail", "err"}
  BY OutcomeIs
<1>3. /\ nodes \in [Nodes -> NodeStatus] /\ gor.steps # <<>> /\ gor.steps \in Forward \cup Backward
      /\ task.status # "succeeded" /\ touched
  BY <1>1 DEF Inv, Types, Goroutine, Reported, Settled, Follow, EndsLate
<1>4. task.rollback \notin RollbackEnds /\ gor.task.rollback \notin RollbackEnds
  BY <1>1, NoEndYet DEF Settled
<1>5. CASE gor'.at \in {"fail", "err"}
  BY <1>1, <1>2, <1>3, <1>4, <1>5, Between DEF Settled
<1>6. CASE gor'.at = "node"
  <2>1. EndsLate'
    BY <1>1, <1>2, <1>3, <1>4, <1>6 DEF EndsLate, RollbackEnds
  <2>2. NodesEnd(task.rollback)'
    BY <1>1, <1>4 DEF NodesEnd, RollbackEnds
  <2>3. ASSUME gor.steps \in {Back1, Kept1}, ~gor'.bad, NEW m \in Nodes \ (gor'.todo \cup unsaved')
        PROVE  nodes'[m] = "rollback_succeeded"
    <3>1. gor'.todo = gor.todo \ {n} /\ gor'.bad = gor.bad
      BY <1>2, <1>6, <2>3
    <3>2. nodes' = [nodes EXCEPT ![n] = okStatus] /\ unsaved' = unsaved
      <4>1. gor' # afterFailure(n)
        BY <1>1, <1>6, <2>3, AfterFailureIs DEF Inv, Types
      <4>2. ~unsavedNodeStep(n)
        BY <1>6 DEF unsavedNodeStep, Inv, Types, Goroutine
      <4> QED
        BY <4>1, <4>2 DEF NodeStep, finishNodeStep, failNodeStep
    <3>3. okStatus = "rollback_succeeded"
      BY <1>3, <2>3, StepIs DEF okStatus
    <3>4. CASE m = n
      BY <1>3, <3>2, <3>3, <3>4
    <3>5. CASE m # n
      <4>1. m \in Nodes \ (gor.todo \cup unsaved)
        BY <2>3, <3>1, <3>2, <3>5
      <4>2. nodes[m] = "rollback_succeeded"
        BY <1>1, <2>3, <3>1, <4>1 DEF Follow, Marked
      <4> QED
        BY <1>3, <3>2, <3>5, <4>2
    <3> QED
      BY <3>4, <3>5
  <2>4. Marked'
    BY <1>1, <1>2, <1>3, <1>6, <2>2, <2>3 DEF Marked
  <2> QED
    BY <2>1, <2>4 DEF Follow
<1> QED
  BY <1>2, <1>5, <1>6

LEMMA RestartFollow == Inv /\ Follow /\ Restart => Follow'
<1> SUFFICES ASSUME Inv, Follow, Restart PROVE Follow'
  OBVIOUS
<1>1. UNCHANGED <<task, nodes, unsaved, touched>> /\ gor' = [gor EXCEPT !.at = "gone"]
  BY DEF Restart
<1>2. gor'.at \in Settled /\ gor'.task = gor.task /\ gor'.back = gor.back
  BY <1>1 DEF Inv, Types, Goroutine, Settled
<1> QED
  BY <1>1, <1>2, Leaves

LEMMA CreateExecutionFollow == Inv /\ Follow /\ CreateExecution => Follow'
<1> SUFFICES ASSUME Inv, Follow, CreateExecution PROVE Follow'
  OBVIOUS
<1>1. UNCHANGED <<task, nodes, unsaved, touched>> /\ gor' = [gor EXCEPT !.at = "create"] /\ gor.at = "none"
  BY DEF CreateExecution, Inv, Types
<1>2. gor'.at = "create" /\ gor'.task = gor.task /\ nodes \in [Nodes -> NodeStatus] /\ task.status # "succeeded"
  BY <1>1 DEF Inv, Types, Goroutine, Cancelled
<1>3. task.rollback \notin RollbackEnds /\ gor.task.rollback \notin RollbackEnds
  BY <1>1, NoEndYet DEF Settled
<1> QED
  BY <1>1, <1>2, <1>3, Between DEF Settled

LEMMA InitFollow == Init => Follow
BY DEF Init, Fresh, NoTask, Follow, EndsLate, Marked, NodesEnd, RollbackEnds

LEMMA NextFollow == Inv /\ Copied /\ Follow /\ [Next]_vars => Follow'
<1> SUFFICES ASSUME Inv, Copied, Follow, [Next]_vars PROVE Follow'
  OBVIOUS
<1>1. CASE Works
  BY <1>1, StartPlanFollow, executeTaskFollow, syncExecutionFollow, startStepFollow, NodeStepFollow, finishStepFollow,
     breakStepFollow, failStepFollow, StartRollbackFollow, SettleFailureFollow, recordFailureClosureFollow,
     FinishSuccessFollow DEF Works
<1>2. CASE ClaimCancel \/ FinishCancel \/ UNCHANGED vars
  BY <1>2, Elsewhere DEF ClaimCancel, FinishCancel, vars
<1>3. CASE Environment
  <2>1. CASE \E n \in Nodes : AgentGoesOffline(n) \/ AgentReturns(n) \/ ProcessDies(n) \/ ProcessRestarts(n)
    BY <2>1, Elsewhere DEF AgentGoesOffline, AgentReturns, ProcessDies, ProcessRestarts
  <2> QED
    BY <1>3, <2>1, RestartFollow DEF Environment
<1> QED
  BY <1>1, <1>2, <1>3, CreateExecutionFollow, RequestCancelFollow DEF Next, Answers

\* Whoever reads a task that has ended finds its nodes ended in the same way,
\* except a node whose last status could not be saved: the nodes are settled
\* before the end of the task is saved, once each in the goroutine's copy
\* (failStep, finalizeNodeExecutionsRollbackFailed, recordFailureClosureStep).
THEOREM NodesFollowTask == Spec => []NodesFollow
<1>1. Follow => NodesFollow
  BY DEF Follow, Marked, NodesEnd, NodesFollow
<1>2. Spec => []Follow
  BY InitInv, NextInv, InitCopied, NextCopied, InitFollow, NextFollow, PTL DEF Spec
<1> QED
  BY <1>1, <1>2, PTL

-----------------------------------------------------------------------------
(* Tasks that have ended.                                                  *)

\* A task ends by its goroutine's last save, or is cancelled before it begins.
Ends ==
    /\ task.done => task.status # "pending" /\ gor.at \in {"claim"} \cup Settled
    /\ gor.task.done => gor.at \in Settled

LEMMA NextEnds == ASSUME Inv, Ends, [Next]_vars PROVE Ends'
<1>1. gor \in Goroutine /\ gor.task \in TaskType /\ task \in TaskType /\ Cancelled
  BY DEF Inv, Types, Goroutine
<1>2. CASE UNCHANGED <<task, gor>>
  BY <1>2 DEF Ends
<1>3. CASE RequestCancel
  <2>1. gor.at \in Places /\ task.status \in TaskStatus
    BY <1>1 DEF Goroutine, TaskType
  <2>2. \/ task' = [task EXCEPT !.status = "cancelled", !.done = TRUE] /\ bound /\ task.status = "pending"
        \/ UNCHANGED task
    BY <1>3 DEF RequestCancel
  <2>3. bound /\ task.status = "pending" => gor.at \in {"claim"} \cup Settled
    BY <1>1, <2>1 DEF Cancelled, Places, Working, Settled, Begun
  <2> QED
    BY <1>1, <1>3, <2>2, <2>3 DEF RequestCancel, Ends, TaskType
<1>4. CASE StartPlanExecutionWithExecution
  <2>1. ~task.done /\ ~gor.task.done /\ gor.at \in {"create", "bind"}
    BY <1>4 DEF StartPlanExecutionWithExecution, Ends, Settled
  <2>2. \/ task' = [task EXCEPT !.status = "pending"] /\ gor' = [gor EXCEPT !.at = "bind", !.task = task']
        \/ UNCHANGED task /\ gor' = [gor EXCEPT !.at = "gone"]
        \/ UNCHANGED task /\ gor' = [gor EXCEPT !.at = "claim"]
    BY <1>4 DEF StartPlanExecutionWithExecution
  <2>3. ~task'.done
    BY <1>1, <2>1, <2>2 DEF TaskType
  <2>4. gor'.task \in {task', gor.task}
    BY <1>1, <2>2 DEF Goroutine
  <2> QED
    BY <2>1, <2>3, <2>4 DEF Ends
<1>5. CASE executeTask
  <2>1. \/ ~task.done /\ task' = [task EXCEPT !.status = "running"] /\ gor' = [gor EXCEPT !.at = "sync", !.task = task']
        \/ task.status # "pending" /\ UNCHANGED task /\ gor' = [gor EXCEPT !.at = "endsync", !.task = task]
    BY <1>5 DEF executeTask, Ends
  <2>2. CASE ~task.done /\ task' = [task EXCEPT !.status = "running"] /\ gor' = [gor EXCEPT !.at = "sync", !.task = task']
    <3>1. ~task'.done /\ gor'.task = task'
      BY <1>1, <2>2 DEF Goroutine, TaskType
    <3> QED
      BY <3>1 DEF Ends
  <2>3. CASE task.status # "pending" /\ UNCHANGED task /\ gor' = [gor EXCEPT !.at = "endsync", !.task = task]
    <3>1. gor'.at = "endsync"
      BY <1>1, <2>3 DEF Goroutine
    <3> QED
      BY <2>3, <3>1 DEF Ends, Settled
  <2> QED
    BY <2>1, <2>2, <2>3
<1>6. CASE CreateExecution \/ Restart
  <2>1. UNCHANGED task
    BY <1>6 DEF CreateExecution, Restart
  <2>2. CASE CreateExecution
    <3>1. gor' = [gor EXCEPT !.at = "create"] /\ exec = "none"
      BY <2>2 DEF CreateExecution
    <3>2. gor'.at = "create" /\ gor'.task = gor.task
      BY <1>1, <3>1 DEF Goroutine
    <3>3. ~task.done /\ ~gor.task.done
      BY <3>1 DEF Inv, Types, Ends, Settled
    <3> QED
      BY <2>1, <3>2, <3>3 DEF Ends
  <2>3. CASE Restart
    <3>1. gor' = [gor EXCEPT !.at = "gone"]
      BY <2>3 DEF Restart
    <3>2. gor'.at = "gone" /\ gor'.task = gor.task
      BY <1>1, <3>1 DEF Goroutine
    <3> QED
      BY <2>1, <3>2 DEF Ends, Settled
  <2> QED
    BY <1>6, <2>2, <2>3
<1>7. CASE syncExecutionFromTask
  <2>1. UNCHANGED task
    BY <1>7 DEF syncExecutionFromTask
  <2>2. \/ gor.at = "sync" /\ gor' = [gor EXCEPT !.seen = exec, !.at = "move"]
        \/ gor.at = "endsync" /\ gor' = [gor EXCEPT !.seen = exec, !.at = "endmove"]
        \/ gor.at = "move" /\ (gor' = [gor EXCEPT !.at = "step"] \/ gor' = [gor EXCEPT !.at = "gone"])
        \/ gor.at = "endmove" /\ gor' = [gor EXCEPT !.at = "gone"]
    BY <1>7 DEF syncExecutionFromTask, Moves
  <2>3. gor'.task = gor.task /\ (gor.at \in {"claim"} \cup Settled => gor'.at \in Settled)
    BY <1>1, <2>2 DEF Goroutine, Settled
  <2> QED
    BY <2>1, <2>3 DEF Ends
<1>8. CASE \/ startStep \/ (\E n \in Nodes : NodeStep(n)) \/ finishStep \/ breakStep \/ failStep
           \/ StartRollback \/ SettleFailure \/ recordFailureClosureStep \/ FinishSuccess
  <2>1. gor.at \in Working /\ ~task.done /\ ~gor.task.done /\ gor.task \in TaskType /\ gor \in Goroutine
        /\ gor.task.status # "pending"
    <3>1. gor.at \in Working
      BY <1>8 DEF startStep, NodeStep, finishStep, breakStep, failStep, StartRollback, SettleFailure,
                  recordFailureClosureStep, FinishSuccess, Working
    <3> QED
      BY <1>1, <3>1 DEF Ends, Cancelled, Working, Settled, Begun
  <2>2. CASE startStep
    <3> DEFINE t == IF gor.back THEN [gor.task EXCEPT !.rollback = "rollback_running"] ELSE [gor.task EXCEPT !.status = "running"]
    <3>1. ~t.done
      BY <2>1 DEF TaskType
    <3> HIDE DEF t
    <3>2. (task' = t \/ UNCHANGED task) /\ gor'.task = t
      BY <2>1, <2>2 DEF startStep, Saved, Goroutine, t
    <3> QED
      BY <2>1, <3>1, <3>2 DEF Ends
  <2>3. CASE (\E n \in Nodes : NodeStep(n)) \/ breakStep
    <3>1. UNCHANGED task
      BY <2>3 DEF NodeStep, breakStep
    <3>2. breakStep => gor'.task = gor.task
      BY <2>1 DEF breakStep, Goroutine
    <3>3. \A n \in Nodes : NodeStep(n) => gor'.task = gor.task
      BY OutcomeIs
    <3> QED
      BY <2>1, <2>3, <3>1, <3>2, <3>3 DEF Ends
  <2>4. CASE finishStep
    <3> DEFINE backed == gor.backed \/ Step = "BACKUP"
               next == IF Tail(gor.steps) # <<>> THEN "step" ELSE IF gor.back THEN "close" ELSE "won"
               rollback == IF gor.back /\ Len(gor.steps) = 1 THEN "rollback_succeeded" ELSE gor.task.rollback
               t == [gor.task EXCEPT !.rollback = rollback]
    <3>1. /\ UNCHANGED task
          /\ \/ gor' = [finished EXCEPT !.steps = Tail(@), !.at = next, !.task.rollback = rollback]
             \/ gor' = [finished EXCEPT !.at = "err"]
             \/ gor' = [gor EXCEPT !.at = "fail"]
      BY <2>1, <2>4 DEF finishStep, finished, Goroutine
    <3>2. ASSUME gor' = [finished EXCEPT !.steps = Tail(@), !.at = next, !.task.rollback = rollback]
          PROVE  gor'.task = t
      <4>1. gor' = [gor EXCEPT !.backed = backed, !.steps = Tail(gor.steps), !.at = next, !.task = t]
        BY <2>1, <3>2 DEF finished, Goroutine
      <4> HIDE DEF backed, next, t, rollback
      <4> QED
        BY <2>1, <4>1 DEF Goroutine
    <3>3. ~t.done
      BY <2>1 DEF TaskType
    <3> HIDE DEF backed, next, t, rollback
    <3>4. gor'.task \in {t, gor.task}
      BY <2>1, <3>1, <3>2 DEF finished, Goroutine
    <3> QED
      BY <2>1, <3>1, <3>3, <3>4 DEF Ends
  <2>5. CASE failStep \/ StartRollback
    <3>1. ~[gor.task EXCEPT !.rollback = "rollback_failed"].done /\ ~[gor.task EXCEPT !.status = "failed"].done
          /\ ~[gor.task EXCEPT !.status = "failed", !.rollback = "rollback_running"].done
      BY <2>1 DEF TaskType
    <3>2. \E t \in {gor.task, [gor.task EXCEPT !.rollback = "rollback_failed"], [gor.task EXCEPT !.status = "failed"],
                    [gor.task EXCEPT !.status = "failed", !.rollback = "rollback_running"]} :
            (task' = t \/ UNCHANGED task) /\ gor'.task = t
      BY <2>1, <2>5 DEF failStep, StartRollback, Saved, Goroutine
    <3> QED
      BY <2>1, <3>1, <3>2 DEF Ends
  <2>6. CASE SettleFailure
    <3>1. UNCHANGED task /\ gor'.task.done = gor.task.done
      <4> DEFINE end == IF gor.back THEN "rollback_failed" ELSE "skipped"
                 t == [gor.task EXCEPT !.status = "failed", !.rollback = end]
      <4>1. UNCHANGED task /\ gor' = [gor EXCEPT !.at = "close", !.task.status = "failed", !.task.rollback = end]
        BY <2>6 DEF SettleFailure
      <4>2. gor'.task = t
        BY <2>1, <4>1 DEF Goroutine, TaskType
      <4>3. t.done = gor.task.done
        BY <2>1 DEF TaskType
      <4> QED
        BY <4>1, <4>2, <4>3
    <3> QED
      BY <2>1, <3>1 DEF Ends
  <2>7. CASE recordFailureClosureStep
    <3>1. task' = gor'.task \/ UNCHANGED task
      BY <2>7 DEF recordFailureClosureStep, Saved
    <3>2. \/ gor'.task = gor.task
          \/ gor'.at = "endsync" /\ gor'.task.status = gor.task.status
      BY <2>1, <2>7 DEF recordFailureClosureStep, Goroutine, TaskType
    <3> QED
      BY <2>1, <3>1, <3>2 DEF Ends, Settled
  <2>8. CASE FinishSuccess
    <3>1. \/ UNCHANGED task /\ gor'.task = gor.task
          \/ gor'.at = "endsync" /\ task'.status = "succeeded"
      BY <2>1, <2>8 DEF FinishSuccess, Saved, Goroutine, TaskType
    <3> QED
      BY <2>1, <3>1 DEF Ends, Settled
  <2> QED
    BY <1>8, <2>2, <2>3, <2>4, <2>5, <2>6, <2>7, <2>8
<1> QED
  BY <1>2, <1>3, <1>4, <1>5, <1>6, <1>7, <1>8 DEF Next, Works, Answers, Environment, ClaimCancel, FinishCancel, AgentGoesOffline,
     AgentReturns, ProcessDies, ProcessRestarts, vars

\* A task that has ended, by success, failure or a cancel, changes nothing any more:
\* no goroutine is left behind that could still write to a node, to the cluster's
\* record or to the task (executeTask, RequestCancel).
THEOREM EndedTaskRests ==
    Spec => [][task.done => UNCHANGED <<task, nodes, disk, backup, meta, version>>]_vars
<1>1. Init => Ends
  BY DEF Init, NoTask, Fresh, Ends
<1>2. Inv /\ Ends /\ [Next]_vars => [task.done => UNCHANGED <<task, nodes, disk, backup, meta, version>>]_vars
  <2> SUFFICES ASSUME Inv, Ends, [Next]_vars, task.done PROVE UNCHANGED <<task, nodes, disk, backup, meta, version>>
    OBVIOUS
  <2>1. gor.at \in {"claim", "endsync", "endmove", "gone"} /\ task.status # "pending"
    BY DEF Ends, Settled
  <2> QED
    BY <2>1 DEF Next, Works, Answers, Environment, vars, hosts, record, world, CreateExecution, ClaimCancel, RequestCancel,
       FinishCancel, StartPlanExecutionWithExecution, executeTask, syncExecutionFromTask, startStep, NodeStep, finishStep,
       breakStep, failStep, StartRollback, SettleFailure, recordFailureClosureStep, FinishSuccess, AgentGoesOffline,
       AgentReturns, ProcessDies, ProcessRestarts, Restart
<1> QED
  BY <1>1, <1>2, NextEnds, Safe, PTL DEF Spec

-----------------------------------------------------------------------------
(* The refinement of UpgradeOutcome.                                       *)

\* Before the first step of the upgrade is started there is nothing to undo, and
\* a task ends by a cancel only.
Quiet == ~touched => AsBefore /\ (task.done => task.status = "cancelled")

\* A success is told after it is saved, and so is that of a rollback; what was
\* saved is what the goroutine goes on with.
Agree ==
    /\ "succeeded" \in {exec, cancel, gor.task.status} => task.status = "succeeded"
    /\ task.rollback = "rollback_succeeded" => gor.at # "close" /\ gor.task.rollback = "rollback_succeeded"

\* Nothing writes to a task that its goroutine has left, or that it has not
\* taken and that is no longer pending, and at the end its last save only.
LEMMA Rests ==
    ASSUME [Next]_vars, gor.at \in {"claim", "last", "endsync", "endmove", "gone"}, task.status # "pending"
    PROVE  task' = task \/ (gor.at = "last" /\ recordFailureClosureStep)
BY DEF Next, Works, Answers, Environment, vars, world, CreateExecution, ClaimCancel, RequestCancel,
       FinishCancel, StartPlanExecutionWithExecution, executeTask, syncExecutionFromTask, startStep, NodeStep, finishStep,
       breakStep, failStep, StartRollback, SettleFailure, recordFailureClosureStep, FinishSuccess, AgentGoesOffline,
       AgentReturns, ProcessDies, ProcessRestarts, Restart

\* Of a step that leaves the upgrade untouched.
LEMMA NextQuiet == ASSUME Inv, Follow, Ends, Quiet, [Next]_vars PROVE Quiet'
<1>1. gor \in Goroutine /\ task \in TaskType /\ gor.task \in TaskType
  BY DEF Inv, Types, Goroutine
<1> SUFFICES ASSUME ~touched' PROVE AsBefore' /\ (task'.done => task'.status = "cancelled")
  BY DEF Quiet
<1>2. ~touched /\ ~startStep
  <2>1. ~startStep
    BY DEF startStep
  <2>2. CASE Works
    <3>1. StartPlanExecutionWithExecution \/ executeTask \/ syncExecutionFromTask => (touched <=> touched')
      BY DEF StartPlanExecutionWithExecution, executeTask, syncExecutionFromTask
    <3>2. (\E n \in Nodes : NodeStep(n)) \/ finishStep \/ breakStep => (touched <=> touched')
      BY DEF NodeStep, finishStep, breakStep
    <3>4. failStep => (touched <=> touched')
      <4>1. failStep => touched' = touched
        BY DEF failStep
      <4> QED
        BY <4>1
    <3>3. StartRollback \/ SettleFailure \/ recordFailureClosureStep \/ FinishSuccess => (touched <=> touched')
      BY DEF StartRollback, SettleFailure, recordFailureClosureStep, FinishSuccess
    <3> QED
      BY <2>1, <2>2, <3>1, <3>2, <3>3, <3>4 DEF Works
  <2>3. CASE CreateExecution \/ ClaimCancel \/ Answers \/ Environment \/ UNCHANGED vars
    <3>1. CreateExecution \/ ClaimCancel \/ Answers \/ UNCHANGED vars => (touched <=> touched')
      BY DEF CreateExecution, ClaimCancel, Answers, RequestCancel, FinishCancel, vars
    <3>2. Environment => (touched <=> touched')
      <4>1. ASSUME NEW n \in Nodes, AgentGoesOffline(n) \/ AgentReturns(n) \/ ProcessDies(n) \/ ProcessRestarts(n)
            PROVE  UNCHANGED touched
        BY <4>1 DEF AgentGoesOffline, AgentReturns, ProcessDies, ProcessRestarts
      <4>2. Restart => UNCHANGED touched
        BY DEF Restart
      <4> QED
        BY <4>1, <4>2 DEF Environment
    <3> QED
      BY <2>1, <2>3, <3>1, <3>2
  <2> QED
    BY <2>1, <2>2, <2>3 DEF Next
<1>3. gor.at \notin {"node", "fail", "err", "close", "last", "won", "commit"}
  BY <1>2 DEF Follow, EndsLate
<1>4. AsBefore /\ (task.done => task.status = "cancelled")
  BY <1>2 DEF Quiet
<1>5. CASE UNCHANGED <<task, gor>>
  BY <1>4, <1>5 DEF AsBefore
<1>6. CASE StartPlanExecutionWithExecution
  <2>1. gor.at \in {"create", "bind"} /\ task.status \in {"none", "pending"}
    BY <1>6 DEF StartPlanExecutionWithExecution, Inv, Cancelled
  <2>2. \/ gor' = [gor EXCEPT !.at = "bind", !.task = task'] /\ task' = [task EXCEPT !.status = "pending"]
        \/ gor' = [gor EXCEPT !.at = "claim"] /\ task' = task
        \/ gor' = [gor EXCEPT !.at = "gone"] /\ task' = task
    BY <1>6 DEF StartPlanExecutionWithExecution
  <2>3. gor'.paths = gor.paths /\ gor'.entered = gor.entered
    BY <1>1, <2>2 DEF Goroutine
  <2>4. ~task'.done
    BY <1>1, <1>4, <2>1, <2>2 DEF TaskType
  <2> QED
    BY <1>4, <2>3, <2>4 DEF AsBefore
<1>7. CASE executeTask
  <2>1. \/ task.status = "pending" /\ task' = [task EXCEPT !.status = "running"]
        \/ task' = task
    BY <1>7 DEF executeTask
  <2>2. gor' = [gor EXCEPT !.at = "sync", !.task = task'] \/ gor' = [gor EXCEPT !.at = "endsync", !.task = task]
    BY <1>7 DEF executeTask
  <2>3. gor'.paths = gor.paths /\ gor'.entered = gor.entered
    BY <1>1, <2>2 DEF Goroutine
  <2>4. task'.done => task'.status = "cancelled"
    BY <1>1, <1>4, <2>1 DEF TaskType
  <2> QED
    BY <1>4, <2>3, <2>4 DEF AsBefore
<1>8. CASE syncExecutionFromTask \/ CreateExecution \/ Restart
  <2>1. UNCHANGED task
    BY <1>8 DEF syncExecutionFromTask, CreateExecution, Restart
  <2>2. \E at \in Places : gor' = [gor EXCEPT !.seen = exec, !.at = at] \/ gor' = [gor EXCEPT !.at = at]
    BY <1>8 DEF syncExecutionFromTask, CreateExecution, Restart, Moves, Places
  <2>3. gor'.paths = gor.paths /\ gor'.entered = gor.entered
    BY <1>1, <2>2 DEF Goroutine
  <2> QED
    BY <1>4, <2>1, <2>3 DEF AsBefore
<1>9. CASE RequestCancel
  <2>1. UNCHANGED gor /\ (task' = [task EXCEPT !.status = "cancelled", !.done = TRUE] \/ task' = task)
    BY <1>9 DEF RequestCancel
  <2>2. task'.done => task'.status = "cancelled"
    BY <1>1, <1>4, <2>1 DEF TaskType
  <2> QED
    BY <1>4, <2>1, <2>2 DEF AsBefore
<1>10. ~\E n \in Nodes : NodeStep(n)
  BY <1>3 DEF NodeStep
<1>11. ~(finishStep \/ breakStep \/ failStep \/ StartRollback \/ SettleFailure \/ recordFailureClosureStep \/ FinishSuccess)
  BY <1>3 DEF finishStep, breakStep, failStep, StartRollback, SettleFailure, recordFailureClosureStep, FinishSuccess
<1>12. CASE ClaimCancel \/ FinishCancel \/ UNCHANGED vars
  BY <1>5, <1>12 DEF ClaimCancel, FinishCancel, vars
<1>13. CASE Environment
  BY <1>5, <1>8, <1>13 DEF Environment, AgentGoesOffline, AgentReturns, ProcessDies, ProcessRestarts
<1> QED
  BY <1>2, <1>6, <1>7, <1>8, <1>9, <1>10, <1>11, <1>12, <1>13 DEF Next, Works, Answers

\* A success is saved with the end of the goroutine's work, before the execution
\* or a cancel's answer is made of it.
LEMMA NextAgree == ASSUME Inv, Follow, Agree, Inv', [Next]_vars PROVE Agree'
<1>1. gor \in Goroutine /\ task \in TaskType /\ gor.task \in TaskType
  BY DEF Inv, Types, Goroutine
<1>2. /\ "succeeded" \in {exec, cancel, gor.task.status} => task.status = "succeeded"
      /\ task.rollback = "rollback_succeeded" => gor.at # "close" /\ gor.task.rollback = "rollback_succeeded"
  BY DEF Agree
<1>3. /\ task.rollback = "rollback_succeeded" \/ gor.task.rollback = "rollback_succeeded"
         => gor.at \in {"close", "last"} \cup Settled
      /\ task.status = "succeeded" => gor.at \in Settled
      /\ gor'.task.status = "succeeded" => gor'.at \in Settled
  BY DEF Inv, Reported
<1>4. CASE UNCHANGED <<task, gor, exec, cancel>>
  BY <1>4 DEF Agree
<1>5. CASE ClaimCancel \/ FinishCancel
  BY <1>2, <1>5 DEF ClaimCancel, FinishCancel, Agree
<1>6. CASE RequestCancel
  <2>1. cancel = "claimed" /\ UNCHANGED <<gor, exec>>
    BY <1>6 DEF RequestCancel
  <2>2. \/ task' = [task EXCEPT !.status = "cancelled", !.done = TRUE] /\ task.status = "pending" /\ cancel' = "cancelled"
        \/ task' = task /\ cancel' \in {"none", upgradeExecutionStatus(task)}
    BY <1>6 DEF RequestCancel
  <2>3. upgradeExecutionStatus(task) = "succeeded" => task.status = "succeeded"
    BY <1>1 DEF upgradeExecutionStatus
  <2>4. task'.rollback = task.rollback /\ ("succeeded" \in {exec, cancel', gor.task.status} => task'.status = "succeeded")
    BY <1>1, <1>2, <2>2, <2>3 DEF TaskType
  <2> QED
    BY <1>2, <2>1, <2>4 DEF Agree
<1>7. CASE CreateExecution
  <2>1. gor.at = "none" /\ exec' = "pending" /\ gor' = [gor EXCEPT !.at = "create"] /\ UNCHANGED <<task, cancel>>
    BY <1>7 DEF CreateExecution, Inv, Types
  <2>2. gor'.at = "create" /\ gor'.task = gor.task
    BY <1>1, <2>1 DEF Goroutine
  <2> QED
    BY <1>2, <2>1, <2>2 DEF Agree
<1>8. CASE StartPlanExecutionWithExecution
  <2>1. gor.at \in {"create", "bind"} /\ task.status \in {"none", "pending"} /\ UNCHANGED cancel
        /\ exec' \in {exec, "failed"}
    BY <1>8 DEF StartPlanExecutionWithExecution, Inv, Cancelled
  <2>2. \/ gor' = [gor EXCEPT !.at = "bind", !.task = task'] /\ task' = [task EXCEPT !.status = "pending"]
        \/ gor' = [gor EXCEPT !.at = "claim"] /\ task' = task
        \/ gor' = [gor EXCEPT !.at = "gone"] /\ task' = task
    BY <1>8 DEF StartPlanExecutionWithExecution
  <2>3. task'.status \in {"none", "pending"} /\ task'.rollback = task.rollback
    BY <1>1, <2>1, <2>2 DEF TaskType
  <2>4. gor'.task \in {task', gor.task}
    BY <1>1, <2>2 DEF Goroutine
  <2> QED
    BY <1>2, <1>3, <2>1, <2>3, <2>4 DEF Agree, Settled
<1>9. CASE executeTask
  <2>1. gor.at = "claim" /\ UNCHANGED <<exec, cancel>>
    BY <1>9 DEF executeTask, control
  <2>2. \/ /\ task.status = "pending" /\ task' = [task EXCEPT !.status = "running"]
           /\ gor' = [gor EXCEPT !.at = "sync", !.task = task']
        \/ task' = task /\ gor' = [gor EXCEPT !.at = "endsync", !.task = task]
    BY <1>9 DEF executeTask
  <2>3. gor'.task = task'
    BY <1>1, <2>2 DEF Goroutine
  <2>4. task'.rollback = task.rollback /\ ("succeeded" \in {exec, cancel} => task'.status = "succeeded")
    BY <1>1, <1>2, <2>2 DEF TaskType
  <2> QED
    BY <1>3, <2>1, <2>3, <2>4 DEF Agree, Settled
<1>10. CASE syncExecutionFromTask
  <2>1. UNCHANGED <<task, cancel>> /\ exec' \in {exec, "running", upgradeExecutionStatus(gor.task)}
    BY <1>10 DEF syncExecutionFromTask, Moves
  <2>2. \E at \in {"move", "endmove", "step", "gone"} : gor' = [gor EXCEPT !.seen = exec, !.at = at] \/ gor' = [gor EXCEPT !.at = at]
    BY <1>10 DEF syncExecutionFromTask, Moves
  <2>3. gor'.at # "close" /\ gor'.task = gor.task
    BY <1>1, <2>2 DEF Goroutine
  <2>4. upgradeExecutionStatus(gor.task) = "succeeded" => gor.task.status = "succeeded"
    BY <1>1 DEF upgradeExecutionStatus
  <2> QED
    BY <1>2, <2>1, <2>3, <2>4 DEF Agree
<1>11. CASE Restart
  <2>1. UNCHANGED <<task, exec>> /\ cancel' = "none" /\ gor' = [gor EXCEPT !.at = "gone"]
    BY <1>11 DEF Restart
  <2>2. gor'.at = "gone" /\ gor'.task = gor.task
    BY <1>1, <2>1 DEF Goroutine
  <2> QED
    BY <1>2, <2>1, <2>2 DEF Agree
\* The steps of a goroutine at work: nothing is told to have succeeded yet.
<1>12. ASSUME UNCHANGED <<exec, cancel>>, gor.at \notin Settled, gor'.task.status = "succeeded" => task'.status = "succeeded",
              task'.rollback # "rollback_succeeded"
       PROVE  Agree'
  BY <1>2, <1>3, <1>12 DEF Agree
<1>13. CASE startStep
  <2> DEFINE t == IF gor.back THEN [gor.task EXCEPT !.rollback = "rollback_running"] ELSE [gor.task EXCEPT !.status = "running"]
  <2>1. UNCHANGED <<exec, cancel>> /\ gor.at = "step" /\ (task' = t \/ UNCHANGED task)
    BY <1>13 DEF startStep, Saved, control
  <2>2. gor'.at \in {"node", "err"}
    BY <1>1, <1>13 DEF startStep, Goroutine
  <2>3. t.rollback # "rollback_succeeded"
    BY <1>1, <1>3, <2>1 DEF TaskType, Settled
  <2> QED
    BY <1>3, <1>12, <2>1, <2>2, <2>3 DEF Settled
<1>14. CASE (\E n \in Nodes : NodeStep(n)) \/ breakStep
  <2>1. UNCHANGED <<exec, cancel, task>> /\ gor.at = "node"
    BY <1>14 DEF NodeStep, breakStep, control
  <2>2. breakStep => gor'.at = "fail"
    BY <1>1 DEF breakStep, Goroutine
  <2>3. \A n \in Nodes : NodeStep(n) => gor'.at \in {"node", "fail", "err"}
    BY OutcomeIs
  <2> QED
    BY <1>3, <1>12, <1>14, <2>1, <2>2, <2>3 DEF Settled
<1>15. CASE finishStep
  <2> DEFINE next == IF Tail(gor.steps) # <<>> THEN "step" ELSE IF gor.back THEN "close" ELSE "won"
  <2>1. UNCHANGED <<exec, cancel, task>> /\ gor.at = "node"
    BY <1>15 DEF finishStep, control
  <2>2. gor'.at \in {next, "err", "fail"}
    BY <1>1, <1>15 DEF finishStep, finished, Goroutine
  <2> QED
    BY <1>3, <1>12, <2>1, <2>2 DEF Settled
<1>16. CASE failStep \/ StartRollback
  <2>1. UNCHANGED <<exec, cancel>> /\ gor.at \in {"fail", "err"}
    BY <1>16 DEF failStep, StartRollback, control
  <2>2. task' \in {task, [gor.task EXCEPT !.rollback = "rollback_failed"], [gor.task EXCEPT !.status = "failed"],
                   [gor.task EXCEPT !.status = "failed", !.rollback = "rollback_running"]}
    BY <1>16 DEF failStep, StartRollback, Saved
  <2>3. task'.rollback # "rollback_succeeded"
    BY <1>1, <1>3, <2>1, <2>2 DEF TaskType, Settled
  <2>4. gor'.at \in {"err", "step"} \/ (gor'.at = "gone" /\ gor'.task = gor.task)
    BY <1>1, <1>16 DEF failStep, StartRollback, Goroutine
  <2> QED
    BY <1>2, <1>3, <1>12, <2>1, <2>3, <2>4 DEF Settled
<1>17. CASE SettleFailure
  <2>1. UNCHANGED <<exec, cancel, task>> /\ gor.at = "err"
    BY <1>17 DEF SettleFailure, control
  <2>2. gor'.at = "close"
    BY <1>1, <1>17 DEF SettleFailure, Goroutine
  <2> QED
    BY <1>3, <1>12, <2>1, <2>2 DEF Settled
<1>18. CASE recordFailureClosureStep
  <2>1. UNCHANGED <<exec, cancel>> /\ gor.at \in {"close", "last"} /\ (task' = gor'.task \/ UNCHANGED task)
    BY <1>18 DEF recordFailureClosureStep, Saved, control
  <2>2. gor'.at # "close" /\ gor'.task.rollback = gor.task.rollback /\ gor'.task.status = gor.task.status
    <3>1. CASE gor.at = "close"
      <4>1. gor' = [gor EXCEPT !.at = "last"]
        BY <1>18, <3>1 DEF recordFailureClosureStep
      <4> QED
        BY <1>1, <4>1 DEF Goroutine
    <3>2. CASE gor.at = "last"
      <4>1. gor' = [gor EXCEPT !.at = "endsync", !.task.done = TRUE]
        BY <1>18, <3>2 DEF recordFailureClosureStep
      <4>2. gor'.at = "endsync" /\ gor'.task = [gor.task EXCEPT !.done = TRUE]
        BY <1>1, <4>1 DEF Goroutine
      <4> QED
        BY <1>1, <4>2 DEF TaskType
    <3> QED
      BY <2>1, <3>1, <3>2
  <2> QED
    BY <1>2, <1>3, <2>1, <2>2 DEF Agree, Settled
<1>19. CASE FinishSuccess
  <2> DEFINE t == [gor.task EXCEPT !.status = "succeeded", !.rollback = "pending", !.done = TRUE]
  <2>1. UNCHANGED <<exec, cancel>> /\ gor.at \in {"won", "commit"}
    BY <1>19 DEF FinishSuccess, control
  <2>2. \/ task' = t /\ gor' = [gor EXCEPT !.at = "endsync", !.task = t]
        \/ task' = task /\ \E at \in {"commit", "gone"} : gor' = [gor EXCEPT !.at = at]
    BY <1>19 DEF FinishSuccess, Saved
  <2>3. t.status = "succeeded" /\ t.rollback = "pending"
    BY <1>1 DEF TaskType
  <2> HIDE DEF t
  <2>4. (task' = t /\ gor'.task = t) \/ (task' = task /\ gor'.task = gor.task)
    BY <1>1, <2>2 DEF Goroutine
  <2> QED
    BY <1>2, <1>3, <1>12, <2>1, <2>3, <2>4 DEF Settled
<1>20. CASE UNCHANGED vars \/ \E n \in Nodes : AgentGoesOffline(n) \/ AgentReturns(n) \/ ProcessDies(n) \/ ProcessRestarts(n)
  BY <1>4, <1>20 DEF AgentGoesOffline, AgentReturns, ProcessDies, ProcessRestarts, vars, control
<1> QED
  BY <1>5, <1>6, <1>7, <1>8, <1>9, <1>10, <1>11, <1>13, <1>14, <1>15, <1>16, <1>17, <1>18, <1>19, <1>20
  DEF Next, Works, Answers, Environment

\* The task decides what is told: the execution follows it.
LEMMA ToldIs ==
    ASSUME Inv, Agree
    PROVE  Told = IF task.status = "cancelled" THEN "cancelled" ELSE IF task.status = "succeeded" THEN "upgraded"
                  ELSE IF task.rollback = "rollback_succeeded" THEN "restored" ELSE IF task.done THEN "failed" ELSE "open"
BY DEF Inv, Cancelled, Agree, Told

\* What was told stays.
LEMMA ToldOnce ==
    ASSUME Inv, Follow, Ends, Agree, Inv', Agree', [Next]_vars, Told # "open"
    PROVE  Told' = Told
<1>1. gor.at \in Places /\ task.status \in TaskStatus /\ gor.task \in TaskType /\ gor \in Goroutine
  BY DEF Inv, Types, Goroutine, TaskType
<1>2. /\ Told = IF task.status = "cancelled" THEN "cancelled" ELSE IF task.status = "succeeded" THEN "upgraded"
                ELSE IF task.rollback = "rollback_succeeded" THEN "restored" ELSE IF task.done THEN "failed" ELSE "open"
      /\ Told' = IF task'.status = "cancelled" THEN "cancelled" ELSE IF task'.status = "succeeded" THEN "upgraded"
                 ELSE IF task'.rollback = "rollback_succeeded" THEN "restored" ELSE IF task'.done THEN "failed" ELSE "open"
  BY ToldIs DEF Inv, Cancelled, Agree, Told
<1>3. CASE task' = task
  BY <1>2, <1>3
<1>4. CASE task.status \in {"cancelled", "succeeded"} \/ task.done
  <2>1. task.status \in {"cancelled", "succeeded"} => gor.at \in {"claim"} \cup Settled
    BY <1>1 DEF Inv, Cancelled, Reported, Places, Working, Begun, Settled
  <2>2. gor.at \in {"claim", "endsync", "endmove", "gone"} /\ task.status # "pending"
    BY <1>4, <2>1 DEF Ends, Settled
  <2> QED
    BY <1>3, <2>2, Rests
<1>5. CASE task.status \notin {"cancelled", "succeeded"} /\ ~task.done
  <2>1. task.rollback = "rollback_succeeded"
    BY <1>2, <1>5
  <2>2. gor.at \in {"last"} \cup Settled /\ gor.task.rollback = "rollback_succeeded" /\ task.status \in Begun
    BY <2>1 DEF Inv, Reported, Agree, Follow, EndsLate, RollbackEnds, Cancelled
  <2>3. CASE gor.at = "last" /\ recordFailureClosureStep
    <3>1. gor' = [gor EXCEPT !.at = "endsync", !.task.done = TRUE] /\ (task' = gor'.task \/ task' = task)
      BY <2>3 DEF recordFailureClosureStep, Saved
    <3>2. gor'.task = [gor.task EXCEPT !.done = TRUE]
      BY <1>1, <3>1 DEF Goroutine
    <3>3. gor'.task.status = gor.task.status /\ gor'.task.rollback = "rollback_succeeded"
      BY <1>1, <2>2, <3>2 DEF TaskType
    <3>4. gor.task.status \notin {"cancelled", "succeeded"}
      BY <2>3 DEF Inv, Cancelled, Reported, Working, Begun, Settled
    <3> QED
      BY <1>2, <1>3, <1>5, <2>1, <3>1, <3>3, <3>4
  <2> QED
    BY <1>3, <2>2, <2>3, Rests DEF Settled, Begun
<1> QED
  BY <1>4, <1>5

\* Untouched, the whole cluster is as it was.
LEMMA UntouchedIs == Inv /\ Quiet /\ ~touched => AsItWas
BY DEF Inv, Returned, ReturnedAt, Quiet, AsItWas

LEMMA ClusterIs ==
    /\ AsItWas => Cluster = "old"
    /\ Upgraded => Cluster = "new"
    /\ Cluster \in {"old", "mixed", "new"}
BY DEF AsItWas, Upgraded, Cluster

\* What is told of the cluster is so.
Real ==
    /\ Told = "upgraded" => Cluster = "new"
    /\ Told = "restored" => Cluster = "old"
    /\ Told = "cancelled" <=> ~touched /\ Told # "open"
    /\ ~touched => Cluster = "old"

LEMMA ToldIsReal == ASSUME Inv, Follow, Agree, Quiet PROVE Real
<1>1. Told = "upgraded" => Upgraded
  BY ToldIs, InvSuccess DEF SuccessIsReal
<1>2. Told = "restored" => AsItWas
  BY ToldIs, InvRollback DEF RollbackIsReal
<1>3. ~touched => AsItWas
  BY UntouchedIs
<1>4. Told = "cancelled" => ~touched
  BY ToldIs DEF Inv, Cancelled, Begun
<1>5. Told \in {"restored", "failed"} => touched
  <2>1. task.rollback = "rollback_succeeded" => touched
    BY DEF Follow, EndsLate, RollbackEnds
  <2> QED
    BY <2>1, ToldIs DEF Quiet
<1>6. Upgraded => ~AsItWas
  BY DEF Upgraded, AsItWas
<1>7. Told \in {"cancelled", "upgraded", "restored", "failed", "open"}
  BY DEF Told
<1> QED
  BY <1>1, <1>2, <1>3, <1>4, <1>5, <1>6, <1>7, ClusterIs DEF Real

\* Where something is told, or the upgrade begins, the cluster is left alone.
LEMMA TellsOrWorks ==
    ASSUME [Next]_vars
    PROVE  \/ UNCHANGED <<task, exec, touched>>
           \/ UNCHANGED <<inPlace, disk, proc, meta, version, touched>>
           \/ startStep
<1>1. ASSUME NEW n \in Nodes, NodeStep(n) \/ AgentGoesOffline(n) \/ AgentReturns(n) \/ ProcessDies(n) \/ ProcessRestarts(n)
      PROVE  UNCHANGED <<task, exec, touched>>
  BY <1>1 DEF NodeStep, AgentGoesOffline, AgentReturns, ProcessDies, ProcessRestarts, control
<1>2. CASE finishStep
  BY <1>2 DEF finishStep, control
<1>3. CASE startStep
  BY <1>3
<1>4. CASE breakStep \/ failStep \/ StartRollback \/ SettleFailure \/ recordFailureClosureStep \/ FinishSuccess
  BY <1>4 DEF breakStep, failStep, StartRollback, SettleFailure, recordFailureClosureStep, FinishSuccess, world, hosts, record
<1>5. CASE StartPlanExecutionWithExecution \/ executeTask \/ syncExecutionFromTask
  BY <1>5 DEF StartPlanExecutionWithExecution, executeTask, syncExecutionFromTask, world, hosts, record
<1>6. CASE CreateExecution \/ ClaimCancel \/ Answers \/ Restart \/ UNCHANGED vars
  BY <1>6 DEF CreateExecution, ClaimCancel, Answers, RequestCancel, FinishCancel, Restart, vars, world, hosts, record
<1> QED
  BY <1>1, <1>2, <1>3, <1>4, <1>5, <1>6 DEF Next, Works, Environment

LEMMA ClusterStays ==
    ASSUME UNCHANGED <<inPlace, disk, proc, meta, version>>
    PROVE  Cluster' = Cluster
BY DEF Cluster, Upgraded, AsItWas, Target

LEMMA ToldStays == ASSUME UNCHANGED <<task, exec>> PROVE Told' = Told
BY DEF Told

\* Every step tells the end, does something to the cluster, begins, or stutters.
LEMMA StepRefines ==
    ASSUME Inv, Follow, Ends, Agree, Inv', Ends', Agree', Real, Real', [Next]_vars
    PROVE  [Promise!Next]_<<Told, Cluster, touched>>
<1>1. /\ Told = "upgraded" => Cluster = "new"
      /\ Told = "restored" => Cluster = "old"
      /\ Told = "cancelled" <=> ~touched /\ Told # "open"
      /\ ~touched => Cluster = "old"
  BY DEF Real
<1>2. /\ Told' = "upgraded" => Cluster' = "new"
      /\ Told' = "restored" => Cluster' = "old"
      /\ Told' = "cancelled" <=> ~touched' /\ Told' # "open"
      /\ ~touched' => Cluster' = "old"
  BY DEF Real
<1>3. Told # "open" => Told' = Told
  BY ToldOnce
<1>4. touched \in BOOLEAN /\ touched' \in BOOLEAN
  BY DEF Inv, Types
<1>5. Told' \in {"open", "cancelled", "upgraded", "restored", "failed"} /\ Told \in {"open", "cancelled", "upgraded", "restored", "failed"}
  BY DEF Told
<1>6. Cluster' \in {"old", "mixed", "new"}
  BY DEF Cluster
<1>7. CASE UNCHANGED <<task, exec, touched>>
  <2>1. Told' = Told
    BY <1>7, ToldStays
  <2>2. Cluster' # Cluster => touched /\ Told \in {"open", "failed"}
    BY <1>1, <1>2, <1>4, <1>5, <1>7, <2>1
  <2>3. Cluster' # Cluster => Promise!Work
    BY <1>6, <1>7, <2>1, <2>2 DEF Promise!Work, Promise!Versions
  <2> QED
    BY <1>7, <2>1, <2>3 DEF Promise!Next
<1>8. CASE UNCHANGED <<inPlace, disk, proc, meta, version, touched>>
  <2>1. Cluster' = Cluster
    BY <1>8, ClusterStays
  <2>2. CASE Told' # Told
    <3>1. Told = "open" /\ Told' \in {"cancelled", "upgraded", "restored", "failed"}
      BY <1>3, <1>5, <2>2
    <3> QED
      BY <1>2, <1>8, <2>1, <3>1 DEF Promise!Tell, Promise!Ends, Promise!Next
  <2> QED
    BY <1>8, <2>1, <2>2
<1>9. CASE startStep
  <2>1. gor.at = "step" /\ touched' = TRUE /\ UNCHANGED <<inPlace, disk, proc, meta, version, exec>>
    BY <1>9 DEF startStep, world, hosts, record, control
  <2>2. Cluster' = Cluster
    BY <2>1, ClusterStays
  <2>3. gor'.at \in {"node", "err"}
    BY <1>9 DEF startStep, Inv, Types, Goroutine
  <2>4. Told' = "open"
    <3>1. ~task'.done /\ task'.status \notin {"cancelled", "succeeded"} /\ task'.rollback # "rollback_succeeded"
      BY <2>1, <2>3 DEF Ends, Inv, Reported, Cancelled, Begun, Settled
    <3>2. exec' \notin {"cancelled", "succeeded"}
      BY <3>1 DEF Agree, Inv, Cancelled
    <3> QED
      BY <3>1, <3>2 DEF Told
  <2>5. Told = "open"
    BY <1>3, <2>4
  <2> QED
    BY <1>4, <2>1, <2>2, <2>4, <2>5 DEF Promise!Begin, Promise!Next
<1> QED
  BY <1>7, <1>8, <1>9, TellsOrWorks

\* However an upgrade fails, dies or is cancelled, what its task and its execution
\* tell is told once and stays true of every node: the promise of UpgradeOutcome
\* (executeTask, rollbackTask, RequestCancel, syncExecutionFromTask).
THEOREM PromiseKept == Spec => KeepsPromise
<1>1. Init => Promise!Init
  <2>1. Init => ~touched /\ touched = FALSE /\ Told = "open"
    BY DEF Init, NoTask, Told
  <2>2. Init => AsItWas
    BY DEF Init, AsItWas, Dirs
  <2> QED
    BY <2>1, <2>2, ClusterIs DEF Promise!Init
<1>2. Init => Ends /\ Quiet /\ Agree
  BY DEF Init, NoTask, Fresh, Ends, Quiet, AsBefore, Agree
<1>3. /\ Inv /\ Copied /\ Follow /\ Ends /\ Quiet /\ Agree /\ [Next]_vars
      => Inv' /\ Copied' /\ Follow' /\ Ends' /\ Quiet' /\ Agree'
  BY NextInv, NextCopied, NextFollow, NextEnds, NextQuiet, NextAgree
<1>4. Inv /\ Follow /\ Agree /\ Quiet => Real
  BY ToldIsReal
<1>5. /\ Inv /\ Follow /\ Ends /\ Agree /\ Real /\ Inv' /\ Ends' /\ Agree' /\ Real' /\ [Next]_vars
      => [Promise!Next]_<<Told, Cluster, touched>>
  BY StepRefines
<1> QED
  BY <1>1, <1>2, <1>3, <1>4, <1>5, InitInv, InitCopied, InitFollow, PTL DEF Spec, KeepsPromise, Promise!Spec
=============================================================================
