------------------------- MODULE ScaleExecution_proofs -------------------------
(***************************************************************************)
(* Safety of ScaleExecution, for every set of hosts and any number of      *)
(* operations, retries and faults: one operation works at a time, a node   *)
(* that is taken for joined has joined, a record is only deleted after its *)
(* process was found stopped, a retry goes on where the plan was left, and *)
(* what succeeded is through with its plan.                                *)
(***************************************************************************)
EXTENDS ScaleExecution, FiniteSetTheorems, SequenceTheorems, TLAPS

-----------------------------------------------------------------------------
(* The invariant.                                                          *)

Places    == {"none", "run", "out", "end", "lost", "fix", "roll", "rejoin", "stop"}
Goroutine == [at : Places, res : Done \cup {"none", "failed"}, todo : SUBSET Nodes, expected : SUBSET Nodes]
Results   == Done \cup {"failed"}
Working   == {"run", "out", "fix", "roll", "rejoin", "stop"}

RecordTypes ==
    /\ records \subseteq Nodes /\ agents \subseteq Nodes
    /\ status \in [Nodes -> {"running", "stopped", "error"}]

ProcessTypes ==
    /\ running \subseteq Nodes /\ exiting \subseteq running /\ restarted \subseteq Nodes
    /\ sees \in [Nodes -> SUBSET Nodes]

ListTypes == file \in [Nodes -> SUBSET Nodes] /\ want \in [Nodes -> SUBSET Nodes]

OpsTypes ==
    /\ ops \in [Ops -> Op] /\ ranThen \in [Ops -> SUBSET Nodes] /\ gor \in [Ops -> Goroutine]
    /\ retries \in Nat /\ faults \in Nat

\* A live reference names a node with a record.
Referred == \A o \in Ops : ops[o].ref = "live" => ops[o].node \in records

\* A goroutine at work has a step to do.
Ahead == \A o \in Ops : IF gor[o].at \in Working THEN ops[o].done < Len(Steps(ops[o])) ELSE ops[o].done <= Len(Steps(ops[o]))

\* Goroutines work for running operations only, of which there is one.
Alone ==
    /\ \A o \in Ops : gor[o].at \notin {"none", "lost"} => ops[o].status = "running"
    /\ \A o, p \in Ops : ops[o].status = "running" /\ ops[p].status = "running" => o = p

\* Every node that ran at the validation is in the baseline.
Remembered == \A o \in Ops : ranThen[o] \subseteq ops[o].baseline /\ (ops[o].status = "none" => ranThen[o] = {})

\* A scale-in that is through stop_node has found its node stopped.
StoppedOnce(o) ==
    /\ gor[o].at \in {"fix", "roll", "rejoin"} => ops[o].kind # "in"
    /\ /\ ops[o].kind = "in" /\ ops[o].ref = "live"
       /\ ops[o].done >= 2 \/ (ops[o].done = 1 /\ gor[o].at = "out" /\ gor[o].res \in Done)
       => ops[o].node \notin running \ restarted
Stopped == \A o \in Ops : StoppedOnce(o)

Inv == RecordTypes /\ ProcessTypes /\ ListTypes /\ OpsTypes /\ Referred /\ Ahead /\ Alone /\ Remembered /\ Stopped

-----------------------------------------------------------------------------
(* The steps of an operation.                                              *)

OutSteps == {"validate_plan", "fix_loopback", "install_files", "register_node", "apply_configs", "replay_plugins",
             "start_node", "patch_members", "verify_membership", "rolling_restart"}

LEMMA OutStepsAre ==
    ASSUME NEW op \in Op, op.kind # "in"
    PROVE  Steps(op) \in Seq(OutSteps) /\ Len(Steps(op)) \in 1..11
<1> DEFINE a == <<"validate_plan">>
           b == IF op.loop # {} THEN <<"fix_loopback">> ELSE <<>>
           c == IF op.mode = "install" THEN <<"install_files">> ELSE <<>>
           d == <<"register_node", "apply_configs", "replay_plugins">>
           e == IF op.mode = "install" THEN <<"start_node">> ELSE <<>>
           f == <<"patch_members", "verify_membership">>
           g == IF op.roll # {} THEN <<"rolling_restart">> ELSE <<>>
<1>1. /\ a \in Seq(OutSteps) /\ b \in Seq(OutSteps) /\ c \in Seq(OutSteps) /\ d \in Seq(OutSteps)
      /\ e \in Seq(OutSteps) /\ f \in Seq(OutSteps) /\ g \in Seq(OutSteps)
  <2>1. \A s \in OutSteps : <<s>> \in Seq(OutSteps)
    OBVIOUS
  <2>2. <<>> \in Seq(OutSteps)
    OBVIOUS
  <2>3. d \in Seq(OutSteps) /\ f \in Seq(OutSteps)
    BY DEF OutSteps
  <2>4. {"validate_plan", "fix_loopback", "install_files", "start_node", "rolling_restart"} \subseteq OutSteps
    BY DEF OutSteps
  <2> QED
    BY <2>1, <2>2, <2>3, <2>4
<1>2. /\ Len(a) = 1 /\ Len(b) \in {0, 1} /\ Len(c) \in {0, 1} /\ Len(d) = 3 /\ Len(e) \in {0, 1} /\ Len(f) = 2 /\ Len(g) \in {0, 1}
  OBVIOUS
<1>3. Steps(op) = (((((a \o b) \o c) \o d) \o e) \o f) \o g
  BY DEF Steps, scaleOutSteps
<1> HIDE DEF a, b, c, d, e, f, g
<1>4. a \o b \in Seq(OutSteps) /\ Len(a \o b) = Len(a) + Len(b)
  BY <1>1, ConcatProperties
<1>5. (a \o b) \o c \in Seq(OutSteps) /\ Len((a \o b) \o c) = Len(a) + Len(b) + Len(c)
  BY <1>1, <1>4, ConcatProperties
<1>6. ((a \o b) \o c) \o d \in Seq(OutSteps) /\ Len(((a \o b) \o c) \o d) = Len(a) + Len(b) + Len(c) + Len(d)
  BY <1>1, <1>5, ConcatProperties
<1>7. /\ (((a \o b) \o c) \o d) \o e \in Seq(OutSteps)
      /\ Len((((a \o b) \o c) \o d) \o e) = Len(a) + Len(b) + Len(c) + Len(d) + Len(e)
  BY <1>1, <1>6, ConcatProperties
<1>8. /\ ((((a \o b) \o c) \o d) \o e) \o f \in Seq(OutSteps)
      /\ Len(((((a \o b) \o c) \o d) \o e) \o f) = Len(a) + Len(b) + Len(c) + Len(d) + Len(e) + Len(f)
  BY <1>1, <1>7, ConcatProperties
<1>9. /\ (((((a \o b) \o c) \o d) \o e) \o f) \o g \in Seq(OutSteps)
      /\ Len((((((a \o b) \o c) \o d) \o e) \o f) \o g) = Len(a) + Len(b) + Len(c) + Len(d) + Len(e) + Len(f) + Len(g)
  BY <1>1, <1>8, ConcatProperties
<1>10. Len(a) + Len(b) + Len(c) + Len(d) + Len(e) + Len(f) + Len(g) \in 1..11
  <2>1. PICK x \in {0, 1}, y \in {0, 1}, z \in {0, 1}, w \in {0, 1} : Len(b) = x /\ Len(c) = y /\ Len(e) = z /\ Len(g) = w
    BY <1>2, Zenon
  <2>2. Len(a) + Len(b) + Len(c) + Len(d) + Len(e) + Len(f) + Len(g) = 1 + x + y + 3 + z + 2 + w
    BY <1>2, <2>1, Zenon
  <2>3. 1 + x + y + 3 + z + 2 + w \in 1..11
    OBVIOUS
  <2> QED
    BY <2>2, <2>3, Zenon
<1> QED
  BY <1>3, <1>9, <1>10

LEMMA InStepsAre ==
    ASSUME NEW op, op.kind = "in"
    PROVE  /\ Len(Steps(op)) = 6
           /\ Steps(op)[1] = "validate_plan" /\ Steps(op)[2] = "stop_node" /\ Steps(op)[3] = "patch_members"
           /\ Steps(op)[4] = "cleanup_records" /\ Steps(op)[5] = "refresh_monitor" /\ Steps(op)[6] = "verify"
<1>1. Steps(op) = <<"validate_plan", "stop_node", "patch_members", "cleanup_records", "refresh_monitor", "verify">>
  BY DEF Steps
<1> QED
  BY <1>1

LEMMA StepsLength ==
    ASSUME NEW op \in Op
    PROVE  Len(Steps(op)) \in 1..11
BY OutStepsAre, InStepsAre

\* What is known of an operation whose next step this is.
LEMMA AtStep ==
    ASSUME Inv, NEW o \in Ops, NEW step, At(o, step)
    PROVE  /\ gor[o].at = "run" /\ ops[o].done < Len(Steps(ops[o])) /\ ops[o].status = "running"
           /\ step \in OutSteps \ {"validate_plan", "patch_members"} => ops[o].kind # "in"
           /\ step \in {"stop_node", "cleanup_records"} => ops[o].kind = "in"
           /\ ops[o].kind = "in" /\ ops[o].done = 1 => step = "stop_node"
           /\ step = "cleanup_records" => ops[o].done = 3
<1>1. gor[o].at = "run" /\ Steps(ops[o])[ops[o].done + 1] = step
  BY DEF At
<1>2. ops[o] \in Op /\ ops[o].done \in Nat
  BY DEF Inv, OpsTypes, Op
<1>3. ops[o].done < Len(Steps(ops[o])) /\ ops[o].status = "running"
  BY <1>1 DEF Inv, Ahead, Alone, Working
<1>4. CASE ops[o].kind = "in"
  <2>1. ops[o].done \in 0..5
    <3>1. Len(Steps(ops[o])) = 6
      BY <1>4, InStepsAre
    <3> QED
      BY <1>2, <1>3, <3>1
  <2>2. /\ ops[o].done = 0 => step = "validate_plan"
        /\ ops[o].done = 1 => step = "stop_node"
        /\ ops[o].done = 2 => step = "patch_members"
        /\ ops[o].done = 3 => step = "cleanup_records"
        /\ ops[o].done = 4 => step = "refresh_monitor"
        /\ ops[o].done = 5 => step = "verify"
    BY <1>1, <1>4, InStepsAre
  <2> QED
    BY <1>1, <1>3, <1>4, <2>1, <2>2 DEF OutSteps
<1>5. CASE ops[o].kind # "in"
  <2>1. step \in OutSteps
    BY <1>1, <1>2, <1>3, <1>5, OutStepsAre, ElementOfSeq
  <2> QED
    BY <1>1, <1>3, <1>5, <2>1 DEF OutSteps
<1> QED
  BY <1>4, <1>5

-----------------------------------------------------------------------------
(* What a step does to the types.                                          *)

LEMMA FaultCounts == OpsTypes /\ (Fault \/ UNCHANGED faults) => faults' \in Nat
BY BoundsAssumption DEF OpsTypes, Fault

LEMMA LostCounts ==
    ASSUME OpsTypes, NEW S, NEW lost \in {{}} \cup (IF faults < MaxFaults THEN {{n} : n \in S} ELSE {}),
           faults' = faults + Cardinality(lost)
    PROVE  faults' \in Nat
<1>1. Cardinality(lost) \in Nat
  <2>1. CASE lost = {}
    BY <2>1, FS_EmptySet
  <2>2. CASE lost # {}
    <3>1. PICK n \in S : lost = {n}
      BY <2>2
    <3> QED
      BY <3>1, FS_Singleton
  <2> QED
    BY <2>1, <2>2
<1> QED
  BY <1>1 DEF OpsTypes

\* Processes that start or stop keep their types, and no process runs that
\* was not running and was not restarted.
LEMMA StartsTypes ==
    ASSUME ProcessTypes, ListTypes, NEW n \in Nodes, Starts(n)
    PROVE  ProcessTypes' /\ running' \ restarted' \subseteq running \ restarted
<1>1. Left(n) \in [Nodes -> SUBSET Nodes]
  BY DEF Left, ProcessTypes
<1>2. sees' \in JoinedAfter(n, Left(n), file[n]) /\ running' = running \cup {n} /\ exiting' = exiting \ {n}
      /\ restarted' = restarted \cup {n}
  BY DEF Starts
<1>3. sees' \in [Nodes -> SUBSET Nodes]
  <2> DEFINE s == Left(n)
             groups == {s[m] : m \in {k \in file[n] \ {n} : s[k] # {}}}
             Join(g) == [m \in Nodes |-> IF m \in g \cup {n} THEN g \cup {n} ELSE s[m]]
  <2>1. \A g \in SUBSET Nodes : Join(g) \in [Nodes -> SUBSET Nodes]
    BY <1>1
  <2>2. groups \subseteq SUBSET Nodes
    <3>1. file[n] \subseteq Nodes
      BY DEF ListTypes
    <3> QED
      BY <1>1, <3>1
  <2>3. JoinedAfter(n, s, file[n]) \subseteq {s, Join({})} \cup {Join(g) : g \in groups}
    BY DEF JoinedAfter
  <2> QED
    BY <1>1, <1>2, <2>1, <2>2, <2>3
<1> QED
  BY <1>2, <1>3 DEF ProcessTypes

LEMMA StopsTypes ==
    ASSUME ProcessTypes, NEW n \in Nodes, Stops(n), UNCHANGED restarted
    PROVE  ProcessTypes' /\ running' \ restarted' \subseteq running \ restarted
<1>1. Left(n) \in [Nodes -> SUBSET Nodes]
  BY DEF Left, ProcessTypes
<1> QED
  BY <1>1 DEF ProcessTypes, Stops

LEMMA HostsTypes ==
    ASSUME ProcessTypes, UNCHANGED <<hosts, restarted>>
    PROVE  ProcessTypes' /\ running' \ restarted' \subseteq running \ restarted
BY DEF ProcessTypes, hosts

LEMMA PushesTypes ==
    ASSUME ListTypes, NEW S, NEW list \in SUBSET Nodes, NEW lost, Pushes(S, list, lost)
    PROVE  ListTypes'
BY DEF ListTypes, Pushes

LEMMA ListsTypes == ListTypes /\ UNCHANGED lists => ListTypes'
BY DEF ListTypes, lists

LEMMA RefreshedType ==
    ASSUME RecordTypes, NEW missed
    PROVE  Refreshed(missed) \in [Nodes -> {"running", "stopped", "error"}]
BY DEF RecordTypes, Refreshed, Checked

LEMMA MissingCounts ==
    ASSUME OpsTypes, NEW S, NEW missed \in Misread(S), Missing(missed)
    PROVE  faults' \in Nat
<1>1. /\ missed \in {{}} \cup (IF faults < MaxFaults THEN {{n} : n \in S \cap agents \cap running} ELSE {})
      /\ faults' = faults + Cardinality(missed)
  BY DEF Misread, Missing
<1> QED
  BY <1>1, LostCounts

LEMMA RestartTypes ==
    ASSUME RecordTypes, ProcessTypes, ListTypes, NEW n \in Nodes, RestartNode(n) \/ RestartFails(n), UNCHANGED <<records, agents>>
    PROVE  RecordTypes' /\ ProcessTypes' /\ running' \ restarted' \subseteq running \ restarted
<1>1. Starts(n) \/ (Stops(n) /\ UNCHANGED restarted)
  BY DEF RestartNode, RestartFails
<1>2. status' = [status EXCEPT ![n] = "running"] \/ status' = [status EXCEPT ![n] = "error"]
  BY DEF RestartNode, RestartFails
<1> QED
  BY <1>1, <1>2, StartsTypes, StopsTypes DEF RecordTypes

-----------------------------------------------------------------------------
(* What a step does to the operations.                                     *)

LEMMA SameSteps ==
    ASSUME NEW p, NEW q, p.kind = q.kind, p.mode = q.mode, p.loop = q.loop, p.roll = q.roll
    PROVE  Steps(p) = Steps(q)
BY DEF Steps, scaleOutSteps

\* A step leaves the plan and the progress of an operation alone, and revives
\* no reference of a scale-in.
SamePlan(p) ==
    /\ ops'[p].kind = ops[p].kind /\ ops'[p].node = ops[p].node /\ ops'[p].mode = ops[p].mode
    /\ ops'[p].loop = ops[p].loop /\ ops'[p].roll = ops[p].roll
    /\ ops'[p].status = ops[p].status /\ ops'[p].done = ops[p].done
    /\ ops[p].kind = "in" /\ ops'[p].ref = "live" => ops[p].ref = "live"

\* Where the goroutine of o may be after it has taken a step.
StepsTo(o, g) ==
    /\ g \in Goroutine /\ g.at \in Working \ {"run"}
    /\ g.at \in {"fix", "roll", "rejoin"} => ops[o].kind # "in"
    /\ ops[o].kind = "in" /\ ops[o].done = 1 /\ ops[o].ref = "live" /\ g.at = "out" /\ g.res \in Done
       => ops[o].node \notin running' \ restarted'

LEMMA StepInv ==
    ASSUME Inv, RecordTypes', ProcessTypes', ListTypes', OpsTypes', Referred', Remembered',
           running' \ restarted' \subseteq running \ restarted,
           \A p \in Ops : SamePlan(p) /\ (gor'[p] = gor[p] \/ (gor[p].at \in Working /\ StepsTo(p, gor'[p])))
    PROVE  Inv'
<1>1. \A p \in Ops : Steps(ops'[p]) = Steps(ops[p])
  BY SameSteps DEF SamePlan
<1>2. Ahead'
  <2> SUFFICES ASSUME NEW p \in Ops
               PROVE  IF gor'[p].at \in Working THEN ops'[p].done < Len(Steps(ops'[p])) ELSE ops'[p].done <= Len(Steps(ops'[p]))
    BY DEF Ahead
  <2>1. ops'[p].done = ops[p].done /\ Steps(ops'[p]) = Steps(ops[p])
    BY <1>1 DEF SamePlan
  <2>2. gor'[p].at \in Working <=> gor[p].at \in Working
    BY DEF StepsTo
  <2> QED
    BY <2>1, <2>2 DEF Inv, Ahead
<1>3. Alone'
  BY DEF Inv, Alone, SamePlan, StepsTo, Working
<1>4. Stopped'
  <2> SUFFICES ASSUME NEW p \in Ops PROVE StoppedOnce(p)'
    BY DEF Stopped
  <2>1. SamePlan(p) /\ StoppedOnce(p)
    BY DEF Inv, Stopped
  <2>2. CASE gor'[p] = gor[p]
    BY <2>1, <2>2 DEF SamePlan, StoppedOnce
  <2>3. CASE StepsTo(p, gor'[p])
    BY <2>1, <2>3 DEF SamePlan, StoppedOnce, StepsTo
  <2> QED
    BY <2>2, <2>3
<1> QED
  BY <1>2, <1>3, <1>4 DEF Inv

\* A step that marks its operation as running, or leaves it alone, removes no record.
LEMMA PlainStepInv ==
    ASSUME Inv, NEW o \in Ops, NEW g, gor[o].at \in Working, Goes(o, g), StepsTo(o, g), Marks(o) \/ UNCHANGED ops,
           RecordTypes', ProcessTypes', ListTypes', faults' \in Nat, records \subseteq records', UNCHANGED <<ranThen, retries>>,
           running' \ restarted' \subseteq running \ restarted
    PROVE  Inv'
<1>1. gor' \in [Ops -> Goroutine] /\ gor'[o] = g /\ \A p \in Ops : p # o => gor'[p] = gor[p]
  BY DEF Inv, OpsTypes, Goes, StepsTo
<1>2. /\ ops' \in [Ops -> Op] /\ \A p \in Ops : SamePlan(p)
      /\ \A p \in Ops : ops'[p].ref = ops[p].ref /\ ops'[p].baseline = ops[p].baseline
  <2>1. CASE UNCHANGED ops
    BY <2>1 DEF Inv, OpsTypes, SamePlan
  <2>2. CASE Marks(o)
    <3>1. ops' = [ops EXCEPT ![o].cur = "running"] /\ ops \in [Ops -> Op]
      BY <2>2 DEF Marks, Inv, OpsTypes
    <3> QED
      BY <3>1 DEF Op, SamePlan
  <2> QED
    BY <2>1, <2>2
<1>3. OpsTypes'
  BY <1>1, <1>2 DEF Inv, OpsTypes
<1>4. Referred' /\ Remembered'
  BY <1>2 DEF Inv, Referred, Remembered, SamePlan
<1> QED
  BY <1>1, <1>2, <1>3, <1>4, StepInv

Outcome(res) == [Idle EXCEPT !.at = "out", !.res = res]

LEMMA OutcomeType ==
    ASSUME NEW res \in Results
    PROVE  Outcome(res) \in Goroutine /\ Outcome(res).at = "out" /\ Outcome(res).res = res
BY DEF Outcome, Idle, Goroutine, Places, Results

\* A step other than stop_node that ends with an outcome.
LEMMA ReturnInv ==
    ASSUME Inv, NEW o \in Ops, NEW step, At(o, step), step # "stop_node", NEW res \in Results, Returns(o, res), Marks(o),
           RecordTypes', ProcessTypes', ListTypes', faults' \in Nat, records \subseteq records', UNCHANGED <<ranThen, retries>>,
           running' \ restarted' \subseteq running \ restarted
    PROVE  Inv'
<1>1. Goes(o, Outcome(res))
  BY DEF Returns, Goes, Outcome
<1>2. gor[o].at \in Working /\ ~(ops[o].kind = "in" /\ ops[o].done = 1)
  BY AtStep DEF Working
<1>3. StepsTo(o, Outcome(res))
  BY <1>2, OutcomeType DEF StepsTo, Working
<1> QED
  BY <1>1, <1>2, <1>3, PlainStepInv

\* A scale-out that is in the middle of its restarts ends the step, or goes on with it.
LEMMA RestartsInv ==
    ASSUME Inv, NEW o \in Ops, gor[o].at \in {"fix", "roll", "rejoin"}, UNCHANGED ops,
           NEW g \in Goroutine, g.at \in {"out", "fix", "roll", "rejoin"}, Goes(o, g),
           RecordTypes', ProcessTypes', ListTypes', faults' \in Nat, UNCHANGED <<records, ranThen, retries>>,
           running' \ restarted' \subseteq running \ restarted
    PROVE  Inv'
<1>1. ops[o].kind # "in"
  BY DEF Inv, Stopped, StoppedOnce
<1>2. gor[o].at \in Working /\ StepsTo(o, g)
  BY <1>1 DEF StepsTo, Working
<1> QED
  BY <1>2, PlainStepInv

-----------------------------------------------------------------------------
(* The steps.                                                              *)

LEMMA ValidateInv == ASSUME Inv, NEW o \in Ops, stepValidatePlan(o) PROVE Inv'
<1>1. At(o, "validate_plan") /\ UNCHANGED <<records, agents, hosts, lists, restarted, retries>>
  BY DEF stepValidatePlan
<1>2. ProcessTypes' /\ ListTypes' /\ retries' = retries /\ running' \ restarted' \subseteq running \ restarted
  BY <1>1, HostsTypes, ListsTypes DEF Inv
<1>3. CASE \E res \in Results : Returns(o, res) /\ Marks(o) /\ UNCHANGED <<status, ranThen, faults>>
  <2>1. RecordTypes' /\ faults' \in Nat
    BY <1>1, <1>3 DEF Inv, RecordTypes, OpsTypes
  <2> QED
    BY <1>1, <1>2, <1>3, <2>1, ReturnInv
<1>4. ASSUME NEW missed \in Misread(records), Missing(missed), Returns(o, "succeeded"), status' = Refreshed(missed),
             ops' = [ops EXCEPT ![o].cur = "running", ![o].baseline = runningIn(Refreshed(missed))],
             ranThen' = [ranThen EXCEPT ![o] = (records \cap running \cap agents) \ missed]
      PROVE  Inv'
  <2> DEFINE Refr == Refreshed(missed)
             ran  == (records \cap running \cap agents) \ missed
  <2>1. RecordTypes' /\ faults' \in Nat
    BY <1>1, <1>4, RefreshedType, MissingCounts DEF Inv, RecordTypes
  <2>2. ran \subseteq runningIn(Refr) /\ runningIn(Refr) \subseteq Nodes
    BY DEF runningIn, Refreshed, Checked, Inv, RecordTypes
  <2> HIDE DEF Refr, ran
  <2>0. /\ ops' = [ops EXCEPT ![o].cur = "running", ![o].baseline = runningIn(Refr)]
        /\ ranThen' = [ranThen EXCEPT ![o] = ran]
    BY <1>4 DEF Refr, ran
  <2>3. /\ ops' \in [Ops -> Op] /\ \A p \in Ops : SamePlan(p) /\ ops'[p].ref = ops[p].ref
        /\ ops'[o].baseline = runningIn(Refr) /\ \A p \in Ops : p # o => ops'[p].baseline = ops[p].baseline
    <3>1. ops \in [Ops -> Op] /\ runningIn(Refr) \in SUBSET Nodes
      BY <2>2 DEF Inv, OpsTypes
    <3> HIDE DEF runningIn
    <3>2. \A p \in Ops : p # o => ops'[p] = ops[p]
      BY <2>0, <3>1
    <3>3. ops'[o] = [ops[o] EXCEPT !.cur = "running", !.baseline = runningIn(Refr)] /\ DOMAIN ops' = Ops /\ ops' = [p \in Ops |-> ops'[p]]
      BY <2>0, <3>1
    <3>4. ops'[o] \in Op /\ SamePlan(o) /\ ops'[o].ref = ops[o].ref /\ ops'[o].baseline = runningIn(Refr)
      <4>1. PICK b \in SUBSET Nodes : b = runningIn(Refr) /\ ops'[o] = [ops[o] EXCEPT !.cur = "running", !.baseline = b]
        BY <3>1, <3>3
      <4>2. ops[o] \in Op
        BY <3>1
      <4>3. [ops[o] EXCEPT !.cur = "running", !.baseline = b] \in Op
        BY <4>2 DEF Op
      <4>4. SamePlan(o) /\ ops'[o].ref = ops[o].ref /\ ops'[o].baseline = b
        BY <4>1, <4>2 DEF Op, SamePlan
      <4> QED
        BY <4>1, <4>3, <4>4
    <3>5. \A p \in Ops : ops'[p] \in Op
      BY <3>1, <3>2, <3>4
    <3> QED
      BY <3>2, <3>3, <3>4, <3>5 DEF SamePlan
  <2>4. gor[o].at = "run" /\ ops[o].status = "running" /\ ~(ops[o].kind = "in" /\ ops[o].done = 1)
    BY <1>1, AtStep
  <2>5. gor' \in [Ops -> Goroutine] /\ gor'[o] = Outcome("succeeded") /\ \A p \in Ops : p # o => gor'[p] = gor[p]
    BY <1>4, OutcomeType DEF Inv, OpsTypes, Returns, Outcome, Results, Done
  <2>6. StepsTo(o, gor'[o]) /\ gor[o].at \in Working
    BY <2>4, <2>5, OutcomeType DEF StepsTo, Working, Results, Done
  <2>7. ranThen' \in [Ops -> SUBSET Nodes] /\ ranThen'[o] = ran
        /\ \A p \in Ops : p # o => ranThen'[p] = ranThen[p]
    <3>1. ran \in SUBSET Nodes
      BY <2>2
    <3> QED
      BY <2>0, <3>1 DEF Inv, OpsTypes
  <2>8. OpsTypes'
    BY <1>2, <2>1, <2>3, <2>5, <2>7 DEF Inv, OpsTypes
  <2>9. Referred' /\ Remembered'
    BY <1>1, <2>2, <2>3, <2>4, <2>7 DEF Inv, Referred, Remembered, SamePlan
  <2> QED
    BY <1>2, <2>1, <2>3, <2>5, <2>6, <2>8, <2>9, StepInv
<1>5. (\E res \in Results : Returns(o, res) /\ Marks(o) /\ UNCHANGED <<status, ranThen, faults>>)
      \/ \E missed \in Misread(records) :
            /\ Missing(missed) /\ Returns(o, "succeeded") /\ status' = Refreshed(missed)
            /\ ops' = [ops EXCEPT ![o].cur = "running", ![o].baseline = runningIn(Refreshed(missed))]
            /\ ranThen' = [ranThen EXCEPT ![o] = (records \cap running \cap agents) \ missed]
  BY DEF stepValidatePlan, Results, Done
<1> QED
  BY <1>3, <1>4, <1>5

LEMMA FixLoopbackInv == ASSUME Inv, NEW o \in Ops, stepFixLoopback(o) PROVE Inv'
<1>1. At(o, "fix_loopback") /\ Marks(o) /\ UNCHANGED <<records, status, agents, hosts, restarted, ranThen, retries>>
  BY DEF stepFixLoopback
<1>2. RecordTypes' /\ ProcessTypes' /\ running' \ restarted' \subseteq running \ restarted
  BY <1>1, HostsTypes DEF Inv, RecordTypes
<1>3. ops[o] \in Op /\ ops[o].after \subseteq Nodes /\ ops[o].loop \subseteq Nodes
  BY DEF Inv, OpsTypes, Op
<1>4. ListTypes' /\ faults' \in Nat
  <2>1. CASE UNCHANGED <<lists, faults>>
    BY <2>1, ListsTypes DEF Inv, OpsTypes
  <2>2. CASE \E lost \in {{}} \cup (IF faults < MaxFaults THEN {{n} : n \in records} ELSE {}) :
                faults' = faults + Cardinality(lost) /\ Pushes(records, ops[o].after, lost)
    BY <1>3, <2>2, PushesTypes, LostCounts DEF Inv
  <2> QED
    BY <2>1, <2>2 DEF stepFixLoopback
<1>5. CASE Returns(o, "failed")
  BY <1>1, <1>2, <1>4, <1>5, ReturnInv DEF Results
<1>6. CASE Goes(o, [Idle EXCEPT !.at = "fix", !.todo = ops[o].loop])
  <2>1. gor[o].at \in Working /\ ops[o].kind # "in"
    BY <1>1, AtStep DEF OutSteps, Working
  <2>2. StepsTo(o, [Idle EXCEPT !.at = "fix", !.todo = ops[o].loop])
    BY <1>3, <2>1 DEF StepsTo, Idle, Goroutine, Places, Working, Done
  <2> QED
    BY <1>1, <1>2, <1>4, <1>6, <2>1, <2>2, PlainStepInv
<1> QED
  BY <1>5, <1>6 DEF stepFixLoopback

LEMMA FixNextInv == ASSUME Inv, NEW o \in Ops, FixNext(o) PROVE Inv'
<1>1. gor[o].at = "fix" /\ UNCHANGED <<records, agents, lists, ops, ranThen, retries>>
  BY DEF FixNext
<1>2. ListTypes' /\ gor[o] \in Goroutine
  BY <1>1, ListsTypes DEF Inv, OpsTypes
<1> DEFINE n    == CHOOSE m \in gor[o].todo : TRUE
           Rest == [gor[o] EXCEPT !.todo = @ \ {n}, !.expected = {n}]
<1>3. gor[o].todo # {} => n \in Nodes /\ Rest \in Goroutine /\ Rest.at = "fix"
  <2> SUFFICES ASSUME gor[o].todo # {} PROVE n \in Nodes /\ Rest \in Goroutine /\ Rest.at = "fix"
    OBVIOUS
  <2>1. n \in gor[o].todo /\ gor[o].todo \subseteq Nodes
    BY <1>2 DEF Goroutine
  <2> QED
    BY <1>1, <1>2, <2>1 DEF Goroutine
<1>4. \/ UNCHANGED <<status, hosts, restarted, faults>>
      \/ gor[o].todo # {} /\ RestartNode(n) /\ UNCHANGED faults
      \/ gor[o].todo # {} /\ RestartFails(n)
  BY DEF FixNext
<1>5. RecordTypes' /\ ProcessTypes' /\ running' \ restarted' \subseteq running \ restarted
  <2>1. CASE UNCHANGED <<status, hosts, restarted, faults>>
    BY <1>1, <2>1, HostsTypes DEF Inv, RecordTypes
  <2>2. CASE gor[o].todo # {} /\ (RestartNode(n) \/ RestartFails(n))
    BY <1>1, <1>3, <2>2, RestartTypes DEF Inv
  <2> QED
    BY <1>4, <2>1, <2>2
<1>6. faults' \in Nat
  BY <1>4, FaultCounts DEF Inv, RestartFails
<1>7. \E g \in Goroutine : Goes(o, g) /\ g.at \in {"out", "fix"}
  <2>1. CASE gor[o].todo # {} /\ Goes(o, Rest)
    BY <1>3, <2>1
  <2>2. CASE \E res \in Results : Returns(o, res)
    <3>1. PICK res \in Results : Goes(o, Outcome(res))
      BY <2>2 DEF Returns, Goes, Outcome
    <3> QED
      BY <3>1, OutcomeType
  <2> QED
    BY <2>1, <2>2 DEF FixNext, Results, Done
<1> QED
  BY <1>1, <1>2, <1>5, <1>6, <1>7, RestartsInv

LEMMA InstallFilesInv == ASSUME Inv, NEW o \in Ops, stepInstallFiles(o) PROVE Inv'
<1> DEFINE n == ops[o].node
<1>1. At(o, "install_files") /\ Marks(o) /\ UNCHANGED <<status, agents, hosts, restarted, ranThen, retries>>
  BY DEF stepInstallFiles
<1>2. n \in Nodes
  BY DEF Inv, OpsTypes, Op
<1>3. records' \in {records, records \cup {n}}
  BY DEF stepInstallFiles
<1>4. RecordTypes' /\ records \subseteq records'
  BY <1>1, <1>2, <1>3 DEF Inv, RecordTypes
<1>5. ProcessTypes' /\ running' \ restarted' \subseteq running \ restarted
  BY <1>1, HostsTypes DEF Inv
<1>6. ListTypes'
  <2>1. records \cup {n} \in SUBSET Nodes
    BY <1>2 DEF Inv, RecordTypes
  <2>2. Pushes({n}, records \cup {n}, {}) \/ UNCHANGED lists
    BY DEF stepInstallFiles
  <2> QED
    BY <2>1, <2>2, PushesTypes, ListsTypes DEF Inv
<1>7. faults' \in Nat
  <2>1. Fault \/ UNCHANGED faults
    BY DEF stepInstallFiles
  <2> QED
    BY <2>1, FaultCounts DEF Inv
<1>8. \E res \in Results : Returns(o, res)
  BY DEF stepInstallFiles, Results, Done
<1> QED
  BY <1>1, <1>4, <1>5, <1>6, <1>7, <1>8, ReturnInv

LEMMA RegisterNodeInv == ASSUME Inv, NEW o \in Ops, stepRegisterNode(o) PROVE Inv'
<1> DEFINE n == ops[o].node
<1>1. At(o, "register_node") /\ UNCHANGED <<agents, hosts, lists, restarted, ranThen, retries>>
  BY DEF stepRegisterNode
<1>2. ProcessTypes' /\ ListTypes' /\ retries' \in Nat /\ running' \ restarted' \subseteq running \ restarted
  BY <1>1, HostsTypes, ListsTypes DEF Inv, OpsTypes
<1>3. ops \in [Ops -> Op] /\ n \in Nodes
  BY DEF Inv, OpsTypes, Op
<1>a. CASE Marks(o) /\ Returns(o, "failed") /\ UNCHANGED <<records, status, faults>>
  <2>1. RecordTypes' /\ faults' \in Nat /\ "failed" \in Results
    BY <1>1, <1>a DEF Inv, RecordTypes, OpsTypes, Results
  <2> QED
    BY <1>1, <1>2, <1>a, <2>1, ReturnInv
<1>b. \/ Marks(o) /\ Returns(o, "failed") /\ UNCHANGED <<records, status, faults>>
      \/ /\ Returns(o, "succeeded") /\ records' = records \cup {n}
         /\ ops' = [ops EXCEPT ![o].cur = "running", ![o].ref = "live"]
         /\ \E missed \in Misread({n}) : Missing(missed)
         /\ status' = status \/ \E missed : status' = [status EXCEPT ![n] = Checked(n, missed)]
  BY DEF stepRegisterNode
<1> SUFFICES ASSUME Returns(o, "succeeded"), records' = records \cup {n},
                    ops' = [ops EXCEPT ![o].cur = "running", ![o].ref = "live"],
                    \E missed \in Misread({n}) : Missing(missed),
                    status' = status \/ \E missed : status' = [status EXCEPT ![n] = Checked(n, missed)]
             PROVE  Inv'
  BY <1>a, <1>b
<1>4. RecordTypes' /\ faults' \in Nat
  <2>1. \A missed : Checked(n, missed) \in {"running", "stopped", "error"}
    BY <1>3 DEF Checked, Inv, RecordTypes
  <2> QED
    BY <1>1, <1>3, <2>1, MissingCounts DEF Inv, RecordTypes
<1>5. ops[o].kind # "in" /\ gor[o].at = "run"
  BY <1>1, AtStep DEF OutSteps
<1>6. /\ ops' \in [Ops -> Op] /\ \A p \in Ops : SamePlan(p) /\ ops'[p].baseline = ops[p].baseline
      /\ \A p \in Ops : p # o => ops'[p].ref = ops[p].ref
  <2>1. \A p \in Ops : p # o => ops'[p] = ops[p]
    BY <1>1, <1>3
  <2>2. ops'[o] = [ops[o] EXCEPT !.cur = "running", !.ref = "live"] /\ ops' = [p \in Ops |-> ops'[p]]
    BY <1>1, <1>3
  <2>3. ops'[o] \in Op /\ SamePlan(o) /\ ops'[o].baseline = ops[o].baseline
    <3>1. ops[o] \in Op
      BY <1>3
    <3>2. /\ ops'[o] \in Op /\ ops'[o].baseline = ops[o].baseline
          /\ ops'[o].kind = ops[o].kind /\ ops'[o].node = ops[o].node /\ ops'[o].mode = ops[o].mode
      BY <2>2, <3>1 DEF Op
    <3>3. /\ ops'[o].loop = ops[o].loop /\ ops'[o].roll = ops[o].roll
          /\ ops'[o].status = ops[o].status /\ ops'[o].done = ops[o].done
      BY <2>2, <3>1 DEF Op
    <3> QED
      BY <1>5, <3>2, <3>3 DEF SamePlan
  <2>4. \A p \in Ops : ops'[p] \in Op
    BY <1>3, <2>1, <2>3
  <2> QED
    BY <2>1, <2>2, <2>3, <2>4 DEF SamePlan
<1>7. gor' \in [Ops -> Goroutine] /\ gor'[o] = Outcome("succeeded") /\ \A p \in Ops : p # o => gor'[p] = gor[p]
  BY <1>1, OutcomeType DEF Inv, OpsTypes, Returns, Outcome, Results, Done
<1>8. StepsTo(o, gor'[o]) /\ gor[o].at \in Working
  BY <1>5, <1>7, OutcomeType DEF StepsTo, Working, Results, Done
<1>9. OpsTypes'
  BY <1>1, <1>2, <1>4, <1>6, <1>7 DEF Inv, OpsTypes
<1>10. Referred' /\ Remembered'
  BY <1>1, <1>6 DEF Inv, Referred, Remembered, SamePlan
<1> QED
  BY <1>2, <1>4, <1>6, <1>7, <1>8, <1>9, <1>10, StepInv

LEMMA ApplyConfigsInv == ASSUME Inv, NEW o \in Ops, stepApplyConfigs(o) PROVE Inv'
<1> DEFINE n == ops[o].node
<1>1. At(o, "apply_configs") /\ Marks(o) /\ UNCHANGED <<records, status, agents, hosts, restarted, ranThen, retries>>
  BY DEF stepApplyConfigs
<1>2. RecordTypes' /\ ProcessTypes' /\ running' \ restarted' \subseteq running \ restarted
  BY <1>1, HostsTypes DEF Inv, RecordTypes
<1>3. n \in Nodes /\ records \in SUBSET Nodes
  BY DEF Inv, OpsTypes, Op, RecordTypes
<1>4. ListTypes'
  <2>1. Pushes({n}, records, {}) \/ (want' = [want EXCEPT ![n] = file[n]] /\ UNCHANGED file) \/ UNCHANGED lists
    BY DEF stepApplyConfigs
  <2>2. CASE want' = [want EXCEPT ![n] = file[n]] /\ UNCHANGED file
    BY <1>3, <2>2 DEF Inv, ListTypes
  <2> QED
    BY <1>3, <2>1, <2>2, PushesTypes, ListsTypes DEF Inv
<1>5. faults' \in Nat
  <2>1. Fault \/ UNCHANGED faults
    BY DEF stepApplyConfigs
  <2> QED
    BY <2>1, FaultCounts DEF Inv
<1>6. \E res \in Results : Returns(o, res)
  BY DEF stepApplyConfigs, Results, Done
<1> QED
  BY <1>1, <1>2, <1>4, <1>5, <1>6, ReturnInv

LEMMA ReplayPluginsInv == ASSUME Inv, NEW o \in Ops, stepReplayPlugins(o) PROVE Inv'
<1>1. At(o, "replay_plugins") /\ Marks(o) /\ UNCHANGED <<world, restarted, ranThen, counts>>
  BY DEF stepReplayPlugins
<1>2. RecordTypes' /\ ProcessTypes' /\ ListTypes' /\ faults' \in Nat /\ running' \ restarted' \subseteq running \ restarted
  BY <1>1, HostsTypes, ListsTypes DEF Inv, RecordTypes, OpsTypes, world, hosts, lists, counts
<1>3. \E res \in Results : Returns(o, res)
  BY DEF stepReplayPlugins, Results, Done
<1> QED
  BY <1>1, <1>2, <1>3, ReturnInv DEF world, counts

LEMMA StartNodeStepInv == ASSUME Inv, NEW o \in Ops, stepStartNode(o) PROVE Inv'
<1> DEFINE n == ops[o].node
<1>1. At(o, "start_node") /\ Marks(o) /\ UNCHANGED <<records, agents, lists, ranThen, retries>>
  BY DEF stepStartNode
<1>2. n \in Nodes /\ ListTypes'
  BY <1>1, ListsTypes DEF Inv, OpsTypes, Op
<1>3. UNCHANGED <<hosts, restarted>> \/ Starts(n)
  BY DEF stepStartNode
<1>4. ProcessTypes' /\ running' \ restarted' \subseteq running \ restarted
  BY <1>2, <1>3, HostsTypes, StartsTypes DEF Inv
<1>5. status' = [status EXCEPT ![n] = "running"] \/ status' = [status EXCEPT ![n] = "error"] \/ status' = status
  BY DEF stepStartNode
<1>6. RecordTypes'
  BY <1>1, <1>2, <1>5 DEF Inv, RecordTypes
<1>7. faults' \in Nat
  <2>1. Fault \/ UNCHANGED faults
    BY DEF stepStartNode
  <2> QED
    BY <2>1, FaultCounts DEF Inv
<1>8. \E res \in Results : Returns(o, res)
  BY DEF stepStartNode, Results, Done
<1> QED
  BY <1>1, <1>2, <1>4, <1>6, <1>7, <1>8, ReturnInv

LEMMA PatchMembersInv == ASSUME Inv, NEW o \in Ops, stepPatchMembers(o) PROVE Inv'
<1> DEFINE members == IF ops[o].kind = "in" /\ ops[o].ref = "live" THEN records \ {ops[o].node} ELSE records
<1>1. At(o, "patch_members") /\ Marks(o) /\ UNCHANGED <<records, status, agents, hosts, restarted, ranThen, retries>>
  BY DEF stepPatchMembers
<1>2. RecordTypes' /\ ProcessTypes' /\ running' \ restarted' \subseteq running \ restarted
  BY <1>1, HostsTypes DEF Inv, RecordTypes
<1>3. members \in SUBSET Nodes
  BY DEF Inv, RecordTypes
<1>4. ListTypes' /\ faults' \in Nat
  <2>1. CASE UNCHANGED <<lists, faults>>
    BY <2>1, ListsTypes DEF Inv, OpsTypes
  <2>2. CASE \E lost \in {{}} \cup (IF faults < MaxFaults THEN {{n} : n \in records \cap agents} ELSE {}) :
                faults' = faults + Cardinality(lost) /\ Pushes(records, members, lost)
    BY <1>3, <2>2, PushesTypes, LostCounts DEF Inv
  <2> QED
    BY <2>1, <2>2 DEF stepPatchMembers
<1>5. \E res \in Results : Returns(o, res)
  BY DEF stepPatchMembers, Results, Done
<1> QED
  BY <1>1, <1>2, <1>4, <1>5, ReturnInv

\* The steps that only look, with the status of every node refreshed or not.
LEMMA LookInv ==
    ASSUME Inv, NEW o \in Ops, NEW step, At(o, step), step # "stop_node", Marks(o),
           status' = status \/ \E missed : status' = Refreshed(missed), faults' \in Nat,
           NEW res \in Results, Returns(o, res), UNCHANGED <<records, agents, hosts, lists, restarted, ranThen, retries>>
    PROVE  Inv'
<1>1. RecordTypes' /\ ProcessTypes' /\ ListTypes' /\ running' \ restarted' \subseteq running \ restarted
  BY HostsTypes, ListsTypes, RefreshedType DEF Inv, RecordTypes
<1> QED
  BY <1>1, ReturnInv

LEMMA VerifyMembershipInv == ASSUME Inv, NEW o \in Ops, stepVerifyMembership(o) PROVE Inv'
<1>1. /\ At(o, "verify_membership") /\ Marks(o) /\ UNCHANGED <<records, agents, hosts, lists, restarted, ranThen, retries>>
      /\ \/ status' = status /\ UNCHANGED faults
         \/ \E missed \in Misread(records) : Missing(missed) /\ status' = Refreshed(missed)
  BY DEF stepVerifyMembership
<1>2. \E res \in Results : Returns(o, res)
  BY DEF stepVerifyMembership, Results, Done
<1>3. faults' \in Nat
  BY <1>1, MissingCounts DEF Inv, OpsTypes
<1> QED
  BY <1>1, <1>2, <1>3, LookInv

LEMMA RefreshMonitorInv == ASSUME Inv, NEW o \in Ops, stepRefreshMonitor(o) PROVE Inv'
<1>1. /\ At(o, "refresh_monitor") /\ Marks(o) /\ status' = status
      /\ UNCHANGED <<records, agents, hosts, lists, restarted, ranThen, retries, faults>>
  BY DEF stepRefreshMonitor, world, hosts, lists, counts
<1>2. \E res \in Results : Returns(o, res)
  BY DEF stepRefreshMonitor, Results, Done
<1>3. faults' \in Nat
  BY <1>1 DEF Inv, OpsTypes
<1> QED
  BY <1>1, <1>2, <1>3, LookInv

LEMMA VerifyScaleInInv == ASSUME Inv, NEW o \in Ops, stepVerifyScaleIn(o) PROVE Inv'
<1>1. /\ At(o, "verify") /\ Marks(o) /\ UNCHANGED <<records, agents, hosts, lists, restarted, ranThen, retries>>
      /\ \E missed \in Misread(records) : Missing(missed) /\ status' = Refreshed(missed)
  BY DEF stepVerifyScaleIn
<1>2. \E res \in Results : Returns(o, res)
  BY DEF stepVerifyScaleIn, Results, Done
<1>3. faults' \in Nat
  BY <1>1, MissingCounts DEF Inv
<1> QED
  BY <1>1, <1>2, <1>3, LookInv

LEMMA RollingRestartInv == ASSUME Inv, NEW o \in Ops, stepRollingRestart(o) PROVE Inv'
<1>1. PICK missed \in Misread(records) :
        /\ Missing(missed) /\ status' = Refreshed(missed)
        /\ Goes(o, [at |-> "roll", res |-> "succeeded", todo |-> ops[o].roll, expected |-> runningIn(Refreshed(missed))])
  BY DEF stepRollingRestart
<1>2. At(o, "rolling_restart") /\ Marks(o) /\ UNCHANGED <<records, agents, hosts, lists, restarted, ranThen, retries>>
  BY DEF stepRollingRestart
<1> DEFINE g == [at |-> "roll", res |-> "succeeded", todo |-> ops[o].roll, expected |-> runningIn(Refreshed(missed))]
<1>3. /\ RecordTypes' /\ ProcessTypes' /\ ListTypes' /\ faults' \in Nat
      /\ running' \ restarted' \subseteq running \ restarted
  BY <1>1, <1>2, HostsTypes, ListsTypes, RefreshedType, MissingCounts DEF Inv, RecordTypes
<1>4. ops[o].kind # "in" /\ gor[o].at \in Working
  BY <1>2, AtStep DEF OutSteps, Working
<1>5. ops[o].roll \subseteq Nodes /\ runningIn(Refreshed(missed)) \subseteq Nodes
  BY DEF Inv, OpsTypes, Op, RecordTypes, runningIn
<1>6. StepsTo(o, g)
  BY <1>4, <1>5 DEF StepsTo, Goroutine, Places, Working, Done
<1> QED
  BY <1>1, <1>2, <1>3, <1>4, <1>6, PlainStepInv

LEMMA RollNextInv == ASSUME Inv, NEW o \in Ops, RollNext(o) PROVE Inv'
<1> DEFINE n       == CHOOSE m \in gor[o].todo : TRUE
           Rest(r) == [gor[o] EXCEPT !.todo = @ \ {n}, !.res = r]
<1>1. gor[o].at = "roll" /\ gor[o].todo # {} /\ UNCHANGED <<records, agents, lists, ops, ranThen, retries>>
  BY DEF RollNext
<1>2. ListTypes' /\ gor[o] \in Goroutine
  BY <1>1, ListsTypes DEF Inv, OpsTypes
<1>3. n \in Nodes
  BY <1>1, <1>2 DEF Goroutine
<1>4. UNCHANGED <<status, hosts, restarted, faults>> \/ (RestartNode(n) /\ UNCHANGED faults) \/ RestartFails(n)
  BY DEF RollNext
<1>5. RecordTypes' /\ ProcessTypes' /\ running' \ restarted' \subseteq running \ restarted
  <2>1. CASE UNCHANGED <<status, hosts, restarted, faults>>
    BY <1>1, <2>1, HostsTypes DEF Inv, RecordTypes
  <2>2. CASE RestartNode(n) \/ RestartFails(n)
    BY <1>1, <1>3, <2>2, RestartTypes DEF Inv
  <2> QED
    BY <1>4, <2>1, <2>2
<1>6. faults' \in Nat
  BY <1>4, FaultCounts DEF Inv, RestartFails
<1>7. \E g \in Goroutine : Goes(o, g) /\ g.at \in {"out", "roll", "rejoin"}
  <2>1. Rest("partial") \in Goroutine /\ Rest("partial").at = "roll"
    BY <1>1, <1>2 DEF Goroutine, Done
  <2>2. LET g == [Rest(gor[o].res) EXCEPT !.at = "rejoin", !.todo = gor[o].todo] IN g \in Goroutine /\ g.at = "rejoin"
    BY <1>1, <1>2 DEF Goroutine, Places
  <2>3. CASE Returns(o, "failed")
    <3>1. Goes(o, Outcome("failed"))
      BY <2>3 DEF Returns, Goes, Outcome
    <3> QED
      BY <3>1, OutcomeType DEF Results
  <2> QED
    BY <2>1, <2>2, <2>3 DEF RollNext
<1> QED
  BY <1>1, <1>2, <1>5, <1>6, <1>7, RestartsInv

LEMMA RollOnInv == ASSUME Inv, NEW o \in Ops, RollRejoined(o) \/ RollEnds(o) PROVE Inv'
<1> DEFINE n == CHOOSE m \in gor[o].todo : TRUE
           g == [gor[o] EXCEPT !.at = "roll", !.todo = @ \ {n}]
<1>1. gor[o].at \in {"roll", "rejoin"} /\ UNCHANGED <<world, ops, restarted, ranThen, counts>>
  BY DEF RollRejoined, RollEnds
<1>2. RecordTypes' /\ ProcessTypes' /\ ListTypes' /\ faults' \in Nat /\ running' \ restarted' \subseteq running \ restarted
  BY <1>1, HostsTypes, ListsTypes DEF Inv, RecordTypes, OpsTypes, world, hosts, lists, counts
<1>3. gor[o] \in Goroutine
  BY DEF Inv, OpsTypes
<1>4. g \in Goroutine /\ g.at = "roll"
  BY <1>3 DEF Goroutine, Places
<1>5. Goes(o, g) \/ Returns(o, "failed") \/ Returns(o, gor[o].res)
  BY DEF RollRejoined, RollEnds
<1>6. \A r \in Done \cup {"none", "failed"} : Outcome(r) \in Goroutine /\ Outcome(r).at = "out"
  BY DEF Outcome, Idle, Goroutine, Places
<1>7. \E h \in Goroutine : Goes(o, h) /\ h.at \in {"out", "roll"}
  <2>1. CASE Goes(o, g)
    BY <1>4, <2>1
  <2>2. CASE Returns(o, "failed") \/ Returns(o, gor[o].res)
    <3>1. gor[o].res \in Done \cup {"none", "failed"}
      BY <1>3 DEF Goroutine
    <3>2. PICK r \in Done \cup {"none", "failed"} : Goes(o, Outcome(r))
      BY <2>2, <3>1 DEF Returns, Goes, Outcome
    <3> QED
      BY <1>6, <3>2
  <2> QED
    BY <1>5, <2>1, <2>2
<1> QED
  BY <1>1, <1>2, <1>7, RestartsInv DEF world, counts

\* A node that a step takes for stopped is not at work, or is one of those that
\* the history excuses.
LEMMA StopFinds ==
    ASSUME NEW n, FindsStopped(n), UNCHANGED running
    PROVE  n \notin running' \ restarted'
BY DEF FindsStopped, knownStopped

LEMMA StopNodeStepInv == ASSUME Inv, NEW o \in Ops, stepStopNode(o) PROVE Inv'
<1> DEFINE n == ops[o].node
<1>1. At(o, "stop_node") /\ Marks(o) /\ UNCHANGED <<records, agents, running, sees, lists, ranThen, retries>>
  BY DEF stepStopNode
<1>2. n \in Nodes /\ ListTypes' /\ ops[o].kind = "in" /\ gor[o].at \in Working
  BY <1>1, ListsTypes, AtStep DEF Inv, OpsTypes, Op, Working
<1>3. \/ UNCHANGED <<exiting, restarted>>
      \/ n \notin running /\ restarted' = restarted \ {n} /\ UNCHANGED exiting
      \/ restarted' = restarted \cup {n} /\ UNCHANGED exiting
      \/ n \in running /\ exiting' = exiting \cup {n} /\ UNCHANGED restarted
  BY DEF stepStopNode, FindsStopped, knownStopped
<1>4. ProcessTypes' /\ running' \ restarted' \subseteq running \ restarted
  BY <1>1, <1>2, <1>3 DEF Inv, ProcessTypes
<1>5. status' = status \/ status' = [status EXCEPT ![n] = "stopped"] \/ status' = [status EXCEPT ![n] = "error"]
  BY DEF stepStopNode
<1>6. RecordTypes'
  BY <1>1, <1>2, <1>5 DEF Inv, RecordTypes
<1>7. faults' \in Nat
  <2>1. Fault \/ UNCHANGED faults
    BY DEF stepStopNode, FindsStopped
  <2> QED
    BY <2>1, FaultCounts DEF Inv
<1>8. \E g : Goes(o, g) /\ StepsTo(o, g)
  <2>1. CASE Goes(o, [Idle EXCEPT !.at = "stop"])
    <3>1. StepsTo(o, [Idle EXCEPT !.at = "stop"])
      BY DEF StepsTo, Idle, Goroutine, Places, Working
    <3> QED
      BY <2>1, <3>1
  <2>2. CASE \E res \in Results : Returns(o, res) /\ (res = "failed" \/ ops[o].ref # "live" \/ n \notin running' \ restarted')
    <3>1. PICK res \in Results : Goes(o, Outcome(res)) /\ (res = "failed" \/ ops[o].ref # "live" \/ n \notin running' \ restarted')
      BY <2>2 DEF Returns, Goes, Outcome
    <3>2. StepsTo(o, Outcome(res))
      BY <1>1, <3>1, OutcomeType DEF StepsTo, Working, Done
    <3> QED
      BY <3>1, <3>2
  <2> QED
    BY <1>1, <2>1, <2>2, StopFinds DEF stepStopNode, Results, Done
<1> QED
  BY <1>1, <1>2, <1>4, <1>6, <1>7, <1>8, PlainStepInv

LEMMA WatchExitInv == ASSUME Inv, NEW o \in Ops, WatchExit(o) PROVE Inv'
<1> DEFINE n == ops[o].node
<1>1. gor[o].at = "stop" /\ UNCHANGED <<world, ops, ranThen, retries>> /\ n \in Nodes
  BY DEF WatchExit, Inv, OpsTypes, Op
<1>2. \/ n \notin running /\ restarted' = restarted \ {n}
      \/ restarted' = restarted \cup {n}
      \/ UNCHANGED restarted
  BY DEF WatchExit, FindsStopped, knownStopped
<1>3. RecordTypes' /\ ListTypes' /\ faults' \in Nat
  <2>1. Fault \/ UNCHANGED faults
    BY DEF WatchExit, FindsStopped
  <2> QED
    BY <1>1, <2>1, ListsTypes, FaultCounts DEF Inv, RecordTypes, world, lists
<1>4. ProcessTypes' /\ running' \ restarted' \subseteq running \ restarted /\ running' = running
  BY <1>1, <1>2 DEF Inv, ProcessTypes, world
<1>5. \E res \in Results : Returns(o, res) /\ (res = "failed" \/ n \notin running' \ restarted')
  BY <1>4, StopFinds DEF WatchExit, Results, Done
<1>6. PICK res \in Results : Goes(o, Outcome(res)) /\ (res = "failed" \/ n \notin running' \ restarted')
  BY <1>5 DEF Returns, Goes, Outcome
<1>7. StepsTo(o, Outcome(res))
  BY <1>4, <1>6, OutcomeType DEF StepsTo, Working, Done
<1> QED
  BY <1>1, <1>3, <1>4, <1>6, <1>7, PlainStepInv DEF Working, world

\* A record that is deleted is gone for every operation that referred to it.
LEMMA ForgetForgets ==
    ASSUME Inv, NEW n \in Nodes
    PROVE  /\ Forget(n) \in [Ops -> Op]
           /\ \A p \in Ops :
                 /\ Forget(n)[p] = [ops[p] EXCEPT !.ref = Forget(n)[p].ref]
                 /\ Forget(n)[p].ref = "live" => ops[p].ref = "live" /\ ops[p].node # n
<1>1. ops \in [Ops -> Op]
  BY DEF Inv, OpsTypes
<1> SUFFICES ASSUME NEW p \in Ops
             PROVE  /\ Forget(n)[p] \in Op /\ Forget(n)[p] = [ops[p] EXCEPT !.ref = Forget(n)[p].ref]
                    /\ Forget(n)[p].ref = "live" => ops[p].ref = "live" /\ ops[p].node # n
  BY DEF Forget
<1>2. ops[p] \in Op
  BY <1>1
<1>3. CASE ops[p].node = n /\ ops[p].ref = "live"
  <2>1. Forget(n)[p] = [ops[p] EXCEPT !.ref = "gone"]
    BY <1>3 DEF Forget
  <2> QED
    BY <1>2, <2>1 DEF Op
<1>4. CASE ~(ops[p].node = n /\ ops[p].ref = "live")
  <2>1. Forget(n)[p] = ops[p]
    BY <1>4 DEF Forget
  <2> QED
    BY <1>2, <1>4, <2>1 DEF Op
<1> QED
  BY <1>3, <1>4

LEMMA CleanupInv == ASSUME Inv, NEW o \in Ops, stepCleanupRecords(o) PROVE Inv'
<1> DEFINE n == ops[o].node
<1>1. At(o, "cleanup_records") /\ Returns(o, "succeeded") /\ UNCHANGED <<agents, hosts, file, restarted, ranThen, counts>>
  BY DEF stepCleanupRecords
<1>2. ProcessTypes' /\ faults' \in Nat /\ retries' = retries /\ retries \in Nat /\ running' \ restarted' \subseteq running \ restarted
  BY <1>1, HostsTypes DEF Inv, OpsTypes, counts
<1>3. CASE Marks(o) /\ UNCHANGED <<records, status, want>>
  <2>1. RecordTypes' /\ ListTypes'
    BY <1>1, <1>3 DEF Inv, RecordTypes, ListTypes
  <2> QED
    BY <1>1, <1>2, <1>3, <2>1, ReturnInv DEF Results, Done
<1>4. CASE /\ records' = records \ {n} /\ status' = [status EXCEPT ![n] = "stopped"] /\ want' = [want EXCEPT ![n] = file[n]]
           /\ ops' = [Forget(n) EXCEPT ![o].cur = "running"]
  <2>1. n \in Nodes
    BY DEF Inv, OpsTypes, Op
  <2>2. RecordTypes' /\ ListTypes'
    BY <1>1, <1>4, <2>1 DEF Inv, RecordTypes, ListTypes
  <2>3. /\ ops' \in [Ops -> Op]
        /\ \A p \in Ops : SamePlan(p) /\ ops'[p].baseline = ops[p].baseline
                          /\ (ops'[p].ref = "live" => ops[p].ref = "live" /\ ops[p].node # n)
    <3> DEFINE f == Forget(n)
    <3>1. f \in [Ops -> Op] /\ ops \in [Ops -> Op]
      BY <2>1, ForgetForgets DEF Inv, OpsTypes
    <3>2. \A p \in Ops : /\ f[p].kind = ops[p].kind /\ f[p].node = ops[p].node /\ f[p].mode = ops[p].mode /\ f[p].loop = ops[p].loop
                         /\ f[p].roll = ops[p].roll /\ f[p].status = ops[p].status /\ f[p].done = ops[p].done
                         /\ f[p].baseline = ops[p].baseline
                         /\ (f[p].ref = "live" => ops[p].ref = "live" /\ ops[p].node # n)
      <4> SUFFICES ASSUME NEW p \in Ops
                   PROVE /\ f[p].kind = ops[p].kind /\ f[p].node = ops[p].node /\ f[p].mode = ops[p].mode /\ f[p].loop = ops[p].loop
                         /\ f[p].roll = ops[p].roll /\ f[p].status = ops[p].status /\ f[p].done = ops[p].done
                         /\ f[p].baseline = ops[p].baseline
                         /\ (f[p].ref = "live" => ops[p].ref = "live" /\ ops[p].node # n)
        OBVIOUS
      <4>1. f[p] = [ops[p] EXCEPT !.ref = f[p].ref] /\ ops[p] \in Op
        BY <2>1, <3>1, ForgetForgets
      <4>2. f[p].ref = "live" => ops[p].ref = "live" /\ ops[p].node # n
        BY <2>1, ForgetForgets
      <4> HIDE DEF f
      <4> QED
        BY <4>1, <4>2 DEF Op
    <3>3. ops' = [f EXCEPT ![o].cur = "running"]
      BY <1>4
    <3> HIDE DEF f
    <3>4. /\ ops' \in [Ops -> Op]
          /\ \A p \in Ops : /\ ops'[p].kind = f[p].kind /\ ops'[p].node = f[p].node /\ ops'[p].mode = f[p].mode /\ ops'[p].loop = f[p].loop
                            /\ ops'[p].roll = f[p].roll /\ ops'[p].status = f[p].status /\ ops'[p].done = f[p].done
                            /\ ops'[p].baseline = f[p].baseline /\ ops'[p].ref = f[p].ref
      BY <3>1, <3>3 DEF Op
    <3> QED
      BY <3>2, <3>4 DEF SamePlan
  <2>4. gor[o].at = "run" /\ ops[o].done # 1
    BY <1>1, AtStep
  <2>5. gor' \in [Ops -> Goroutine] /\ gor'[o] = Outcome("succeeded") /\ \A p \in Ops : p # o => gor'[p] = gor[p]
    BY <1>1, OutcomeType DEF Inv, OpsTypes, Returns, Outcome, Results, Done
  <2>6. StepsTo(o, gor'[o]) /\ gor[o].at \in Working
    BY <2>4, <2>5, OutcomeType DEF StepsTo, Working, Results, Done
  <2>7. OpsTypes'
    BY <1>1, <1>2, <2>3, <2>5 DEF Inv, OpsTypes
  <2>8. Referred' /\ Remembered'
    <3>1. ASSUME NEW p \in Ops, ops'[p].ref = "live" PROVE ops'[p].node \in records'
      <4>1. ops[p].ref = "live" /\ ops'[p].node = ops[p].node /\ ops[p].node # n
        BY <2>3, <3>1 DEF SamePlan
      <4>2. ops[p].node \in records
        BY <4>1 DEF Inv, Referred
      <4> QED
        BY <1>4, <4>1, <4>2
    <3>2. \A p \in Ops : ops'[p].baseline = ops[p].baseline /\ ops'[p].status = ops[p].status
      BY <2>3 DEF SamePlan
    <3>3. Remembered'
      BY <1>1, <3>2 DEF Inv, Remembered
    <3> QED
      BY <3>1, <3>3 DEF Referred
  <2> QED
    BY <1>2, <2>2, <2>3, <2>5, <2>6, <2>7, <2>8, StepInv
<1> QED
  BY <1>3, <1>4 DEF stepCleanupRecords

LEMMA RunStepInv == ASSUME Inv, NEW o \in Ops, runStep(o) PROVE Inv'
BY ValidateInv, FixLoopbackInv, FixNextInv, InstallFilesInv, RegisterNodeInv, ApplyConfigsInv, ReplayPluginsInv,
   StartNodeStepInv, PatchMembersInv, VerifyMembershipInv, RollingRestartInv, RollNextInv, RollOnInv, StopNodeStepInv,
   WatchExitInv, CleanupInv, RefreshMonitorInv, VerifyScaleInInv DEF runStep

-----------------------------------------------------------------------------
(* Users, agents and processes.                                            *)

\* Whatever happens outside the operations leaves them as they are.
LEMMA OutsideInv ==
    ASSUME Inv, UNCHANGED <<records, ops, gor, ranThen, retries>>, RecordTypes', ProcessTypes', ListTypes', faults' \in Nat,
           running' \ restarted' \subseteq running \ restarted
    PROVE  Inv'
<1>1. OpsTypes' /\ Referred' /\ Remembered'
  BY DEF Inv, OpsTypes, Referred, Remembered
<1>2. \A p \in Ops : SamePlan(p)
  BY DEF SamePlan
<1> QED
  BY <1>1, <1>2, StepInv

LEMMA ByUserInv == ASSUME Inv, NEW n \in Nodes, StartNode(n) \/ StopNode(n) PROVE Inv'
<1>1. Fault /\ UNCHANGED <<agents, gor, ranThen, retries, records, lists, ops>>
  BY DEF StartNode, StopNode, ByUser
<1>2. ListTypes' /\ faults' \in Nat
  BY <1>1, ListsTypes, FaultCounts DEF Inv
<1>3. Starts(n) \/ (Stops(n) /\ UNCHANGED restarted)
  BY DEF StartNode, StopNode
<1>4. ProcessTypes' /\ running' \ restarted' \subseteq running \ restarted
  BY <1>3, StartsTypes, StopsTypes DEF Inv
<1>5. status' = [status EXCEPT ![n] = "running"] \/ status' = [status EXCEPT ![n] = "stopped"]
  BY DEF StartNode, StopNode
<1>6. RecordTypes'
  BY <1>1, <1>5 DEF Inv, RecordTypes
<1> QED
  BY <1>1, <1>2, <1>4, <1>6, OutsideInv

LEMMA RemoveNodeInv == ASSUME Inv, NEW n \in Nodes, RemoveNode(n) PROVE Inv'
<1>1. Fault /\ UNCHANGED <<agents, gor, ranThen, retries>>
  BY DEF RemoveNode, ByUser
<1>2. /\ records' = records \ {n} /\ status' = [status EXCEPT ![n] = "stopped"] /\ ops' = Forget(n)
      /\ UNCHANGED <<hosts, restarted>>
  BY DEF RemoveNode
<1>3. RecordTypes' /\ ProcessTypes' /\ running' \ restarted' \subseteq running \ restarted /\ faults' \in Nat
  BY <1>1, <1>2, HostsTypes, FaultCounts DEF Inv, RecordTypes
<1>4. ListTypes'
  <2>1. /\ want' = [m \in Nodes |-> IF m \in records \ {n} THEN records \ {n} ELSE file[m]]
        /\ file' = [m \in Nodes |-> IF m \in (records \ {n}) \cap agents THEN records \ {n} ELSE file[m]]
    BY DEF RemoveNode
  <2> QED
    BY <2>1 DEF Inv, ListTypes, RecordTypes
<1>5. /\ ops' \in [Ops -> Op]
      /\ \A p \in Ops : SamePlan(p) /\ ops'[p].baseline = ops[p].baseline
                        /\ (ops'[p].ref = "live" => ops[p].ref = "live" /\ ops[p].node # n)
  <2>1. ops \in [Ops -> Op]
    BY DEF Inv, OpsTypes
  <2> SUFFICES ASSUME NEW p \in Ops
               PROVE  SamePlan(p) /\ ops'[p].baseline = ops[p].baseline
                      /\ (ops'[p].ref = "live" => ops[p].ref = "live" /\ ops[p].node # n)
    BY <1>2, ForgetForgets
  <2>2. ops'[p] = [ops[p] EXCEPT !.ref = ops'[p].ref] /\ ops[p] \in Op
    BY <1>2, <2>1, ForgetForgets
  <2>3. ops'[p].ref = "live" => ops[p].ref = "live" /\ ops[p].node # n
    BY <1>2, ForgetForgets
  <2> QED
    BY <2>2, <2>3 DEF Op, SamePlan
<1>6. OpsTypes' /\ Referred' /\ Remembered'
  BY <1>1, <1>2, <1>3, <1>5 DEF Inv, OpsTypes, Referred, Remembered, SamePlan
<1> QED
  BY <1>1, <1>3, <1>4, <1>5, <1>6, StepInv

LEMMA ProcessInv == ASSUME Inv, NEW n \in Nodes, ProcessExits(n) \/ ProcessDies(n) PROVE Inv'
<1>1. Stops(n) /\ (Fault \/ UNCHANGED faults) /\ UNCHANGED <<records, status, agents, lists, ops, gor, restarted, ranThen, retries>>
  BY DEF ProcessExits, ProcessDies, counts
<1>2. RecordTypes' /\ ListTypes' /\ faults' \in Nat
  BY <1>1, ListsTypes, FaultCounts DEF Inv, RecordTypes
<1> QED
  BY <1>1, <1>2, StopsTypes, OutsideInv DEF Inv

LEMMA AgentInv == ASSUME Inv, NEW n \in Nodes, AgentGoesOffline(n) \/ AgentReconnects(n) PROVE Inv'
<1>1. /\ Fault \/ UNCHANGED faults
      /\ UNCHANGED <<records, status, hosts, want, ops, gor, restarted, ranThen, retries>>
      /\ agents' \in {agents \ {n}, agents \cup {n}}
      /\ file' = file \/ file' = [file EXCEPT ![n] = IF n \in records THEN want[n] ELSE @]
  BY DEF AgentGoesOffline, AgentReconnects, counts, lists
<1>2. RecordTypes' /\ ListTypes' /\ faults' \in Nat
  BY <1>1, FaultCounts DEF Inv, RecordTypes, ListTypes
<1> QED
  BY <1>1, <1>2, HostsTypes, OutsideInv DEF Inv

-----------------------------------------------------------------------------
(* The operations of the service.                                          *)

WorldSame == RecordTypes' /\ ProcessTypes' /\ ListTypes' /\ running' = running /\ restarted' = restarted /\ records' = records

LEMMA WorldStays == ASSUME Inv, UNCHANGED <<world, restarted>> PROVE WorldSame
BY DEF Inv, RecordTypes, ProcessTypes, ListTypes, world, WorldSame

\* An operation that is submitted or retried is the one that runs.
LEMMA ActivateInv ==
    ASSUME Inv, NEW o \in Ops, NEW op \in Op, activate(o, op), FindRunningByCluster = {}, UNCHANGED <<world, restarted, ranThen>>,
           retries' \in Nat, op.done <= Len(Steps(op)), op.ref = "live" => op.node \in records,
           op.kind = "in" /\ op.ref = "live" /\ op.done >= 2 => op.node \notin running \ restarted,
           ranThen[o] \subseteq op.baseline
    PROVE  Inv'
<1>1. WorldSame
  BY WorldStays
<1>2. PICK st \in {"running", "failed"} :
          /\ ops' = [ops EXCEPT ![o] = [op EXCEPT !.status = st]]
          /\ Fault \/ UNCHANGED faults
          /\ \/ /\ st = "running"
                /\ gor' = [gor EXCEPT ![o] = IF op.done = Len(Steps(op)) THEN [Idle EXCEPT !.at = "end", !.res = "succeeded"]
                                             ELSE [Idle EXCEPT !.at = "run"]]
             \/ st = "failed" /\ UNCHANGED gor
             \/ st = "running" /\ gor' = [gor EXCEPT ![o] = [Idle EXCEPT !.at = "lost"]]
  BY DEF activate
<1> DEFINE q == [op EXCEPT !.status = st]
<1>3. /\ q \in Op /\ q.status = st /\ q.done = op.done /\ q.ref = op.ref /\ q.node = op.node /\ q.kind = op.kind /\ q.baseline = op.baseline
      /\ q.mode = op.mode /\ q.loop = op.loop /\ q.roll = op.roll
  BY DEF Op, Statuses
<1>4. Steps(q) = Steps(op)
  BY <1>3, SameSteps
<1> HIDE DEF q
<1>5. ops \in [Ops -> Op] /\ gor \in [Ops -> Goroutine] /\ ops' = [ops EXCEPT ![o] = q]
  BY <1>2 DEF Inv, OpsTypes, q
<1>6. ops' \in [Ops -> Op] /\ ops'[o] = q /\ \A p \in Ops : p # o => ops'[p] = ops[p]
  BY <1>3, <1>5
<1>7. op.done \in Nat /\ Len(Steps(op)) \in Nat
  BY StepsLength DEF Op
<1>8. /\ gor' \in [Ops -> Goroutine] /\ \A p \in Ops : p # o => gor'[p] = gor[p]
      /\ \/ st = "running" /\ gor'[o].at = "end"
         \/ st = "running" /\ gor'[o].at = "run" /\ op.done < Len(Steps(op))
         \/ st = "running" /\ gor'[o].at = "lost"
         \/ st = "failed" /\ gor'[o] = gor[o]
  <2>1. CASE st = "failed" /\ UNCHANGED gor
    BY <1>5, <2>1
  <2>2. CASE st = "running" /\ op.done = Len(Steps(op)) /\ gor' = [gor EXCEPT ![o] = [Idle EXCEPT !.at = "end", !.res = "succeeded"]]
    BY <1>5, <2>2 DEF Idle, Goroutine, Places, Done
  <2>3. CASE st = "running" /\ op.done # Len(Steps(op)) /\ gor' = [gor EXCEPT ![o] = [Idle EXCEPT !.at = "run"]]
    <3>1. op.done < Len(Steps(op))
      BY <1>7, <2>3
    <3>2. [Idle EXCEPT !.at = "run"] \in Goroutine /\ [Idle EXCEPT !.at = "run"].at = "run"
      BY DEF Idle, Goroutine, Places
    <3> QED
      BY <1>5, <2>3, <3>1, <3>2
  <2>4. CASE st = "running" /\ gor' = [gor EXCEPT ![o] = [Idle EXCEPT !.at = "lost"]]
    BY <1>5, <2>4 DEF Idle, Goroutine, Places
  <2> QED
    BY <1>2, <2>1, <2>2, <2>3, <2>4
<1>9. \A p \in Ops : ops[p].status # "running" /\ gor[p].at \in {"none", "lost"}
  BY DEF FindRunningByCluster, Inv, Alone
<1>10. OpsTypes'
  <2>1. faults' \in Nat
    BY <1>2, FaultCounts DEF Inv
  <2> QED
    BY <1>6, <1>8, <2>1 DEF Inv, OpsTypes
<1>11. Referred' /\ Remembered'
  <2>1. st # "none"
    OBVIOUS
  <2> QED
    BY <1>1, <1>3, <1>6, <2>1 DEF Inv, Referred, Remembered, WorldSame
<1>12. Ahead'
  <2> SUFFICES ASSUME NEW p \in Ops
               PROVE  IF gor'[p].at \in Working THEN ops'[p].done < Len(Steps(ops'[p])) ELSE ops'[p].done <= Len(Steps(ops'[p]))
    BY DEF Ahead
  <2>1. CASE p = o
    BY <1>3, <1>4, <1>6, <1>8, <1>9, <2>1 DEF Working
  <2>2. CASE p # o
    BY <1>6, <1>8, <2>2 DEF Inv, Ahead
  <2> QED
    BY <2>1, <2>2
<1>13. Alone'
  BY <1>3, <1>6, <1>8, <1>9 DEF Alone
<1>14. Stopped'
  <2> SUFFICES ASSUME NEW p \in Ops PROVE StoppedOnce(p)'
    BY DEF Stopped
  <2>1. CASE p = o
    BY <1>1, <1>3, <1>6, <1>8, <1>9, <2>1 DEF StoppedOnce, WorldSame
  <2>2. CASE p # o
    BY <1>1, <1>6, <1>8, <2>2 DEF Inv, Stopped, StoppedOnce, WorldSame
  <2> QED
    BY <2>1, <2>2
<1> QED
  BY <1>1, <1>10, <1>11, <1>12, <1>13, <1>14 DEF Inv, WorldSame

LEMMA NoOpType == NoOp \in Op /\ NoOp.done = 0
<1>1. (CHOOSE n \in Nodes : TRUE) \in Nodes
  BY NodesAssumption
<1> QED
  BY <1>1 DEF NoOp, Op, Statuses

LEMMA PlansType ==
    ASSUME Inv, NEW n \in Nodes
    PROVE  /\ \A roll \in BOOLEAN : PlanScaleOut(n, roll) \in Op /\ PlanScaleOut(n, roll).done = 0
                                    /\ PlanScaleOut(n, roll).kind = "out" /\ PlanScaleOut(n, roll).ref = "none"
           /\ PlanScaleIn(n) \in Op /\ PlanScaleIn(n).done = 0 /\ PlanScaleIn(n).node = n
<1>1. records \subseteq Nodes
  BY DEF Inv, RecordTypes
<1>2. loopbackNodes \subseteq Nodes /\ planRollingRestart \subseteq Nodes
  BY <1>1 DEF loopbackNodes, planRollingRestart
<1>3. ASSUME NEW roll \in BOOLEAN
      PROVE  PlanScaleOut(n, roll) \in Op /\ PlanScaleOut(n, roll).done = 0
             /\ PlanScaleOut(n, roll).kind = "out" /\ PlanScaleOut(n, roll).ref = "none"
  <2> DEFINE rolled == IF roll THEN planRollingRestart ELSE {}
             mode   == IF n \in running THEN "register" ELSE "install"
             known  == records \cup {n}
  <2>1. rolled \in SUBSET Nodes /\ mode \in {"register", "install"} /\ loopbackNodes \in SUBSET Nodes /\ known \in SUBSET Nodes
    BY <1>1, <1>2
  <2>2. PlanScaleOut(n, roll) = [NoOp EXCEPT !.kind = "out", !.node = n, !.mode = mode, !.loop = loopbackNodes,
                                             !.after = known, !.roll = rolled]
    BY DEF PlanScaleOut
  <2> HIDE DEF rolled, mode, known
  <2>3. NoOp.ref = "none" /\ NoOp \in Op /\ NoOp.done = 0
    BY NoOpType DEF NoOp
  <2> DEFINE bare == [NoOp EXCEPT !.kind = "out", !.node = n, !.mode = mode]
  <2>4. bare \in Op /\ bare.kind = "out" /\ bare.ref = "none" /\ bare.done = 0
    BY <2>1, <2>3 DEF Op
  <2>5. PlanScaleOut(n, roll) = [bare EXCEPT !.loop = loopbackNodes, !.after = known, !.roll = rolled]
    BY <2>2
  <2> HIDE DEF bare
  <2>6. PICK b \in Op : b = bare
    BY <2>4
  <2>7. PICK p : p = [b EXCEPT !.loop = loopbackNodes, !.after = known, !.roll = rolled]
    OBVIOUS
  <2>8. p.done = b.done /\ p.kind = b.kind /\ p.ref = b.ref
    BY <2>7 DEF Op
  <2>9. p \in Op
    BY <2>1, <2>7 DEF Op
  <2>10. PlanScaleOut(n, roll) = p
    BY <2>5, <2>6, <2>7
  <2> QED
    BY <2>4, <2>6, <2>8, <2>9, <2>10
<1>4. PlanScaleIn(n) \in Op /\ PlanScaleIn(n).done = 0 /\ PlanScaleIn(n).node = n
  BY <1>1, NoOpType DEF PlanScaleIn, Op
<1> QED
  BY <1>3, <1>4

LEMMA SubmitInv == ASSUME Inv, NEW o \in Ops, SubmitScaleOut(o) \/ SubmitScaleIn(o) PROVE Inv'
<1>1. PICK op \in Op : /\ submit(o, op) /\ op.done = 0
                       /\ op.ref = "live" => op.node \in records
  <2>1. CASE SubmitScaleOut(o)
    <3>1. PICK n \in Nodes, roll \in BOOLEAN : submit(o, PlanScaleOut(n, roll))
      BY <2>1 DEF SubmitScaleOut
    <3> QED
      BY <3>1, PlansType
  <2>2. CASE SubmitScaleIn(o)
    <3>1. PICK n \in Nodes : submit(o, PlanScaleIn(n))
      BY <2>2 DEF SubmitScaleIn
    <3>2. n \in records
      BY <3>1 DEF submit, CanSubmit, PlanScaleIn, NoOp
    <3> QED
      BY <3>1, <3>2, PlansType
  <2> QED
    BY <2>1, <2>2
<1>2. /\ ops[o].status = "none" /\ FindRunningByCluster = {} /\ activate(o, op)
      /\ UNCHANGED <<world, restarted, ranThen, retries>>
  BY <1>1 DEF submit
<1>3. ranThen[o] = {}
  BY <1>2 DEF Inv, Remembered
<1>4. op.done <= Len(Steps(op))
  <2>1. Len(Steps(op)) \in 1..11
    BY StepsLength
  <2> QED
    BY <1>1, <2>1
<1>5. retries' \in Nat /\ ~(op.done >= 2)
  BY <1>1, <1>2 DEF Inv, OpsTypes
<1> QED
  BY <1>1, <1>2, <1>3, <1>4, <1>5, ActivateInv

LEMMA RetryInv == ASSUME Inv, NEW o \in Ops, RetryOperation(o) PROVE Inv'
<1> DEFINE op == [ops[o] EXCEPT !.cur = "pending"]
<1>1. /\ FindRunningByCluster = {} /\ activate(o, op) /\ UNCHANGED <<world, restarted, ranThen>> /\ retries' = retries + 1
  BY DEF RetryOperation
<1>2. ops[o] \in Op
  BY DEF Inv, OpsTypes
<1>3. /\ op \in Op /\ op.kind = ops[o].kind /\ op.node = ops[o].node /\ op.mode = ops[o].mode /\ op.loop = ops[o].loop
      /\ op.roll = ops[o].roll /\ op.done = ops[o].done /\ op.ref = ops[o].ref /\ op.baseline = ops[o].baseline
  BY <1>2 DEF Op
<1>4. Steps(op) = Steps(ops[o])
  BY <1>3, SameSteps
<1> HIDE DEF op
<1>5. op.done <= Len(Steps(op))
  <2>1. op.done \in Nat /\ Len(Steps(op)) \in Nat
    BY <1>3, StepsLength DEF Op
  <2>2. op.done < Len(Steps(op)) \/ op.done <= Len(Steps(op))
    BY <1>3, <1>4 DEF Inv, Ahead
  <2> QED
    BY <2>1, <2>2
<1>6. retries' \in Nat /\ (op.ref = "live" => op.node \in records) /\ ranThen[o] \subseteq op.baseline
      /\ (op.kind = "in" /\ op.ref = "live" /\ op.done >= 2 => op.node \notin running \ restarted)
  BY <1>1, <1>3 DEF Inv, OpsTypes, Referred, Remembered, Stopped, StoppedOnce
<1> QED
  BY <1>1, <1>3, <1>5, <1>6, ActivateInv

Lost == [Idle EXCEPT !.at = "lost"]

\* After a restart what was running is failed, or nobody is at work on it.
LEMMA RecoverDoes ==
    ASSUME Inv, RecoverInterruptedOperations, NEW o \in Ops
    PROVE  \/ ops'[o] = ops[o] /\ gor'[o] = IF ops[o].status = "running" THEN Lost ELSE Idle
           \/ /\ ops[o].status = "running" /\ gor'[o] = Idle
              /\ ops'[o] = [ops[o] EXCEPT !.status = "failed", !.cur = IF @ = "running" THEN "failed" ELSE @]
<1>1. PICK missed \in {{}, FindRunningByCluster} :
        /\ gor' = [p \in Ops |-> IF p \in missed THEN Lost ELSE Idle]
        /\ ops' = [p \in Ops |-> IF p \in missed \/ ops[p].status # "running" THEN ops[p]
                                 ELSE [ops[p] EXCEPT !.status = "failed", !.cur = IF @ = "running" THEN "failed" ELSE @]]
  BY DEF RecoverInterruptedOperations, Lost
<1>2. /\ gor'[o] = IF o \in missed THEN Lost ELSE Idle
      /\ ops'[o] = IF o \in missed \/ ops[o].status # "running" THEN ops[o]
                   ELSE [ops[o] EXCEPT !.status = "failed", !.cur = IF @ = "running" THEN "failed" ELSE @]
  BY <1>1
<1>3. o \in missed => ops[o].status = "running"
  BY <1>1 DEF FindRunningByCluster
<1>4. ops[o].status = "running" => o \in missed \/ missed = {}
  BY <1>1 DEF FindRunningByCluster
<1>5. CASE o \in missed
  BY <1>2, <1>3, <1>5
<1>6. CASE o \notin missed
  <2>1. CASE ops[o].status = "running"
    BY <1>2, <1>6, <2>1
  <2>2. CASE ops[o].status # "running"
    BY <1>2, <1>6, <2>2
  <2> QED
    BY <2>1, <2>2
<1> QED
  BY <1>5, <1>6

LEMMA RecoverRests ==
    ASSUME Inv, RecoverInterruptedOperations, NEW o \in Ops
    PROVE  gor'[o].at \in {"none", "lost"}
<1>1. Idle.at = "none" /\ Lost.at = "lost"
  BY DEF Idle, Lost
<1>2. gor'[o] = Idle \/ gor'[o] = Lost
  BY RecoverDoes
<1> QED
  BY <1>1, <1>2

LEMMA RecoverInv == ASSUME Inv, RecoverInterruptedOperations PROVE Inv'
<1>1. /\ \E k \in {1, 2} : faults' = faults + k
      /\ gor' = [o \in Ops |-> gor'[o]] /\ ops' = [o \in Ops |-> ops'[o]]
      /\ UNCHANGED <<world, restarted, ranThen, retries>>
  BY DEF RecoverInterruptedOperations
<1>2. WorldSame
  BY <1>1, WorldStays
<1>3. ASSUME NEW p \in Ops
      PROVE  /\ ops'[p] \in Op /\ ops'[p].kind = ops[p].kind /\ ops'[p].node = ops[p].node /\ ops'[p].mode = ops[p].mode
             /\ ops'[p].loop = ops[p].loop /\ ops'[p].roll = ops[p].roll /\ ops'[p].done = ops[p].done /\ ops'[p].ref = ops[p].ref
             /\ ops'[p].baseline = ops[p].baseline /\ (ops'[p].status = "running" => ops[p].status = "running")
             /\ (ops'[p].status = "none" => ops[p].status = "none")
  <2>1. ops[p] \in Op
    BY DEF Inv, OpsTypes
  <2>2. CASE ops'[p] = ops[p]
    BY <2>1, <2>2
  <2>3. CASE ops'[p] = [ops[p] EXCEPT !.status = "failed", !.cur = IF @ = "running" THEN "failed" ELSE @]
    BY <2>1, <2>3 DEF Op, Statuses
  <2> QED
    BY <2>2, <2>3, RecoverDoes
<1>4. \A p \in Ops : gor'[p] \in Goroutine /\ gor'[p].at \in {"none", "lost"}
  <2>1. Idle \in Goroutine /\ Idle.at = "none" /\ Lost \in Goroutine /\ Lost.at = "lost"
    BY DEF Idle, Lost, Goroutine, Places
  <2> QED
    BY <2>1, RecoverDoes
<1>5. OpsTypes'
  <2>1. faults' \in Nat
    BY <1>1 DEF Inv, OpsTypes
  <2>2. ops' \in [Ops -> Op]
    BY <1>1, <1>3
  <2> QED
    BY <1>1, <1>4, <2>1, <2>2 DEF Inv, OpsTypes
<1>6. Referred' /\ Remembered'
  <2>1. ranThen' = ranThen /\ records' = records
    BY <1>1, <1>2 DEF WorldSame
  <2>2. Referred'
    BY <1>3, <2>1 DEF Inv, Referred
  <2>3. Remembered'
    BY <1>3, <2>1 DEF Inv, Remembered
  <2> QED
    BY <2>2, <2>3
<1>7. Ahead'
  <2> SUFFICES ASSUME NEW p \in Ops PROVE ops'[p].done <= Len(Steps(ops'[p])) /\ gor'[p].at \notin Working
    BY DEF Ahead
  <2>1. Steps(ops'[p]) = Steps(ops[p]) /\ ops'[p].done = ops[p].done
    BY <1>3, SameSteps
  <2>2. ops[p].done \in Nat /\ Len(Steps(ops[p])) \in Nat
    BY StepsLength DEF Inv, OpsTypes, Op
  <2>3. ops[p].done < Len(Steps(ops[p])) \/ ops[p].done <= Len(Steps(ops[p]))
    BY DEF Inv, Ahead
  <2> QED
    BY <1>4, <2>1, <2>2, <2>3 DEF Working
<1>8. Alone' /\ Stopped'
  BY <1>2, <1>3, <1>4 DEF Inv, Alone, Stopped, StoppedOnce, WorldSame
<1> QED
  BY <1>2, <1>5, <1>6, <1>7, <1>8 DEF Inv, WorldSame

\* What SaveOutcome and finishOperation have in common: one operation goes on.
LEMMA GoesOnInv ==
    ASSUME Inv, NEW o \in Ops, NEW op \in Op, NEW g \in Goroutine, gor[o].at \in {"out", "end"}, g.at \in {"none", "lost", "run", "end"},
           ops' = [ops EXCEPT ![o] = op], Goes(o, g), Fault \/ UNCHANGED faults, UNCHANGED <<world, restarted, ranThen, retries>>,
           op.kind = ops[o].kind, op.node = ops[o].node, op.mode = ops[o].mode, op.loop = ops[o].loop, op.roll = ops[o].roll,
           op.ref = ops[o].ref, op.baseline = ops[o].baseline,
           op.status # "none", g.at \notin {"none", "lost"} => op.status = "running",
           op.done <= Len(Steps(op)), g.at = "run" => op.done < Len(Steps(op)),
           op.done = ops[o].done \/ (op.done = ops[o].done + 1 /\ gor[o].at = "out" /\ gor[o].res \in Done)
    PROVE  Inv'
<1>1. WorldSame
  BY WorldStays
<1>2. ops \in [Ops -> Op] /\ gor \in [Ops -> Goroutine]
  BY DEF Inv, OpsTypes
<1>3. ops' \in [Ops -> Op] /\ ops'[o] = op /\ \A p \in Ops : p # o => ops'[p] = ops[p]
  BY <1>2
<1>4. gor' \in [Ops -> Goroutine] /\ gor'[o] = g /\ \A p \in Ops : p # o => gor'[p] = gor[p]
  BY <1>2 DEF Goes
<1>5. ops[o].status = "running"
  BY DEF Inv, Alone
<1>6. OpsTypes'
  <2>1. faults' \in Nat
    BY FaultCounts DEF Inv
  <2> QED
    BY <1>3, <1>4, <2>1 DEF Inv, OpsTypes
<1>7. Referred' /\ Remembered'
  BY <1>1, <1>3 DEF Inv, Referred, Remembered, WorldSame
<1>8. Ahead'
  BY <1>3, <1>4 DEF Inv, Ahead, Working
<1>9. Alone'
  BY <1>3, <1>4, <1>5 DEF Inv, Alone
<1>10. Stopped'
  <2> SUFFICES ASSUME NEW p \in Ops PROVE StoppedOnce(p)'
    BY DEF Stopped
  <2>1. CASE p = o
    <3>1. StoppedOnce(o) /\ ops[o].done \in Nat /\ op.done \in Nat
      BY <1>2 DEF Inv, Stopped, Op
    <3>2. op.done >= 2 => ops[o].done >= 2 \/ (ops[o].done = 1 /\ gor[o].at = "out" /\ gor[o].res \in Done)
      BY <3>1
    <3> QED
      BY <1>1, <1>3, <1>4, <2>1, <3>1, <3>2 DEF StoppedOnce, WorldSame
  <2>2. CASE p # o
    BY <1>1, <1>3, <1>4, <2>2 DEF Inv, Stopped, StoppedOnce, WorldSame
  <2> QED
    BY <2>1, <2>2
<1> QED
  BY <1>1, <1>6, <1>7, <1>8, <1>9, <1>10 DEF Inv, WorldSame

LEMMA SaveOutcomeInv == ASSUME Inv, NEW o \in Ops, SaveOutcome(o) PROVE Inv'
<1> DEFINE res == gor[o].res
           op == IF res \in Done THEN [ops[o] EXCEPT !.done = @ + 1, !.cur = "pending"] ELSE [ops[o] EXCEPT !.cur = "failed"]
           last == res \notin Done \/ op.done = Len(Steps(op))
<1>1. /\ gor[o].at = "out" /\ ops' = [ops EXCEPT ![o] = op] /\ UNCHANGED <<world, restarted, ranThen, retries>>
      /\ \/ gor' = [gor EXCEPT ![o] = [Idle EXCEPT !.at = IF last THEN "end" ELSE "run", !.res = res]] /\ UNCHANGED faults
         \/ Fault /\ gor' = [gor EXCEPT ![o] = [Idle EXCEPT !.at = "end", !.res = "failed"]]
  BY DEF SaveOutcome
<1>2. ops[o] \in Op /\ ops[o].done < Len(Steps(ops[o])) /\ ops[o].status = "running" /\ gor[o] \in Goroutine
  BY <1>1 DEF Inv, OpsTypes, Ahead, Alone, Working
<1>3. ops[o].done \in 0..10 /\ Len(Steps(ops[o])) \in 1..11
  <2>1. Len(Steps(ops[o])) \in 1..11
    BY <1>2, StepsLength
  <2>2. ops[o].done \in 0..11
    BY <1>2 DEF Op
  <2>3. PICK l \in 1..11 : ops[o].done < l
    BY <1>2, <2>1, Zenon
  <2>4. ops[o].done \in 0..10
    BY <2>2, <2>3
  <2> QED
    BY <2>1, <2>4
<1>4. /\ op \in Op /\ op.kind = ops[o].kind /\ op.node = ops[o].node /\ op.mode = ops[o].mode /\ op.loop = ops[o].loop
      /\ op.roll = ops[o].roll /\ op.ref = ops[o].ref /\ op.baseline = ops[o].baseline /\ op.status = ops[o].status
      /\ (op.done = ops[o].done + 1 /\ res \in Done) \/ (op.done = ops[o].done /\ res \notin Done)
  <2>1. CASE res \in Done
    <3>1. ops[o].done + 1 \in 0..11
      BY <1>3
    <3>2. op = [ops[o] EXCEPT !.done = ops[o].done + 1, !.cur = "pending"]
      BY <2>1
    <3> HIDE DEF op
    <3> QED
      BY <1>2, <2>1, <3>1, <3>2 DEF Op
  <2>2. CASE res \notin Done
    BY <1>2, <2>2 DEF Op
  <2> QED
    BY <2>1, <2>2
<1>5. Steps(op) = Steps(ops[o])
  BY <1>4, SameSteps
<1>6. op.done <= Len(Steps(op)) /\ (~last => op.done < Len(Steps(op)))
  <2> HIDE DEF op
  <2> QED
    BY <1>2, <1>3, <1>4, <1>5
<1>7. PICK g \in Goroutine : Goes(o, g) /\ (g.at = "end" \/ (g.at = "run" /\ ~last)) /\ (Fault \/ UNCHANGED faults)
  <2>1. gor[o].res \in Done \cup {"none", "failed"}
    BY <1>2 DEF Goroutine
  <2> DEFINE h == [Idle EXCEPT !.at = IF last THEN "end" ELSE "run", !.res = res]
  <2>2. h \in Goroutine /\ h.at = IF last THEN "end" ELSE "run"
    BY <2>1 DEF Idle, Goroutine, Places
  <2>3. Outcome("failed") \in Goroutine /\ [Idle EXCEPT !.at = "end", !.res = "failed"] \in Goroutine
        /\ [Idle EXCEPT !.at = "end", !.res = "failed"].at = "end"
    BY DEF Outcome, Idle, Goroutine, Places
  <2>4. CASE gor' = [gor EXCEPT ![o] = h] /\ UNCHANGED faults
    <3>1. Goes(o, h) /\ (Fault \/ UNCHANGED faults)
      BY <2>4 DEF Goes
    <3> HIDE DEF h, last, op
    <3> QED
      BY <2>2, <3>1
  <2>5. CASE Fault /\ gor' = [gor EXCEPT ![o] = [Idle EXCEPT !.at = "end", !.res = "failed"]]
    BY <2>3, <2>5 DEF Goes
  <2> QED
    BY <1>1, <2>4, <2>5
<1> HIDE DEF op, last
<1> QED
  BY <1>1, <1>2, <1>4, <1>6, <1>7, GoesOnInv

LEMMA FinishInv == ASSUME Inv, NEW o \in Ops, finishOperation(o) PROVE Inv'
<1>1. gor[o].at = "end" /\ UNCHANGED <<world, restarted, ranThen, retries>>
  BY DEF finishOperation
<1>2. /\ ops[o] \in Op /\ ops[o].status = "running" /\ ops[o].done <= Len(Steps(ops[o])) /\ ops \in [Ops -> Op]
  BY <1>1 DEF Inv, OpsTypes, Alone, Ahead, Working
<1>3. PICK st \in Statuses \ {"none"}, g \in Goroutine :
          ops' = [ops EXCEPT ![o].status = st] /\ Goes(o, g) /\ g.at \in {"none", "lost"} /\ (Fault \/ UNCHANGED faults)
  <2>1. /\ Idle \in Goroutine /\ Idle.at = "none"
        /\ [Idle EXCEPT !.at = "lost"] \in Goroutine /\ [Idle EXCEPT !.at = "lost"].at = "lost"
    BY DEF Idle, Goroutine, Places
  <2>2. CASE /\ ops' = [ops EXCEPT ![o].status = IF gor[o].res \in Done THEN "succeeded" ELSE "failed"]
             /\ gor' = [gor EXCEPT ![o] = Idle] /\ UNCHANGED faults
    <3>1. PICK st \in {"succeeded", "failed"} : ops' = [ops EXCEPT ![o].status = st]
      BY <2>2
    <3>2. Goes(o, Idle)
      BY <2>2 DEF Goes
    <3> QED
      BY <2>1, <2>2, <3>1, <3>2 DEF Statuses
  <2>3. CASE Fault /\ gor' = [gor EXCEPT ![o] = [Idle EXCEPT !.at = "lost"]] /\ UNCHANGED ops
    <3>1. ops' = [ops EXCEPT ![o].status = "running"]
      BY <1>2, <2>3 DEF Op
    <3> QED
      BY <2>1, <2>3, <3>1 DEF Goes, Statuses
  <2> QED
    BY <2>2, <2>3 DEF finishOperation
<1> DEFINE op == [ops[o] EXCEPT !.status = st]
<1>4. /\ op \in Op /\ op.kind = ops[o].kind /\ op.node = ops[o].node /\ op.mode = ops[o].mode /\ op.loop = ops[o].loop
      /\ op.roll = ops[o].roll /\ op.ref = ops[o].ref /\ op.baseline = ops[o].baseline /\ op.status = st /\ op.done = ops[o].done
      /\ ops' = [ops EXCEPT ![o] = op]
  BY <1>2, <1>3 DEF Op
<1>5. Steps(op) = Steps(ops[o])
  BY <1>4, SameSteps
<1> HIDE DEF op
<1> QED
  BY <1>1, <1>2, <1>3, <1>4, <1>5, GoesOnInv

-----------------------------------------------------------------------------
(* The theorems.                                                           *)

LEMMA InitInv == Init => Inv
<1> SUFFICES ASSUME Init PROVE Inv
  OBVIOUS
<1>1. RecordTypes /\ ProcessTypes /\ ListTypes
  BY NodesAssumption DEF Init, RecordTypes, ProcessTypes, ListTypes
<1>2. \A o \in Ops : ops[o] = NoOp /\ gor[o] = Idle /\ ranThen[o] = {}
  BY DEF Init
<1>3. Idle \in Goroutine /\ Idle.at = "none" /\ NoOp.status = "none" /\ NoOp.ref = "none" /\ NoOp.kind = "none"
  BY DEF Idle, Goroutine, Places, NoOp
<1>4. OpsTypes
  BY <1>3, NoOpType DEF Init, OpsTypes
<1>5. Ahead
  <2>1. Len(Steps(NoOp)) \in 1..11
    BY NoOpType, StepsLength
  <2> QED
    BY <1>2, <1>3, <2>1, NoOpType DEF Ahead, Working
<1> QED
  BY <1>1, <1>2, <1>3, <1>4, <1>5 DEF Inv, Referred, Alone, Remembered, Stopped, StoppedOnce

LEMMA NextInv == Inv /\ [Next]_vars => Inv'
<1> SUFFICES ASSUME Inv, [Next]_vars PROVE Inv'
  OBVIOUS
<1>1. CASE UNCHANGED vars
  BY <1>1, WorldStays, OutsideInv DEF vars, world, counts, WorldSame, Inv, OpsTypes
<1>2. ASSUME NEW o \in Ops, SubmitScaleOut(o) \/ SubmitScaleIn(o) \/ RetryOperation(o) \/ runOperation(o) PROVE Inv'
  BY <1>2, SubmitInv, RetryInv, RunStepInv, SaveOutcomeInv, FinishInv DEF runOperation
<1>3. CASE RecoverInterruptedOperations
  BY <1>3, RecoverInv
<1>4. ASSUME NEW n \in Nodes, StartNode(n) \/ StopNode(n) \/ RemoveNode(n) PROVE Inv'
  BY <1>4, ByUserInv, RemoveNodeInv
<1>5. ASSUME NEW n \in Nodes, ProcessExits(n) \/ ProcessDies(n) \/ AgentGoesOffline(n) \/ AgentReconnects(n) PROVE Inv'
  BY <1>5, ProcessInv, AgentInv
<1> QED
  BY <1>1, <1>2, <1>3, <1>4, <1>5 DEF Next

THEOREM Invariance == Spec => []Inv
<1> QED
  BY InitInv, NextInv, PTL DEF Spec

\* Every variable keeps its type, a live reference names a node with a record,
\* and no operation is done with more steps than it has.
THEOREM TypeCorrect == Spec => []TypeOK
<1>1. Inv => TypeOK
  <2> SUFFICES ASSUME Inv PROVE TypeOK
    OBVIOUS
  <2>1. \A o \in Ops : ops[o].done <= Len(Steps(ops[o]))
    <3> SUFFICES ASSUME NEW o \in Ops PROVE ops[o].done <= Len(Steps(ops[o]))
      OBVIOUS
    <3>1. ops[o].done \in Nat /\ Len(Steps(ops[o])) \in Nat
      BY StepsLength DEF Inv, OpsTypes, Op
    <3>2. ops[o].done < Len(Steps(ops[o])) \/ ops[o].done <= Len(Steps(ops[o]))
      BY DEF Inv, Ahead
    <3> QED
      BY <3>1, <3>2
  <2> QED
    BY <2>1 DEF Inv, TypeOK, RecordTypes, ProcessTypes, ListTypes, OpsTypes, Referred, Goroutine, Places
<1> QED
  BY <1>1, Invariance, PTL

\* However operations are submitted, retried, interrupted and lost, one at a
\* time works on the cluster.
THEOREM OneWorks == Spec => []OneAtATime
<1>1. Inv => OneAtATime
  BY DEF Inv, Alone, OneAtATime
<1> QED
  BY <1>1, Invariance, PTL

\* Of every step: a goroutine that hands over an outcome after being about to
\* run this step has run it.
LEMMA OutComesOf ==
    ASSUME Inv, [Next]_vars, NEW o \in Ops, NEW step \in {"verify_membership", "cleanup_records"}, At(o, step), gor'[o].at = "out"
    PROVE  (step = "verify_membership" /\ stepVerifyMembership(o)) \/ (step = "cleanup_records" /\ stepCleanupRecords(o))
<1>1. gor[o].at = "run" /\ Steps(ops[o])[ops[o].done + 1] = step /\ gor \in [Ops -> Goroutine]
  BY DEF At, Inv, OpsTypes
<1>2. gor'[o] # gor[o]
  BY <1>1
<1>3. CASE UNCHANGED gor
  BY <1>2, <1>3
<1>4. ASSUME NEW p \in Ops, SubmitScaleOut(p) \/ SubmitScaleIn(p) \/ RetryOperation(p) PROVE FALSE
  <2>1. PICK op : activate(p, op)
    BY <1>4 DEF SubmitScaleOut, SubmitScaleIn, submit, RetryOperation
  <2> QED
    BY <1>1, <2>1 DEF activate, Idle
<1>5. CASE RecoverInterruptedOperations
  BY <1>5, RecoverRests
<1>6. ASSUME NEW p \in Ops, SaveOutcome(p) \/ finishOperation(p) PROVE FALSE
  <2>1. p # o
    BY <1>1, <1>6 DEF SaveOutcome, finishOperation
  <2>2. \E g : Goes(p, g)
    BY <1>6 DEF SaveOutcome, finishOperation, Goes
  <2> QED
    BY <1>1, <1>2, <2>1, <2>2 DEF Goes
<1>7. ASSUME NEW p \in Ops, runStep(p)
      PROVE  (step = "verify_membership" /\ stepVerifyMembership(o)) \/ (step = "cleanup_records" /\ stepCleanupRecords(o))
  <2>1. \E g : Goes(p, g)
    BY <1>7 DEF runStep, stepValidatePlan, stepFixLoopback, FixNext, stepInstallFiles, stepRegisterNode, stepApplyConfigs,
                stepReplayPlugins, stepStartNode, stepPatchMembers, stepVerifyMembership, stepRollingRestart, RollNext,
                RollRejoined, RollEnds, stepStopNode, WatchExit, stepCleanupRecords, stepRefreshMonitor, stepVerifyScaleIn,
                Returns, Goes
  <2>2. p = o
    BY <1>1, <1>2, <2>1 DEF Goes
  <2>3. \/ stepVerifyMembership(o) /\ At(o, "verify_membership")
        \/ stepCleanupRecords(o) /\ At(o, "cleanup_records")
        \/ gor[o].at # "run"
        \/ \E s \in (OutSteps \cup {"stop_node", "refresh_monitor", "verify"}) \ {"verify_membership"} : At(o, s)
    BY <1>7, <2>2 DEF runStep, OutSteps, stepVerifyMembership, stepCleanupRecords, stepValidatePlan, stepFixLoopback, FixNext, stepInstallFiles, stepRegisterNode,
                stepApplyConfigs, stepReplayPlugins, stepStartNode, stepPatchMembers, stepRollingRestart, RollNext,
                RollRejoined, RollEnds, stepStopNode, WatchExit, stepRefreshMonitor, stepVerifyScaleIn
  <2> QED
    BY <1>1, <2>3 DEF At, OutSteps
<1>8. ASSUME NEW n \in Nodes, \/ StartNode(n) \/ StopNode(n) \/ RemoveNode(n)
                              \/ ProcessExits(n) \/ ProcessDies(n) \/ AgentGoesOffline(n) \/ AgentReconnects(n)
      PROVE  FALSE
  BY <1>2, <1>8 DEF StartNode, StopNode, RemoveNode, ByUser, ProcessExits, ProcessDies, AgentGoesOffline, AgentReconnects
<1> QED
  BY <1>3, <1>4, <1>5, <1>6, <1>7, <1>8 DEF Next, runOperation, vars

\* A scale-out takes its node for joined only when it sees every node on an
\* online host that was found running when the operation was validated.
THEOREM JoinedIsJoined == Spec => JoinIsReal
<1>1. Inv /\ [Next]_vars =>
        [\A o \in Ops : At(o, "verify_membership") /\ gor'[o].at = "out" /\ gor'[o].res \in Done
           => ranThen[o] \cup {ops[o].node} \subseteq sees[ops[o].node]]_vars
  <2> SUFFICES ASSUME Inv, [Next]_vars, NEW o \in Ops, At(o, "verify_membership"), gor'[o].at = "out", gor'[o].res \in Done
               PROVE  ranThen[o] \cup {ops[o].node} \subseteq sees[ops[o].node]
    OBVIOUS
  <2>1. stepVerifyMembership(o)
    BY OutComesOf
  <2>2. gor'[o].res = "succeeded" \/ gor'[o].res = "failed"
    <3>1. PICK res \in {"succeeded", "failed"} : Returns(o, res)
      BY <2>1 DEF stepVerifyMembership
    <3> QED
      BY <3>1 DEF Returns, Idle, Inv, OpsTypes
  <2>3. ops[o].ref = "live" /\ joinBaseline(o) \cup {ops[o].node} \subseteq sees[ops[o].node]
    <3>1. ~Returns(o, "failed")
      BY DEF Returns, Idle, Inv, OpsTypes, Done
    <3> QED
      BY <2>1, <3>1 DEF stepVerifyMembership
  <2> QED
    BY <2>3 DEF joinBaseline, Inv, Remembered
<1> QED
  BY <1>1, Invariance, PTL DEF Spec, JoinIsReal

\* A scale-in deletes the record of a process that runs only if the process was
\* started after the operation had found it stopped, or if that check had failed.
THEOREM CleanupIsSafe == Spec => CleanupFindsStopped
<1>1. Inv /\ [Next]_vars =>
        [\A o \in Ops : At(o, "cleanup_records") /\ gor'[o].at = "out" /\ ops[o].node \in records \ records'
           => ops[o].node \notin running \/ ops[o].node \in restarted]_vars
  <2> SUFFICES ASSUME Inv, [Next]_vars, NEW o \in Ops, At(o, "cleanup_records"), gor'[o].at = "out",
                      ops[o].node \in records \ records'
               PROVE  ops[o].node \notin running \/ ops[o].node \in restarted
    OBVIOUS
  <2>1. stepCleanupRecords(o)
    BY OutComesOf
  <2>2. ops[o].ref = "live"
    BY <2>1 DEF stepCleanupRecords
  <2>3. ops[o].kind = "in" /\ ops[o].done = 3
    BY AtStep
  <2> QED
    BY <2>2, <2>3 DEF Inv, Stopped, StoppedOnce
<1> QED
  BY <1>1, Invariance, PTL DEF Spec, CleanupFindsStopped
-----------------------------------------------------------------------------
(* What becomes of an operation's plan and of its steps.                   *)

KeepsPlan(o) ==
    /\ ops'[o].kind = ops[o].kind /\ ops'[o].node = ops[o].node /\ ops'[o].mode = ops[o].mode
    /\ ops'[o].loop = ops[o].loop /\ ops'[o].after = ops[o].after /\ ops'[o].roll = ops[o].roll

\* The plan of a submitted operation stays; its steps are counted one by one, by a
\* good outcome, and what succeeded is over.
KeepsSteps(o) ==
    ops[o].status # "none" =>
      /\ KeepsPlan(o)
      /\ \/ ops'[o].done = ops[o].done
         \/ gor[o].at = "out" /\ gor[o].res \in Done /\ ops'[o].done = ops[o].done + 1
      /\ ops[o].status = "succeeded" => ops'[o].status = "succeeded" /\ ops'[o].done = ops[o].done

Rests(o) == KeepsPlan(o) /\ ops'[o].status = ops[o].status /\ ops'[o].done = ops[o].done

\* Steps write their marks, the baseline and the reference only.
LEMMA RunStepRests == ASSUME Inv, NEW p \in Ops, runStep(p), NEW o \in Ops PROVE Rests(o)
<1>1. ops \in [Ops -> Op]
  BY DEF Inv, OpsTypes
<1>2. CASE UNCHANGED ops
  BY <1>2 DEF Rests, KeepsPlan
<1>3. CASE Marks(p)
  BY <1>1, <1>3 DEF Marks, Op, Rests, KeepsPlan
<1>4. CASE \E b : ops' = [ops EXCEPT ![p].cur = "running", ![p].baseline = b]
  BY <1>1, <1>4 DEF Op, Rests, KeepsPlan
<1>5. CASE ops' = [ops EXCEPT ![p].cur = "running", ![p].ref = "live"]
  BY <1>1, <1>5 DEF Op, Rests, KeepsPlan
<1>6. CASE ops' = [Forget(ops[p].node) EXCEPT ![p].cur = "running"]
  BY <1>1, <1>6 DEF Forget, Op, Rests, KeepsPlan
<1> QED
  BY <1>2, <1>3, <1>4, <1>5, <1>6 DEF runStep, stepValidatePlan, stepFixLoopback, FixNext, stepInstallFiles, stepRegisterNode,
     stepApplyConfigs, stepReplayPlugins, stepStartNode, stepPatchMembers, stepVerifyMembership, stepRollingRestart, RollNext,
     RollRejoined, RollEnds, stepStopNode, WatchExit, stepCleanupRecords, stepRefreshMonitor, stepVerifyScaleIn

\* No step but the saving of its outcome brings an operation to its end, and none ends its goroutine.
LEMMA RunStepStays ==
    ASSUME Inv, NEW p \in Ops, runStep(p), NEW o \in Ops
    PROVE  gor'[o] = gor[o] \/ gor'[o].at \notin {"end", "none"}
<1>1. gor \in [Ops -> Goroutine]
  BY DEF Inv, OpsTypes
<1>2. ASSUME NEW g, Goes(p, g), g.at \notin {"end", "none"} PROVE gor'[o] = gor[o] \/ gor'[o].at \notin {"end", "none"}
  BY <1>1, <1>2 DEF Goes
<1>3. ASSUME NEW res, Returns(p, res) PROVE gor'[o] = gor[o] \/ gor'[o].at \notin {"end", "none"}
  BY <1>1, <1>3 DEF Returns, Idle
<1>4. CASE stepFixLoopback(p)
  BY <1>2, <1>3, <1>4 DEF stepFixLoopback, Idle
<1>5. CASE FixNext(p)
  <2>1. gor[p].at = "fix"
    BY <1>5 DEF FixNext
  <2>2. \/ \E res : Returns(p, res)
        \/ \E n : Goes(p, [gor[p] EXCEPT !.todo = @ \ {n}, !.expected = {n}])
    BY <1>5 DEF FixNext
  <2> QED
    BY <1>1, <1>2, <1>3, <2>1, <2>2 DEF Goroutine
<1>6. CASE RollNext(p)
  <2>1. gor[p].at = "roll"
    BY <1>6 DEF RollNext
  <2>2. \/ \E res : Returns(p, res)
        \/ \E n, r : Goes(p, [gor[p] EXCEPT !.todo = @ \ {n}, !.res = r])
        \/ \E n, r, t : Goes(p, [[gor[p] EXCEPT !.todo = @ \ {n}, !.res = r] EXCEPT !.at = "rejoin", !.todo = t])
    BY <1>6 DEF RollNext
  <2> QED
    BY <1>1, <1>2, <1>3, <2>1, <2>2 DEF Goroutine
<1>7. CASE RollRejoined(p)
  <2>1. (\E res : Returns(p, res)) \/ \E n : Goes(p, [gor[p] EXCEPT !.at = "roll", !.todo = @ \ {n}])
    BY <1>7 DEF RollRejoined
  <2> QED
    BY <1>1, <1>2, <1>3, <2>1 DEF Goroutine
<1>8. CASE stepRollingRestart(p)
  BY <1>2, <1>8 DEF stepRollingRestart
<1>9. CASE stepStopNode(p)
  BY <1>2, <1>3, <1>9 DEF stepStopNode, Idle
<1>10. CASE \/ stepValidatePlan(p) \/ stepInstallFiles(p) \/ stepRegisterNode(p) \/ stepApplyConfigs(p) \/ stepReplayPlugins(p)
            \/ stepStartNode(p) \/ stepPatchMembers(p) \/ stepVerifyMembership(p) \/ RollEnds(p) \/ WatchExit(p)
            \/ stepCleanupRecords(p) \/ stepRefreshMonitor(p) \/ stepVerifyScaleIn(p)
  <2>1. \E res : Returns(p, res)
    BY <1>10 DEF stepValidatePlan, stepInstallFiles, stepRegisterNode, stepApplyConfigs, stepReplayPlugins, stepStartNode,
                 stepPatchMembers, stepVerifyMembership, RollEnds, WatchExit, stepCleanupRecords, stepRefreshMonitor,
                 stepVerifyScaleIn
  <2> QED
    BY <1>3, <2>1
<1> QED
  BY <1>4, <1>5, <1>6, <1>7, <1>8, <1>9, <1>10 DEF runStep

LEMMA RecoverKeeps ==
    ASSUME Inv, RecoverInterruptedOperations, NEW o \in Ops
    PROVE  KeepsPlan(o) /\ ops'[o].done = ops[o].done /\ ops'[o].status \in {ops[o].status, "failed"}
           /\ (ops[o].status = "succeeded" => ops'[o].status = "succeeded")
<1>1. ops \in [Ops -> Op]
  BY DEF Inv, OpsTypes
<1>2. CASE ops'[o] = ops[o]
  BY <1>1, <1>2 DEF KeepsPlan
<1>3. CASE /\ ops[o].status = "running"
           /\ ops'[o] = [ops[o] EXCEPT !.status = "failed", !.cur = IF @ = "running" THEN "failed" ELSE @]
  BY <1>1, <1>3 DEF Op, KeepsPlan
<1> QED
  BY <1>2, <1>3, RecoverDoes

LEMMA OutsideRests ==
    ASSUME Inv, NEW n \in Nodes, NEW o \in Ops,
           \/ StartNode(n) \/ StopNode(n) \/ RemoveNode(n)
           \/ ProcessExits(n) \/ ProcessDies(n) \/ AgentGoesOffline(n) \/ AgentReconnects(n)
    PROVE  Rests(o) /\ UNCHANGED gor
<1>1. UNCHANGED gor /\ (UNCHANGED ops \/ ops' = Forget(n))
  BY DEF StartNode, StopNode, RemoveNode, ByUser, ProcessExits, ProcessDies, AgentGoesOffline, AgentReconnects
<1>2. CASE UNCHANGED ops
  BY <1>1, <1>2 DEF Rests, KeepsPlan
<1>3. CASE ops' = Forget(n)
  <2>1. ops[o] \in Op
    BY DEF Inv, OpsTypes
  <2>2. ops'[o] = ops[o] \/ ops'[o] = [ops[o] EXCEPT !.ref = "gone"]
    BY <1>3 DEF Forget
  <2> QED
    BY <1>1, <2>1, <2>2 DEF Op, Rests, KeepsPlan
<1> QED
  BY <1>1, <1>2, <1>3

\* An operation that is activated keeps its plan and the steps it has done.
LEMMA ActivateDoes ==
    ASSUME Inv, NEW p \in Ops, NEW op \in Op, activate(p, op)
    PROVE  /\ \A q \in Ops : q # p => ops'[q] = ops[q] /\ gor'[q] = gor[q]
           /\ ops'[p].kind = op.kind /\ ops'[p].node = op.node /\ ops'[p].mode = op.mode
           /\ ops'[p].loop = op.loop /\ ops'[p].after = op.after /\ ops'[p].roll = op.roll
           /\ ops'[p].done = op.done /\ ops'[p].status \in {"running", "failed"}
           /\ gor'[p] = gor[p] \/ gor'[p].at \in {"run", "lost"} \/ op.done = Len(Steps(op))
<1>1. ops \in [Ops -> Op] /\ gor \in [Ops -> Goroutine]
  BY DEF Inv, OpsTypes
<1>2. PICK s \in {"running", "failed"} : ops' = [ops EXCEPT ![p] = [op EXCEPT !.status = s]]
  BY DEF activate
<1>3. \/ UNCHANGED gor
      \/ \E at \in {"run", "lost"} : gor' = [gor EXCEPT ![p] = [Idle EXCEPT !.at = at]]
      \/ op.done = Len(Steps(op)) /\ \E g : gor' = [gor EXCEPT ![p] = g]
  BY DEF activate
<1>4. \A q \in Ops : q # p => gor'[q] = gor[q]
  BY <1>1, <1>3
<1>5. gor'[p] = gor[p] \/ gor'[p].at \in {"run", "lost"} \/ op.done = Len(Steps(op))
  BY <1>1, <1>3 DEF Idle
<1> QED
  BY <1>1, <1>2, <1>4, <1>5 DEF Op

LEMMA SubmitActivates ==
    ASSUME Inv, NEW p \in Ops, SubmitScaleOut(p) \/ SubmitScaleIn(p)
    PROVE  \E op \in Op : activate(p, op) /\ ops[p].status = "none"
BY PlansType DEF SubmitScaleOut, SubmitScaleIn, submit

LEMMA RetryKeeps ==
    ASSUME Inv, NEW p \in Ops, RetryOperation(p), NEW o \in Ops
    PROVE  /\ KeepsPlan(o) /\ ops'[o].done = ops[o].done
           /\ o # p => ops'[o] = ops[o] /\ gor'[o] = gor[o]
           /\ ops[p].status = "failed" /\ ops'[p].status \in {"running", "failed"}
           /\ gor'[p] = gor[p] \/ gor'[p].at \in {"run", "lost"} \/ ops[p].done = Len(Steps(ops[p]))
<1> DEFINE op == [ops[p] EXCEPT !.cur = "pending"]
<1>1. activate(p, op) /\ ops[p].status = "failed" /\ ops[p] \in Op
  BY DEF RetryOperation, Inv, OpsTypes
<1>2. /\ op \in Op /\ op.kind = ops[p].kind /\ op.node = ops[p].node /\ op.mode = ops[p].mode
      /\ op.loop = ops[p].loop /\ op.after = ops[p].after /\ op.roll = ops[p].roll /\ op.done = ops[p].done
  BY <1>1 DEF Op
<1>3. Steps(op) = Steps(ops[p])
  BY <1>2, SameSteps
<1> HIDE DEF op
<1> QED
  BY <1>1, <1>2, <1>3, ActivateDoes DEF KeepsPlan

LEMMA SaveKeeps ==
    ASSUME Inv, NEW p \in Ops, SaveOutcome(p), NEW o \in Ops
    PROVE  /\ KeepsPlan(o) /\ ops'[o].status = ops[o].status
           /\ o # p => ops'[o].done = ops[o].done /\ gor'[o] = gor[o]
           /\ gor[p].at = "out" /\ ops[p].status = "running"
           /\ ops'[p].done = IF gor[p].res \in Done THEN ops[p].done + 1 ELSE ops[p].done
           /\ gor'[p].at = "end" /\ gor'[p].res \in Done => ops'[p].done = Len(Steps(ops[p]))
<1>1. ops \in [Ops -> Op] /\ gor \in [Ops -> Goroutine] /\ ops[p] \in Op /\ ops[p].done \in Nat
  BY DEF Inv, OpsTypes, Op
<1>2. gor[p].at = "out" /\ ops[p].status = "running"
  BY DEF SaveOutcome, Inv, Alone
<1> DEFINE op == IF gor[p].res \in Done THEN [ops[p] EXCEPT !.done = @ + 1, !.cur = "pending"]
                 ELSE [ops[p] EXCEPT !.cur = "failed"]
<1>3. /\ ops' = [ops EXCEPT ![p] = op]
      /\ \/ gor' = [gor EXCEPT ![p] = [Idle EXCEPT !.at = IF gor[p].res \notin Done \/ op.done = Len(Steps(op)) THEN "end" ELSE "run",
                                                   !.res = gor[p].res]]
         \/ gor' = [gor EXCEPT ![p] = [Idle EXCEPT !.at = "end", !.res = "failed"]]
  BY DEF SaveOutcome
<1>4. /\ op.kind = ops[p].kind /\ op.node = ops[p].node /\ op.mode = ops[p].mode /\ op.loop = ops[p].loop
      /\ op.after = ops[p].after /\ op.roll = ops[p].roll /\ op.status = ops[p].status
      /\ op.done = IF gor[p].res \in Done THEN ops[p].done + 1 ELSE ops[p].done
  BY <1>1 DEF Op
<1>5. Steps(op) = Steps(ops[p])
  BY <1>4, SameSteps
<1> HIDE DEF op
<1>6. gor'[p].at = "end" /\ gor'[p].res \in Done => op.done = Len(Steps(op))
  BY <1>1, <1>3 DEF Idle, Done
<1> QED
  BY <1>1, <1>2, <1>3, <1>4, <1>5, <1>6 DEF KeepsPlan

LEMMA FinishKeeps ==
    ASSUME Inv, NEW p \in Ops, finishOperation(p), NEW o \in Ops
    PROVE  /\ KeepsPlan(o) /\ ops'[o].done = ops[o].done /\ gor[p].at = "end" /\ ops[p].status = "running"
           /\ o # p => ops'[o] = ops[o] /\ gor'[o] = gor[o]
           /\ ops'[p].status = "succeeded" => gor[p].res \in Done
           /\ gor'[p].at # "end"
<1>1. ops \in [Ops -> Op] /\ gor \in [Ops -> Goroutine] /\ ops[p] \in Op
  BY DEF Inv, OpsTypes
<1>2. gor[p].at = "end" /\ ops[p].status = "running"
  BY DEF finishOperation, Inv, Alone
<1>3. /\ ops' = [ops EXCEPT ![p].status = IF gor[p].res \in Done THEN "succeeded" ELSE "failed"] \/ UNCHANGED ops
      /\ gor' = [gor EXCEPT ![p] = Idle] \/ gor' = [gor EXCEPT ![p] = [Idle EXCEPT !.at = "lost"]]
  BY DEF finishOperation
<1> QED
  BY <1>1, <1>2, <1>3 DEF Op, KeepsPlan, Idle

LEMMA NextKeeps == ASSUME Inv, [Next]_vars, NEW o \in Ops PROVE KeepsSteps(o)
<1>1. CASE UNCHANGED vars
  BY <1>1 DEF vars, KeepsSteps, KeepsPlan
<1>2. ASSUME NEW p \in Ops, SubmitScaleOut(p) \/ SubmitScaleIn(p) PROVE KeepsSteps(o)
  BY <1>2, SubmitActivates, ActivateDoes DEF KeepsSteps, KeepsPlan
<1>3. ASSUME NEW p \in Ops, RetryOperation(p) PROVE KeepsSteps(o)
  BY <1>3, RetryKeeps DEF KeepsSteps
<1>4. ASSUME NEW p \in Ops, runStep(p) PROVE KeepsSteps(o)
  BY <1>4, RunStepRests DEF KeepsSteps, Rests
<1>5. ASSUME NEW p \in Ops, SaveOutcome(p) PROVE KeepsSteps(o)
  BY <1>5, SaveKeeps DEF KeepsSteps
<1>6. ASSUME NEW p \in Ops, finishOperation(p) PROVE KeepsSteps(o)
  BY <1>6, FinishKeeps DEF KeepsSteps
<1>7. CASE RecoverInterruptedOperations
  BY <1>7, RecoverKeeps DEF KeepsSteps
<1>8. ASSUME NEW n \in Nodes, \/ StartNode(n) \/ StopNode(n) \/ RemoveNode(n)
                              \/ ProcessExits(n) \/ ProcessDies(n) \/ AgentGoesOffline(n) \/ AgentReconnects(n)
      PROVE  KeepsSteps(o)
  BY <1>8, OutsideRests DEF KeepsSteps, Rests
<1> QED
  BY <1>1, <1>2, <1>3, <1>4, <1>5, <1>6, <1>7, <1>8 DEF Next, runOperation

\* A retry goes on with the plan that was submitted, after the steps that have
\* succeeded: none of these is taken back or counted twice, and no user, crash or
\* other operation changes what an operation is about (RetryOperation, runOperation).
THEOREM RetriesGoOn == Spec => [][\A o \in Ops : KeepsSteps(o)]_vars
<1>1. Inv /\ [Next]_vars => [\A o \in Ops : KeepsSteps(o)]_vars
  BY NextKeeps
<1> QED
  BY <1>1, Invariance, PTL DEF Spec

\* An operation that succeeded, or is about to, is through with its steps.
Whole == \A o \in Ops :
    ops[o].status = "succeeded" \/ (gor[o].at = "end" /\ gor[o].res \in Done) => ops[o].done = Len(Steps(ops[o]))

LEMMA NextWhole == ASSUME Inv, Whole, [Next]_vars PROVE Whole'
<1> SUFFICES ASSUME NEW o \in Ops, ops'[o].status = "succeeded" \/ (gor'[o].at = "end" /\ gor'[o].res \in Done)
             PROVE  ops'[o].done = Len(Steps(ops'[o]))
  BY DEF Whole
<1> DEFINE Same == KeepsPlan(o) /\ ops'[o].done = ops[o].done /\ ops[o].done = Len(Steps(ops[o]))
<1>a. Same => ops'[o].done = Len(Steps(ops'[o]))
  BY SameSteps DEF KeepsPlan
<1> HIDE DEF Same
<1>1. CASE UNCHANGED vars
  BY <1>1 DEF vars, Whole
<1>2. ASSUME NEW p \in Ops, SubmitScaleOut(p) \/ SubmitScaleIn(p) PROVE ops'[o].done = Len(Steps(ops'[o]))
  <2>1. PICK op \in Op : activate(p, op)
    BY <1>2, SubmitActivates
  <2>2. CASE o = p
    <3>1. Steps(ops'[o]) = Steps(op) /\ ops'[o].done = op.done
      BY <2>1, <2>2, ActivateDoes, SameSteps
    <3>2. gor[o].at # "end" /\ ops'[o].status # "succeeded"
      BY <1>2, <2>1, <2>2, SubmitActivates, ActivateDoes DEF Inv, Alone
    <3> QED
      BY <2>1, <2>2, <3>1, <3>2, ActivateDoes
  <2>3. CASE o # p
    BY <2>1, <2>3, ActivateDoes DEF Whole
  <2> QED
    BY <2>2, <2>3
<1>3. ASSUME NEW p \in Ops, RetryOperation(p) PROVE Same
  BY <1>3, RetryKeeps DEF Whole, Same
<1>4. ASSUME NEW p \in Ops, runStep(p) PROVE Same
  <2>1. Rests(o)
    BY <1>4, RunStepRests
  <2>2. gor'[o] = gor[o] \/ gor'[o].at # "end"
    BY <1>4, RunStepStays
  <2> QED
    BY <2>1, <2>2 DEF Whole, Rests, Same
<1>5. ASSUME NEW p \in Ops, SaveOutcome(p) PROVE ops'[o].done = Len(Steps(ops'[o]))
  <2>1. CASE o = p
    BY <1>5, <2>1, SaveKeeps, SameSteps DEF KeepsPlan
  <2>2. CASE o # p
    BY <1>5, <2>2, <1>a, SaveKeeps DEF Whole, Same
  <2> QED
    BY <2>1, <2>2
<1>6. ASSUME NEW p \in Ops, finishOperation(p) PROVE Same
  BY <1>6, FinishKeeps DEF Whole, Same
<1>7. CASE RecoverInterruptedOperations
  <2>1. ops'[o].status = "succeeded"
    BY <1>7, RecoverRests
  <2> QED
    BY <1>7, <2>1, <1>a, RecoverKeeps DEF Whole, Same
<1>8. ASSUME NEW n \in Nodes, \/ StartNode(n) \/ StopNode(n) \/ RemoveNode(n)
                              \/ ProcessExits(n) \/ ProcessDies(n) \/ AgentGoesOffline(n) \/ AgentReconnects(n)
      PROVE  Same
  BY <1>8, OutsideRests DEF Whole, Rests, Same
<1> QED
  BY <1>a, <1>1, <1>2, <1>3, <1>4, <1>5, <1>6, <1>7, <1>8 DEF Next, runOperation

\* An operation that is recorded as succeeded has been through all the steps of the
\* plan that was submitted, in their order, however often it was interrupted and
\* retried on the way (runOperation, finishOperation).
THEOREM SuccessIsWhole ==
    Spec => [](\A o \in Ops : ops[o].status = "succeeded" => ops[o].done = Len(Steps(ops[o])))
<1>1. Init => Whole
  BY DEF Init, NoOp, Idle, Whole
<1>2. Whole => \A o \in Ops : ops[o].status = "succeeded" => ops[o].done = Len(Steps(ops[o]))
  BY DEF Whole
<1> QED
  BY <1>1, <1>2, NextWhole, Invariance, PTL DEF Spec
-----------------------------------------------------------------------------
(* The operations keep the promise of ScaleOutcome.                        *)

\* What an action has to do to the operations for each action of the promise.
OthersRest(o) == \A p \in Ops : p # o => Rests(p)
Submitted(o) ==
    /\ ops[o].status = "none" /\ FindRunningByCluster = {} /\ OthersRest(o)
    /\ ops'[o].status \in {"running", "failed"} /\ ops'[o].done = ops[o].done
Stepped(o) ==
    /\ ops[o].status = "running" /\ ops[o].done < Len(Steps(ops[o])) /\ OthersRest(o)
    /\ KeepsPlan(o) /\ ops'[o].status = ops[o].status /\ ops'[o].done = ops[o].done + 1
Ended(o) ==
    /\ ops[o].status = "running" /\ OthersRest(o) /\ KeepsPlan(o) /\ ops'[o].done = ops[o].done
    /\ ops'[o].status = "failed" \/ (ops'[o].status = "succeeded" /\ ops[o].done = Len(Steps(ops[o])))
Retried(o) ==
    /\ ops[o].status = "failed" /\ FindRunningByCluster = {} /\ OthersRest(o)
    /\ KeepsPlan(o) /\ ops'[o].done = ops[o].done /\ ops'[o].status = "running"
Kept == (\A o \in Ops : Rests(o)) \/ \E o \in Ops : Submitted(o) \/ Stepped(o) \/ Ended(o) \/ Retried(o)

\* The promise as a relation of two states.
plans    == [o \in Ops |-> Plan(o)]
sizes    == [o \in Ops |-> Len(Steps(ops[o]))]
dones    == [o \in Ops |-> ops[o].done]
statuses == [o \in Ops |-> ops[o].status]

LEMMA SamePlanAndSize ==
    ASSUME NEW o \in Ops, KeepsPlan(o)
    PROVE  plans'[o] = plans[o] /\ sizes'[o] = sizes[o]
<1>1. Steps(ops'[o]) = Steps(ops[o])
  BY SameSteps DEF KeepsPlan
<1> QED
  BY <1>1 DEF KeepsPlan, plans, sizes, Plan

LEMMA OneStatus ==
    ASSUME NEW o \in Ops, OthersRest(o)
    PROVE  statuses' = [statuses EXCEPT ![o] = ops'[o].status]
BY DEF OthersRest, Rests, statuses

LEMMA OneDone ==
    ASSUME NEW o \in Ops, OthersRest(o)
    PROVE  dones' = [dones EXCEPT ![o] = ops'[o].done]
BY DEF OthersRest, Rests, dones

LEMMA AllPlans ==
    ASSUME \A o \in Ops : KeepsPlan(o)
    PROVE  plans' = plans /\ sizes' = sizes
BY SamePlanAndSize DEF plans, sizes

LEMMA RestsStutters ==
    ASSUME \A o \in Ops : Rests(o)
    PROVE  UNCHANGED <<plans, sizes, dones, statuses>>
BY AllPlans DEF Rests, dones, statuses

LEMMA SubmittedSubmits ==
    ASSUME NEW o \in Ops, Submitted(o)
    PROVE  Promise!Submit(o)
<1>1. \A p \in Ops \ {o} : plans'[p] = plans[p] /\ sizes'[p] = sizes[p]
  BY SamePlanAndSize DEF Submitted, OthersRest, Rests
<1>2. dones' = dones
  BY OneDone DEF Submitted, dones
<1>3. \E s \in {"running", "failed"} : statuses' = [statuses EXCEPT ![o] = s]
  BY OneStatus DEF Submitted
<1>4. statuses[o] = "none" /\ \A p \in Ops : statuses[p] # "running"
  BY DEF Submitted, FindRunningByCluster, statuses
<1> QED
  BY <1>1, <1>2, <1>3, <1>4 DEF Promise!Submit, Promise!Free, Promise!OnlyPlan, plans, sizes, dones, statuses

LEMMA SteppedSteps ==
    ASSUME NEW o \in Ops, Stepped(o)
    PROVE  Promise!Step(o)
<1>1. plans' = plans /\ sizes' = sizes
  BY AllPlans DEF Stepped, OthersRest, Rests
<1>2. dones' = [dones EXCEPT ![o] = @ + 1]
  BY OneDone DEF Stepped, dones
<1>3. statuses' = statuses
  BY OneStatus DEF Stepped, statuses
<1>4. statuses[o] = "running" /\ dones[o] < sizes[o]
  BY DEF Stepped, statuses, dones, sizes
<1> QED
  BY <1>1, <1>2, <1>3, <1>4 DEF Promise!Step, plans, sizes, dones, statuses

LEMMA EndedEnds ==
    ASSUME NEW o \in Ops, Ended(o)
    PROVE  Promise!End(o)
<1>1. plans' = plans /\ sizes' = sizes
  BY AllPlans DEF Ended, OthersRest, Rests
<1>2. dones' = dones
  BY OneDone DEF Ended, dones
<1>3. \E s \in {"succeeded", "failed"} : (s = "succeeded" => dones[o] = sizes[o]) /\ statuses' = [statuses EXCEPT ![o] = s]
  BY OneStatus DEF Ended, dones, sizes
<1>4. statuses[o] = "running"
  BY DEF Ended, statuses
<1> QED
  BY <1>1, <1>2, <1>3, <1>4 DEF Promise!End, plans, sizes, dones, statuses

LEMMA RetriedRetries ==
    ASSUME NEW o \in Ops, Retried(o)
    PROVE  Promise!Retry(o)
<1>1. plans' = plans /\ sizes' = sizes
  BY AllPlans DEF Retried, OthersRest, Rests
<1>2. dones' = dones
  BY OneDone DEF Retried, dones
<1>3. statuses' = [statuses EXCEPT ![o] = "running"]
  BY OneStatus DEF Retried
<1>4. statuses[o] = "failed" /\ \A p \in Ops : statuses[p] # "running"
  BY DEF Retried, FindRunningByCluster, statuses
<1> QED
  BY <1>1, <1>2, <1>3, <1>4 DEF Promise!Retry, Promise!Free, plans, sizes, dones, statuses

LEMMA KeptMaps ==
    ASSUME Kept
    PROVE  Promise!Next \/ UNCHANGED <<plans, sizes, dones, statuses>>
BY RestsStutters, SubmittedSubmits, SteppedSteps, EndedEnds, RetriedRetries DEF Kept, Promise!Next

\* What was never submitted has no step that is done.
Fresh == \A o \in Ops : ops[o].status = "none" => ops[o].done = 0

LEMMA SubmitKept ==
    ASSUME Inv, Fresh, NEW p \in Ops, SubmitScaleOut(p) \/ SubmitScaleIn(p)
    PROVE  Kept
<1>1. PICK op \in Op : activate(p, op) /\ op.done = 0 /\ ops[p].status = "none" /\ FindRunningByCluster = {}
  BY PlansType DEF SubmitScaleOut, SubmitScaleIn, submit
<1>2. OthersRest(p)
  BY <1>1, ActivateDoes DEF OthersRest, Rests, KeepsPlan
<1>3. ops'[p].status \in {"running", "failed"} /\ ops'[p].done = ops[p].done
  BY <1>1, ActivateDoes DEF Fresh
<1> QED
  BY <1>1, <1>2, <1>3 DEF Kept, Submitted

LEMMA RetryKept ==
    ASSUME Inv, NEW p \in Ops, RetryOperation(p)
    PROVE  Kept
<1>1. OthersRest(p)
  BY RetryKeeps DEF OthersRest, Rests
<1>2. KeepsPlan(p) /\ ops'[p].done = ops[p].done /\ ops[p].status = "failed" /\ ops'[p].status \in {"running", "failed"}
  BY RetryKeeps
<1>3. FindRunningByCluster = {}
  BY DEF RetryOperation
<1>4. CASE ops'[p].status = "failed"
  BY <1>1, <1>2, <1>4 DEF Kept, OthersRest, Rests
<1> QED
  BY <1>1, <1>2, <1>3, <1>4 DEF Kept, Retried

LEMMA SaveKept ==
    ASSUME Inv, NEW p \in Ops, SaveOutcome(p)
    PROVE  Kept
<1>1. OthersRest(p)
  BY SaveKeeps DEF OthersRest, Rests
<1>2. /\ KeepsPlan(p) /\ ops'[p].status = ops[p].status /\ gor[p].at = "out" /\ ops[p].status = "running"
      /\ ops'[p].done = IF gor[p].res \in Done THEN ops[p].done + 1 ELSE ops[p].done
  BY SaveKeeps
<1>3. ops[p].done < Len(Steps(ops[p]))
  BY <1>2 DEF Inv, Ahead, Working
<1>4. CASE gor[p].res \in Done
  BY <1>1, <1>2, <1>3, <1>4 DEF Kept, Stepped
<1>5. CASE gor[p].res \notin Done
  BY <1>1, <1>2, <1>5 DEF Kept, OthersRest, Rests
<1> QED
  BY <1>4, <1>5

LEMMA FinishKept ==
    ASSUME Inv, Whole, NEW p \in Ops, finishOperation(p)
    PROVE  Kept
<1>1. OthersRest(p)
  BY FinishKeeps DEF OthersRest, Rests, KeepsPlan
<1>2. /\ KeepsPlan(p) /\ ops'[p].done = ops[p].done /\ gor[p].at = "end" /\ ops[p].status = "running"
      /\ ops'[p].status = "succeeded" => gor[p].res \in Done
  BY FinishKeeps
<1>3. ops'[p].status \in {"succeeded", "failed", ops[p].status}
  <2>1. ops \in [Ops -> Op]
    BY DEF Inv, OpsTypes
  <2> QED
    BY <2>1 DEF finishOperation, Op
<1>4. ops'[p].status = "succeeded" => ops[p].done = Len(Steps(ops[p]))
  BY <1>2 DEF Whole
<1>5. CASE ops'[p].status = ops[p].status
  BY <1>1, <1>2, <1>5 DEF Kept, OthersRest, Rests
<1> QED
  BY <1>1, <1>2, <1>3, <1>4, <1>5 DEF Kept, Ended

LEMMA RecoverKept ==
    ASSUME Inv, RecoverInterruptedOperations
    PROVE  Kept
<1>1. ops \in [Ops -> Op]
  BY DEF Inv, OpsTypes
<1>2. \A o \in Ops : /\ KeepsPlan(o) /\ ops'[o].done = ops[o].done
                     /\ ops[o].status # "running" => ops'[o].status = ops[o].status
                     /\ ops'[o].status = ops[o].status \/ ops'[o].status = "failed"
  <2>1. \A o \in Ops : ops[o].status # "running" => ops'[o] = ops[o]
    BY RecoverDoes
  <2> QED
    BY <1>1, <2>1, RecoverKeeps
<1>3. CASE \A o \in Ops : ops'[o].status = ops[o].status
  BY <1>2, <1>3 DEF Kept, Rests
<1>4. ASSUME NEW o \in Ops, ops'[o].status # ops[o].status PROVE Kept
  <2>1. ops[o].status = "running" /\ \A p \in Ops : p # o => ops[p].status # "running"
    BY <1>2, <1>4 DEF Inv, Alone
  <2>2. OthersRest(o)
    BY <1>2, <2>1 DEF OthersRest, Rests
  <2> QED
    BY <1>2, <1>4, <2>1, <2>2 DEF Kept, Ended
<1> QED
  BY <1>3, <1>4

LEMMA NextKept == ASSUME Inv, Whole, Fresh, [Next]_vars PROVE Kept
<1>1. CASE UNCHANGED vars
  BY <1>1 DEF vars, Kept, Rests, KeepsPlan
<1>2. ASSUME NEW p \in Ops, runStep(p) PROVE Kept
  BY <1>2, RunStepRests DEF Kept
<1>3. ASSUME NEW n \in Nodes, \/ StartNode(n) \/ StopNode(n) \/ RemoveNode(n)
                              \/ ProcessExits(n) \/ ProcessDies(n) \/ AgentGoesOffline(n) \/ AgentReconnects(n)
      PROVE  Kept
  BY <1>3, OutsideRests DEF Kept
<1> QED
  BY <1>1, <1>2, <1>3, SubmitKept, RetryKept, SaveKept, FinishKept, RecoverKept DEF Next, runOperation

LEMMA NextFresh ==
    ASSUME Fresh, Kept
    PROVE  Fresh'
BY DEF Fresh, Kept, Rests, OthersRest, Submitted, Stepped, Ended, Retried

\* The scaling operations of a cluster keep the promise of ScaleOutcome, whatever fails,
\* restarts or is retried: every step of the system is one of its steps or leaves the
\* plans, their progress and their states alone (submit, RetryOperation, runOperation,
\* RecoverInterruptedOperations).
THEOREM PromiseKept == Spec => ScalesAsPlanned
<1>1. Init => Promise!Init /\ Whole /\ Fresh
  <2>1. Init => \A o \in Ops : ops[o].done = 0 /\ ops[o].status = "none" /\ gor[o].at = "none"
    BY NoOpType DEF Init, NoOp, Idle
  <2> QED
    BY <2>1 DEF Promise!Init, Whole, Fresh
<1>2. Inv /\ Whole /\ Fresh /\ [Next]_vars => Kept
  BY NextKept
<1>3. Fresh /\ Kept => Fresh'
  BY NextFresh
<1>4. Inv /\ Whole /\ [Next]_vars => Whole'
  BY NextWhole
<1>5. Kept => Promise!Next \/ UNCHANGED <<plans, sizes, dones, statuses>>
  BY KeptMaps
<1>6. Promise!Init /\ [][Promise!Next]_<<plans, sizes, dones, statuses>> => Promise!Spec
  BY DEF Promise!Spec, plans, sizes, dones, statuses
<1> QED
  BY <1>1, <1>2, <1>3, <1>4, <1>5, <1>6, Invariance, PTL DEF Spec, ScalesAsPlanned
-----------------------------------------------------------------------------
(* Who goes on with a running operation.                                   *)

\* The steps runStep knows.
StepNames == OutSteps \cup {"stop_node", "cleanup_records", "refresh_monitor", "verify"}

\* What the goroutine of an operation has to do: run the next step, which has to be
\* one it knows and can decide, or go on with the one it is in, or save.
WorkDue(o) ==
    \/ gor[o].at = "run" /\ \E step \in StepNames : At(o, step) /\ (step = "stop_node" => ops[o].ref \in {"live", "gone"})
    \/ gor[o].at \in {"out", "end", "fix", "roll", "rejoin", "stop"}

\* A running operation is worked on, or a load or a save that failed has left it alone.
WaitsForSomebody == \A o \in Ops : ops[o].status = "running" => WorkDue(o) \/ gor[o].at = "lost"

Manned    == \A o \in Ops : ops[o].status = "running" => gor[o].at # "none"
Referring == \A o \in Ops : ops[o].kind = "in" => ops[o].ref # "none"

LEMMA StepKnown ==
    ASSUME Inv, NEW o \in Ops, gor[o].at = "run"
    PROVE  \E step \in StepNames : At(o, step)
<1>1. ops[o] \in Op /\ ops[o].done \in Nat
  BY DEF Inv, OpsTypes, Op
<1>2. ops[o].done < Len(Steps(ops[o]))
  BY DEF Inv, Ahead, Working
<1>3. CASE ops[o].kind = "in"
  <2>1. ops[o].done \in 0..5
    <3>1. Len(Steps(ops[o])) = 6
      BY <1>3, InStepsAre
    <3> QED
      BY <1>1, <1>2, <3>1
  <2>2. Steps(ops[o])[ops[o].done + 1] \in {"validate_plan", "stop_node", "patch_members", "cleanup_records", "refresh_monitor", "verify"}
    BY <1>3, <2>1, InStepsAre
  <2> QED
    BY <2>2 DEF At, StepNames, OutSteps
<1>4. CASE ops[o].kind # "in"
  <2>1. Steps(ops[o])[ops[o].done + 1] \in OutSteps
    BY <1>1, <1>2, <1>4, OutStepsAre, ElementOfSeq
  <2> QED
    BY <2>1 DEF At, StepNames
<1> QED
  BY <1>3, <1>4

LEMMA MannedWaits ==
    ASSUME Inv, Manned, Referring
    PROVE  WaitsForSomebody
<1> SUFFICES ASSUME NEW o \in Ops, ops[o].status = "running", gor[o].at # "lost" PROVE WorkDue(o)
  BY DEF WaitsForSomebody
<1>1. gor[o].at \in Places \ {"none", "lost"}
  BY DEF Inv, OpsTypes, Goroutine, Manned
<1>2. CASE gor[o].at = "run"
  <2>1. PICK step \in StepNames : At(o, step)
    BY <1>2, StepKnown
  <2>2. step = "stop_node" => ops[o].kind = "in"
    BY <2>1, AtStep
  <2>3. ops[o].ref \in {"none", "live", "gone"}
    BY DEF Inv, OpsTypes, Op
  <2> QED
    BY <1>2, <2>1, <2>2, <2>3 DEF Referring, WorkDue
<1> QED
  BY <1>1, <1>2 DEF Places, WorkDue

\* The kind of an operation and what it refers to, before and after a step.
KeepsReference(o) == ops'[o].kind = "in" /\ ops'[o].ref = "none" => ops[o].kind = "in" /\ ops[o].ref = "none"

LEMMA RunStepRefers == ASSUME Inv, NEW p \in Ops, runStep(p), NEW o \in Ops PROVE KeepsReference(o)
<1>1. ops \in [Ops -> Op]
  BY DEF Inv, OpsTypes
<1>2. CASE UNCHANGED ops
  BY <1>2 DEF KeepsReference
<1>3. CASE Marks(p)
  BY <1>1, <1>3 DEF Marks, Op, KeepsReference
<1>4. CASE \E b : ops' = [ops EXCEPT ![p].cur = "running", ![p].baseline = b]
  BY <1>1, <1>4 DEF Op, KeepsReference
<1>5. CASE ops' = [ops EXCEPT ![p].cur = "running", ![p].ref = "live"]
  BY <1>1, <1>5 DEF Op, KeepsReference
<1>6. CASE ops' = [Forget(ops[p].node) EXCEPT ![p].cur = "running"]
  BY <1>1, <1>6 DEF Forget, Op, KeepsReference
<1> QED
  BY <1>2, <1>3, <1>4, <1>5, <1>6 DEF runStep, stepValidatePlan, stepFixLoopback, FixNext, stepInstallFiles, stepRegisterNode,
     stepApplyConfigs, stepReplayPlugins, stepStartNode, stepPatchMembers, stepVerifyMembership, stepRollingRestart, RollNext,
     RollRejoined, RollEnds, stepStopNode, WatchExit, stepCleanupRecords, stepRefreshMonitor, stepVerifyScaleIn

LEMMA ActivateMans ==
    ASSUME Inv, Manned, NEW p \in Ops, NEW op \in Op, activate(p, op), op.kind = "in" => op.ref # "none",
           Referring
    PROVE  Manned' /\ Referring'
<1>1. ops \in [Ops -> Op] /\ gor \in [Ops -> Goroutine]
  BY DEF Inv, OpsTypes
<1>2. PICK s : /\ ops' = [ops EXCEPT ![p] = [op EXCEPT !.status = s]]
               /\ \/ s = "failed" /\ UNCHANGED gor
                  \/ gor' = [gor EXCEPT ![p] = IF op.done = Len(Steps(op)) THEN [Idle EXCEPT !.at = "end", !.res = "succeeded"]
                                               ELSE [Idle EXCEPT !.at = "run"]]
                  \/ gor' = [gor EXCEPT ![p] = Lost]
  BY DEF activate, Lost
<1>3. ops'[p].status = s /\ ops'[p].kind = op.kind /\ ops'[p].ref = op.ref /\ \A q \in Ops : q # p => ops'[q] = ops[q]
  BY <1>1, <1>2 DEF Op
<1>4. (s = "failed" \/ gor'[p].at # "none") /\ \A q \in Ops : q # p => gor'[q] = gor[q]
  BY <1>1, <1>2 DEF Idle, Lost
<1> QED
  BY <1>3, <1>4 DEF Manned, Referring

LEMMA NextManned == ASSUME Inv, Manned, Referring, [Next]_vars PROVE Manned' /\ Referring'
<1>1. ops \in [Ops -> Op] /\ gor \in [Ops -> Goroutine]
  BY DEF Inv, OpsTypes
<1>2. CASE UNCHANGED vars
  BY <1>2 DEF vars, Manned, Referring
<1>3. ASSUME NEW p \in Ops, SubmitScaleOut(p) \/ SubmitScaleIn(p) PROVE Manned' /\ Referring'
  <2>1. PICK op \in Op : activate(p, op) /\ (op.kind = "in" => op.ref # "none")
    <3>1. CASE SubmitScaleOut(p)
      BY <3>1, PlansType DEF SubmitScaleOut, submit
    <3>2. CASE SubmitScaleIn(p)
      <4>1. PICK n \in Nodes : activate(p, PlanScaleIn(n)) /\ PlanScaleIn(n) \in Op
        BY <3>2, PlansType DEF SubmitScaleIn, submit
      <4>2. PlanScaleIn(n).ref = "live"
        BY DEF PlanScaleIn, NoOp
      <4> QED
        BY <4>1, <4>2
    <3> QED
      BY <1>3, <3>1, <3>2
  <2> QED
    BY <2>1, ActivateMans
<1>4. ASSUME NEW p \in Ops, RetryOperation(p) PROVE Manned' /\ Referring'
  <2>1. PICK op : op = [ops[p] EXCEPT !.cur = "pending"] /\ activate(p, op)
    BY <1>4 DEF RetryOperation
  <2>2. op \in Op /\ op.kind = ops[p].kind /\ op.ref = ops[p].ref
    BY <1>1, <2>1 DEF Op
  <2> QED
    BY <2>1, <2>2, ActivateMans DEF Referring
<1>5. ASSUME NEW p \in Ops, runStep(p) PROVE Manned' /\ Referring'
  <2>1. \A o \in Ops : ops'[o].status = ops[o].status /\ (gor'[o] = gor[o] \/ gor'[o].at # "none") /\ KeepsReference(o)
    BY <1>5, RunStepRests, RunStepStays, RunStepRefers DEF Rests
  <2> QED
    BY <2>1 DEF Manned, Referring, KeepsReference
<1>6. ASSUME NEW p \in Ops, SaveOutcome(p) PROVE Manned' /\ Referring'
  <2>1. PICK op, g : ops' = [ops EXCEPT ![p] = op] /\ gor' = [gor EXCEPT ![p] = g] /\ g.at # "none"
                     /\ op.kind = ops[p].kind /\ op.ref = ops[p].ref
    <3>1. PICK op : /\ op \in {[ops[p] EXCEPT !.done = @ + 1, !.cur = "pending"], [ops[p] EXCEPT !.cur = "failed"]}
                    /\ ops' = [ops EXCEPT ![p] = op]
      BY <1>6 DEF SaveOutcome
    <3>2. PICK g : /\ gor' = [gor EXCEPT ![p] = g]
                   /\ \/ g = [Idle EXCEPT !.at = "run", !.res = gor[p].res]
                      \/ g = [Idle EXCEPT !.at = "end", !.res = gor[p].res]
                      \/ g = [Idle EXCEPT !.at = "end", !.res = "failed"]
      <4>1. CASE gor' = [gor EXCEPT ![p] = [Idle EXCEPT !.at = "end", !.res = "failed"]]
        BY <4>1
      <4>2. ASSUME NEW last \in BOOLEAN,
                   gor' = [gor EXCEPT ![p] = [Idle EXCEPT !.at = IF last THEN "end" ELSE "run", !.res = gor[p].res]]
            PROVE  \E g : /\ gor' = [gor EXCEPT ![p] = g]
                          /\ \/ g = [Idle EXCEPT !.at = "run", !.res = gor[p].res]
                             \/ g = [Idle EXCEPT !.at = "end", !.res = gor[p].res]
        BY <4>2
      <4> QED
        BY <1>6, <4>1, <4>2 DEF SaveOutcome
    <3>3. g.at # "none"
      BY <3>2 DEF Idle
    <3>4. op.kind = ops[p].kind /\ op.ref = ops[p].ref
      BY <1>1, <3>1 DEF Op
    <3> QED
      BY <3>1, <3>2, <3>3, <3>4
  <2> QED
    BY <1>1, <2>1 DEF Manned, Referring
<1>7. ASSUME NEW p \in Ops, finishOperation(p) PROVE Manned' /\ Referring'
  <2>1. \/ \E s \in {"succeeded", "failed"} : ops' = [ops EXCEPT ![p].status = s] /\ gor' = [gor EXCEPT ![p] = Idle]
        \/ UNCHANGED ops /\ gor' = [gor EXCEPT ![p] = [Idle EXCEPT !.at = "lost"]]
    BY <1>7 DEF finishOperation
  <2>2. CASE \E s \in {"succeeded", "failed"} : ops' = [ops EXCEPT ![p].status = s] /\ gor' = [gor EXCEPT ![p] = Idle]
    BY <1>1, <2>2 DEF Manned, Referring, Op
  <2>3. CASE UNCHANGED ops /\ gor' = [gor EXCEPT ![p] = [Idle EXCEPT !.at = "lost"]]
    BY <1>1, <2>3 DEF Manned, Referring, Idle
  <2> QED
    BY <2>1, <2>2, <2>3
<1>8. CASE RecoverInterruptedOperations
  <2>1. ASSUME NEW o \in Ops
        PROVE  /\ ops'[o].kind = ops[o].kind /\ ops'[o].ref = ops[o].ref
               /\ ops'[o].status = "running" => gor'[o].at # "none"
    <3>1. CASE ops'[o] = ops[o] /\ gor'[o] = IF ops[o].status = "running" THEN Lost ELSE Idle
      BY <3>1 DEF Lost, Idle
    <3>2. CASE ops'[o] = [ops[o] EXCEPT !.status = "failed", !.cur = IF @ = "running" THEN "failed" ELSE @]
      <4>1. PICK c : ops'[o] = [ops[o] EXCEPT !.status = "failed", !.cur = c]
        BY <3>2
      <4>2. ops[o] \in Op
        BY <1>1
      <4> QED
        BY <4>1, <4>2 DEF Op
    <3> QED
      BY <1>8, <3>1, <3>2, RecoverDoes
  <2> QED
    BY <2>1 DEF Manned, Referring
<1>9. ASSUME NEW n \in Nodes, \/ StartNode(n) \/ StopNode(n) \/ RemoveNode(n)
                              \/ ProcessExits(n) \/ ProcessDies(n) \/ AgentGoesOffline(n) \/ AgentReconnects(n)
      PROVE  Manned' /\ Referring'
  <2>1. UNCHANGED ops \/ ops' = Forget(n)
    BY <1>9 DEF StartNode, StopNode, RemoveNode, ProcessExits, ProcessDies, AgentGoesOffline, AgentReconnects
  <2>2. \A o \in Ops : KeepsReference(o)
    BY <1>1, <2>1 DEF Forget, Op, KeepsReference
  <2>3. \A o \in Ops : ops'[o].status = ops[o].status /\ gor' = gor
    BY <1>9, OutsideRests DEF Rests
  <2> QED
    BY <2>2, <2>3 DEF Manned, Referring, KeepsReference
<1> QED
  BY <1>2, <1>3, <1>4, <1>5, <1>6, <1>7, <1>8, <1>9 DEF Next, runOperation

\* A running operation is never left to itself: its goroutine has a step to take, one
\* that it knows and can decide whatever has become of the node's record, unless that
\* goroutine could not load it, or its end, the failure of its start or its interruption
\* could not be saved (activateExecution, runOperation, finishOperation,
\* RecoverInterruptedOperations).
THEOREM NobodyForgotten == Spec => []WaitsForSomebody
<1>1. Init => Manned /\ Referring
  BY DEF Init, NoOp, Manned, Referring
<1> QED
  BY <1>1, NextManned, MannedWaits, Invariance, PTL DEF Spec
=============================================================================
