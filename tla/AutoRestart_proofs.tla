-------------------------- MODULE AutoRestart_proofs --------------------------
(* Proofs about AutoRestart, for every set of names, processes, handlers   *)
(* and commands, every limit and every threshold.                          *)
EXTENDS AutoRestart, FiniteSetTheorems, TLAPS

\* Type correctness needs the bound of the failure count, which needs to know
\* when the count may reach the threshold, and the name of a busy goroutine.
Inv == TypeOK /\ FailsBelowThreshold /\ NamedWhenBusy

LEMMA InvInit == Init => Inv
BY FailThresholdAssumption
   DEF Init, Inv, TypeOK, FailsBelowThreshold, NamedWhenBusy, Untracked, Entry,
       FreshHistory, Absent, Idle, Routine, TrackedProcess, RestartHistory,
       ManagedProcess, ActorState, Pcs, StartPcs, Actors

-----------------------------------------------------------------------------
(* What the helpers do to a goroutine.                                     *)

LEMMA GotoType ==
    ASSUME TypeOK, NEW a \in Actors, NEW pc \in Pcs, Goto(a, pc)
    PROVE  actor' \in [Actors -> ActorState]
<1>1. actor \in [Actors -> ActorState]
  BY DEF TypeOK
<1>2. [actor[a] EXCEPT !.pc = pc] \in ActorState
  BY <1>1 DEF ActorState
<1>3. actor' = [actor EXCEPT ![a] = [actor[a] EXCEPT !.pc = pc]]
  BY <1>1 DEF Goto
<1> QED
  BY <1>1, <1>2, <1>3

LEMMA IdleType == Idle \in ActorState
BY DEF Idle, Routine, ActorState, Pcs

LEMMA FinishType ==
    ASSUME TypeOK, NEW a \in Actors, Finish(a)
    PROVE  actor' \in [Actors -> ActorState]
BY IdleType DEF TypeOK, Finish

LEMMA SpawnType ==
    ASSUME TypeOK, NEW a \in Actors, NEW pc \in Pcs,
           NEW kind \in {"crash", "start", "stop", "restart", "refresh"},
           NEW n \in Names \cup {NoName}, NEW flag \in BOOLEAN, NEW todo \in SUBSET Names,
           Spawn(a, kind, n, flag, todo, pc)
    PROVE  actor' \in [Actors -> ActorState]
BY DEF TypeOK, Spawn, Routine, ActorState

LEMMA NamedIfMoved ==
    ASSUME TypeOK, NamedWhenBusy, NEW a \in Actors,
           actor' \in [Actors -> ActorState],
           \A b \in Actors \ {a} : actor'[b] = actor[b],
           \/ actor'[a].name \in Names
           \/ actor'[a].pc \in {"idle", "replace", "resolve"}
    PROVE  NamedWhenBusy'
BY DEF NamedWhenBusy

LEMMA SpawnInv ==
    ASSUME Inv, NEW h \in Handlers, NEW n \in Names, NEW flag \in BOOLEAN,
           Spawn(h, "crash", n, flag, {}, "should")
    PROVE  /\ actor' \in [Actors -> ActorState]
           /\ NamedWhenBusy'
<1>1. h \in Actors /\ "should" \in Pcs /\ {} \in SUBSET Names
  BY DEF Actors, Pcs
<1>2. actor' \in [Actors -> ActorState]
  BY <1>1, SpawnType DEF Inv
<1>3. actor'[h].name = n /\ \A b \in Actors \ {h} : actor'[b] = actor[b]
  BY <1>1 DEF Inv, TypeOK, Spawn, Routine
<1> QED
  BY <1>1, <1>2, <1>3, NamedIfMoved DEF Inv

LEMMA MonitorInv ==
    ASSUME Inv, NEW n \in Names, MonitorCheck(n)
    PROVE  Inv'
<1>1. CASE CheckHealthy(n)
  BY <1>1, FailThresholdAssumption
     DEF CheckHealthy, Inv, FailsBelowThreshold, NamedWhenBusy, TypeOK, TrackedProcess, IsTracked
<1>2. CASE CheckFailed(n)
  <2>1. tracked \in [Names -> TrackedProcess] /\ tracked[n] \in TrackedProcess
    BY DEF Inv, TypeOK
  <2>2. /\ tracked' = [tracked EXCEPT ![n] = [tracked[n] EXCEPT !.consecutiveFails = tracked[n].consecutiveFails + 1]]
        /\ tracked[n].consecutiveFails + 1 < FailThreshold
        /\ UNCHANGED <<enabled, history, processes, alive, actor, stopped>>
    BY <1>2, <2>1 DEF CheckFailed
  <2>3. tracked[n].consecutiveFails + 1 \in 0 .. FailThreshold
    BY <2>1, <2>2, FailThresholdAssumption DEF TrackedProcess
  <2>4. /\ tracked'[n] \in TrackedProcess /\ tracked'[n].consecutiveFails < FailThreshold
        /\ \A m \in Names \ {n} : tracked'[m] = tracked[m]
        /\ tracked' \in [Names -> TrackedProcess]
    BY <2>1, <2>2, <2>3 DEF TrackedProcess
  <2>5. FailsBelowThreshold'
    BY <2>4 DEF Inv, FailsBelowThreshold
  <2> QED
    BY <2>2, <2>4, <2>5 DEF Inv, TypeOK, NamedWhenBusy
<1>3. ASSUME NEW h \in Handlers, TriggerAutoStart(n, h)
      PROVE  Inv'
  <2>1. tracked[n].manuallyStopped \in BOOLEAN
    BY DEF Inv, TypeOK, TrackedProcess
  <2>2. Spawn(h, "crash", n, tracked[n].manuallyStopped, {}, "should")
    BY <1>3 DEF TriggerAutoStart
  <2>3. actor' \in [Actors -> ActorState] /\ NamedWhenBusy'
    BY <2>1, <2>2, SpawnInv
  <2>4. tracked' \in [Names -> TrackedProcess] /\ FailsBelowThreshold'
    <3>1. tracked' = [tracked EXCEPT ![n] = [tracked[n] EXCEPT !.restarting = TRUE]]
      BY <1>3 DEF TriggerAutoStart, Inv, TypeOK
    <3>2. tracked[n] \in TrackedProcess /\ tracked \in [Names -> TrackedProcess]
      BY DEF Inv, TypeOK
    <3>3. /\ [tracked[n] EXCEPT !.restarting = TRUE] \in TrackedProcess
          /\ [tracked[n] EXCEPT !.restarting = TRUE].restarting
      BY <3>2 DEF TrackedProcess
    <3>4. tracked' \in [Names -> TrackedProcess] /\ tracked'[n].restarting /\ \A m \in Names \ {n} : tracked'[m] = tracked[m]
      BY <3>1, <3>2, <3>3
    <3> QED
      BY <3>4 DEF Inv, FailsBelowThreshold
  <2> QED
    BY <1>3, <2>3, <2>4 DEF TriggerAutoStart, Inv, TypeOK
<1>4. ASSUME NEW h \in Handlers, CheckCrashed(n, h)
      PROVE  Inv'
  <2>1. Spawn(h, "crash", n, FALSE, {}, "should")
    BY <1>4 DEF CheckCrashed
  <2>2. actor' \in [Actors -> ActorState] /\ NamedWhenBusy'
    BY <2>1, SpawnInv
  <2>3. tracked' \in [Names -> TrackedProcess] /\ FailsBelowThreshold'
    BY <1>4, FailThresholdAssumption
       DEF CheckCrashed, Dead, Inv, TypeOK, TrackedProcess, FailsBelowThreshold
  <2> QED
    BY <1>4, <2>2, <2>3 DEF CheckCrashed, Inv, TypeOK
<1> QED
  BY <1>1, <1>2, <1>3, <1>4 DEF MonitorCheck

LEMMA MovedInv ==
    ASSUME Inv, NEW a \in Actors, NEW pc \in Pcs, actor[a].pc # "resolve",
           actor[a].pc # "idle", actor[a].pc # "replace",
           Goto(a, pc) \/ Finish(a)
    PROVE  /\ actor' \in [Actors -> ActorState]
           /\ NamedWhenBusy'
<1>1. actor' \in [Actors -> ActorState]
  BY GotoType, FinishType DEF Inv
<1>2. \A b \in Actors \ {a} : actor'[b] = actor[b]
  BY DEF Inv, TypeOK, Goto, Finish
<1>3. actor'[a].name \in Names \/ actor'[a].pc = "idle"
  BY DEF Inv, TypeOK, Goto, Finish, Idle, Routine, NamedWhenBusy, ActorState
<1> QED
  BY <1>1, <1>2, <1>3, NamedIfMoved DEF Inv

LEMMA HandlerInv ==
    ASSUME Inv, NEW h \in Handlers, HandlerStep(h)
    PROVE  Inv'
<1> DEFINE n == actor[h].name
<1>0. h \in Actors
  BY DEF Actors
<1>1. actor[h].pc \notin {"idle", "replace", "resolve"} /\ n \in Names
  BY <1>0 DEF HandlerStep, Refused, Granted, Wake, RecordRestart, UpdateProcessPID, Inv, NamedWhenBusy
<1>2. \E pc \in Pcs : Goto(h, pc) \/ Finish(h)
  BY DEF HandlerStep, Refused, Granted, Wake, RecordRestart, UpdateProcessPID, Pcs, StartPcs
<1>3. actor' \in [Actors -> ActorState] /\ NamedWhenBusy'
  BY <1>0, <1>1, <1>2, MovedInv
<1>4. history' \in [Names -> RestartHistory]
  <2>1. CASE RecordRestart(h)
    <3>1. history[n].recent + 1 \in Nat /\ history[n].cooldown \in {"none", "running", "passed"}
      BY <1>1 DEF Inv, TypeOK, RestartHistory
    <3> QED
      BY <1>1, <2>1, <3>1 DEF RecordRestart, Inv, TypeOK, RestartHistory
  <2>2. CASE Refused(h)
    BY <1>1, <2>2 DEF Refused, Inv, TypeOK, RestartHistory
  <2>3. CASE Granted(h)
    BY <1>1, <2>3 DEF Granted, Inv, TypeOK, RestartHistory, FreshHistory
  <2>4. CASE UNCHANGED history
    BY <2>4 DEF Inv, TypeOK
  <2> QED
    BY <2>1, <2>2, <2>3, <2>4 DEF HandlerStep, Wake, UpdateProcessPID
<1>5. tracked' \in [Names -> TrackedProcess] /\ FailsBelowThreshold'
  <2>1. CASE UpdateProcessPID(h)
    <3>1. actor[h].pid \in Pids \cup {NoPid}
      BY <1>0 DEF Inv, TypeOK, ActorState
    <3> DEFINE u == Entry("tracked", actor[h].pid, tracked[n].manuallyStopped)
    <3>2. tracked' = [tracked EXCEPT ![n] = u] \/ UNCHANGED tracked
      BY <2>1 DEF UpdateProcessPID
    <3>3. u \in TrackedProcess /\ u.consecutiveFails = 0
      BY <1>1, <3>1, FailThresholdAssumption DEF Entry, Inv, TypeOK, TrackedProcess
    <3> HIDE DEF u
    <3>4. tracked' \in [Names -> TrackedProcess]
      BY <1>1, <3>2, <3>3 DEF Inv, TypeOK
    <3>5. FailsBelowThreshold'
      BY <1>1, <3>2, <3>3, FailThresholdAssumption DEF Inv, TypeOK, FailsBelowThreshold
    <3> QED
      BY <3>4, <3>5
  <2>2. CASE UNCHANGED tracked
    BY <2>2 DEF Inv, TypeOK, FailsBelowThreshold
  <2> QED
    BY <2>1, <2>2 DEF HandlerStep, Refused, Granted, Wake, RecordRestart
<1>6. UNCHANGED <<enabled, processes, alive, stopped>>
  BY DEF HandlerStep, Refused, Granted, Wake, RecordRestart, UpdateProcessPID
<1> QED
  BY <1>3, <1>4, <1>5, <1>6 DEF Inv, TypeOK

LEMMA StartInv ==
    ASSUME Inv, NEW a \in Actors, StartStep(a)
    PROVE  Inv'
<1> DEFINE n == actor[a].name
<1>1. actor[a].pc \notin {"idle", "replace", "resolve"} /\ n \in Names
  BY DEF StartStep, StartRefused, StartAllowed, StartInvalid, StoreStarting, ScriptFails,
         ScriptSpawns, FindSucceeds, FindFails, ReadStatus, Inv, NamedWhenBusy
<1>2. UNCHANGED <<enabled, tracked, history, stopped>>
  BY DEF StartStep, StartRefused, StartAllowed, StartInvalid, StoreStarting, ScriptFails,
         ScriptSpawns, FindSucceeds, FindFails, ReadStatus
<1>3. actor' \in [Actors -> ActorState] /\ NamedWhenBusy'
  <2>1. CASE StartRefused(a) \/ StartAllowed(a) \/ StoreStarting(a) \/ ScriptSpawns(a)
    <3>1. \E pc \in Pcs : Goto(a, pc) \/ Finish(a)
      BY <2>1 DEF StartRefused, StartAllowed, StoreStarting, ScriptSpawns, Pcs, StartPcs
    <3> QED
      BY <1>1, <3>1, MovedInv
  <2>2. ASSUME NEW ok \in BOOLEAN, AfterStart(a, ok)
        PROVE  actor' \in [Actors -> ActorState] /\ NamedWhenBusy'
    <3>1. CASE a \in Handlers
      <4>1. actor' = [actor EXCEPT ![a] = [@ EXCEPT !.pc = "record", !.ok = ok]]
        BY <2>2, <3>1 DEF AfterStart
      <4>2. [actor[a] EXCEPT !.pc = "record", !.ok = ok] \in ActorState
        <5>1. actor[a] \in ActorState /\ "record" \in Pcs
          BY DEF Inv, TypeOK, Pcs
        <5> QED
          BY <5>1 DEF ActorState
      <4>3. actor' \in [Actors -> ActorState]
        BY <4>1, <4>2 DEF Inv, TypeOK
      <4>4. actor'[a].name \in Names /\ \A b \in Actors \ {a} : actor'[b] = actor[b]
        BY <1>1, <4>1 DEF Inv, TypeOK, ActorState
      <4> QED
        BY <4>3, <4>4, NamedIfMoved DEF Inv
    <3>2. CASE a \notin Handlers
      <4>1. Goto(a, "status") \/ Finish(a)
        BY <2>2, <3>2 DEF AfterStart
      <4> QED
        BY <1>1, <4>1, MovedInv DEF Pcs
    <3> QED
      BY <3>1, <3>2
  <2>3. CASE ReadStatus(a)
    <3>1. CASE Finish(a)
      BY <1>1, <3>1, MovedInv DEF Pcs
    <3>2. CASE actor' = [actor EXCEPT ![a].pc = "update", ![a].pid = processes[n].pid]
      <4>1. processes[n].pid \in Pids \cup {NoPid}
        BY <1>1 DEF Inv, TypeOK, ManagedProcess
      <4>2. [actor[a] EXCEPT !.pc = "update", !.pid = processes[n].pid] \in ActorState
        <5>1. actor[a] \in ActorState /\ "update" \in Pcs
          BY DEF Inv, TypeOK, Pcs
        <5> QED
          BY <4>1, <5>1 DEF ActorState
      <4>3. actor' \in [Actors -> ActorState]
        BY <3>2, <4>2 DEF Inv, TypeOK
      <4>4. actor'[a].name \in Names /\ \A b \in Actors \ {a} : actor'[b] = actor[b]
        BY <1>1, <3>2 DEF Inv, TypeOK, ActorState
      <4> QED
        BY <4>3, <4>4, NamedIfMoved DEF Inv
    <3> QED
      BY <2>3, <3>1, <3>2 DEF ReadStatus
  <2> QED
    BY <2>1, <2>2, <2>3 DEF StartStep, StartInvalid, ScriptFails, FindSucceeds, FindFails
<1>4. processes' \in [Names -> ManagedProcess]
  <2>1. CASE StoreStarting(a)
    BY <1>1, <2>1 DEF StoreStarting, Inv, TypeOK, ManagedProcess
  <2>2. ASSUME NEW status \in {"running", "error"}, NEW p \in Pids \cup {NoPid}, SetOwned(a, status, p)
        PROVE  processes' \in [Names -> ManagedProcess]
    <3>1. processes[n] \in ManagedProcess
      BY <1>1 DEF Inv, TypeOK
    <3>2. [processes[n] EXCEPT !.status = status, !.pid = p] \in ManagedProcess
      BY <3>1 DEF ManagedProcess
    <3>3. \/ processes' = [processes EXCEPT ![n] = [@ EXCEPT !.status = status, !.pid = p]]
          \/ UNCHANGED processes
      BY <2>2 DEF SetOwned
    <3> QED
      BY <1>1, <3>2, <3>3 DEF Inv, TypeOK
  <2>3. CASE ReadStatus(a)
    <3>1. processes[n] \in ManagedProcess
      BY <1>1 DEF Inv, TypeOK
    <3>2. [processes[n] EXCEPT !.status = "stopped"] \in ManagedProcess
      BY <3>1 DEF ManagedProcess
    <3>3. \/ processes' = [processes EXCEPT ![n] = [@ EXCEPT !.status = "stopped"]]
          \/ UNCHANGED processes
      BY <2>3 DEF ReadStatus
    <3> QED
      BY <1>1, <3>2, <3>3 DEF Inv, TypeOK
  <2>4. CASE FindSucceeds(a)
    BY <1>1, <2>2, <2>4 DEF FindSucceeds, Inv, TypeOK
  <2>5. CASE ScriptFails(a) \/ FindFails(a)
    <3>1. processes[n].pid \in Pids \cup {NoPid}
      BY <1>1 DEF Inv, TypeOK, ManagedProcess
    <3> QED
      BY <2>2, <2>5, <3>1 DEF ScriptFails, FindFails
  <2>6. CASE UNCHANGED processes
    BY <2>6 DEF Inv, TypeOK
  <2> QED
    BY <2>1, <2>3, <2>4, <2>5, <2>6
       DEF StartStep, StartRefused, StartAllowed, StartInvalid, ScriptSpawns
<1>5. alive' \in [Names -> SUBSET Pids]
  <2>1. CASE ScriptSpawns(a)
    <3>1. PICK p \in Pids : alive' = [alive EXCEPT ![n] = @ \cup {p}]
      BY <2>1 DEF ScriptSpawns
    <3>2. alive[n] \cup {p} \in SUBSET Pids
      BY <1>1 DEF Inv, TypeOK
    <3> QED
      BY <1>1, <3>1, <3>2 DEF Inv, TypeOK
  <2>2. CASE UNCHANGED alive
    BY <2>2 DEF Inv, TypeOK
  <2> QED
    BY <2>1, <2>2 DEF StartStep, StartRefused, StartAllowed, StartInvalid, StoreStarting,
         ScriptFails, FindSucceeds, FindFails, ReadStatus
<1> QED
  BY <1>2, <1>3, <1>4, <1>5 DEF Inv, TypeOK, FailsBelowThreshold

LEMMA TrackType ==
    ASSUME Inv, NEW n \in Names, NEW pid \in Pids \cup {NoPid}, Track(n, pid)
    PROVE  tracked' \in [Names -> TrackedProcess] /\ FailsBelowThreshold'
<1>1. Entry("tracked", pid, FALSE) \in TrackedProcess
  BY FailThresholdAssumption DEF Entry, TrackedProcess
<1>2. Entry("tracked", pid, FALSE).consecutiveFails = 0
  BY DEF Entry
<1>3. QED
  <2> DEFINE e == Entry("tracked", pid, FALSE)
  <2> HIDE DEF e
  <2>1. tracked' = [tracked EXCEPT ![n] = e]
    BY DEF Track, e
  <2>2. e \in TrackedProcess /\ e.consecutiveFails = 0
    BY <1>1, <1>2 DEF e
  <2>3. tracked' \in [Names -> TrackedProcess]
    BY <2>1, <2>2 DEF Inv, TypeOK
  <2>4. FailsBelowThreshold'
    BY <2>1, <2>2, FailThresholdAssumption DEF Inv, TypeOK, FailsBelowThreshold
  <2> QED
    BY <2>3, <2>4

LEMMA StopInv ==
    ASSUME Inv, NEW c \in Commands,
           ListProcesses(c) \/ ListFails(c) \/ Kill(c) \/ Settle(c)
    PROVE  Inv'
<1> DEFINE n == actor[c].name
<1>0. c \in Actors
  BY DEF Actors
<1>1. actor[c].pc \notin {"idle", "replace", "resolve"} /\ n \in Names
  BY <1>0 DEF ListProcesses, ListFails, Kill, Settle, Inv, NamedWhenBusy
<1>2. UNCHANGED <<enabled, tracked, history, stopped>>
  BY DEF ListProcesses, ListFails, Kill, Settle
<1>3. actor[c] \in ActorState /\ alive[n] \in SUBSET Pids
  BY <1>0, <1>1 DEF Inv, TypeOK
<1>4. actor' \in [Actors -> ActorState] /\ NamedWhenBusy'
  <2>1. CASE ListProcesses(c)
    <3> DEFINE pc == IF alive[n] = {} THEN "settle" ELSE "kill"
               r  == [actor[c] EXCEPT !.pids = alive[n], !.pc = pc]
    <3>1. r \in ActorState /\ r.name = n
      <4>1. pc \in Pcs
        BY DEF Pcs
      <4> HIDE DEF pc
      <4> QED
        BY <1>3, <4>1 DEF ActorState
    <3>2. actor' = [actor EXCEPT ![c] = r]
      BY <2>1 DEF ListProcesses
    <3> QED
      BY <1>0, <1>1, <3>1, <3>2, NamedIfMoved DEF Inv, TypeOK
  <2>2. CASE Kill(c)
    <3> DEFINE r == [actor[c] EXCEPT !.pc = "settle", !.pids = {}]
    <3>1. r \in ActorState /\ r.name = n
      BY <1>3 DEF ActorState, Pcs
    <3>2. actor' = [actor EXCEPT ![c] = r]
      BY <2>2 DEF Kill
    <3> QED
      BY <1>0, <1>1, <3>1, <3>2, NamedIfMoved DEF Inv, TypeOK
  <2>3. CASE ListFails(c) \/ Settle(c)
    <3>1. \E pc \in Pcs : Goto(c, pc) \/ Finish(c)
      BY <2>3 DEF ListFails, Settle, AfterStop, Pcs, StartPcs
    <3> QED
      BY <1>0, <1>1, <3>1, MovedInv
  <2> QED
    BY <2>1, <2>2, <2>3
<1>5. processes' \in [Names -> ManagedProcess]
  <2>1. [processes[n] EXCEPT !.status = "stopped", !.pid = NoPid] \in ManagedProcess
    <3>1. processes[n] \in ManagedProcess
      BY <1>1 DEF Inv, TypeOK
    <3> QED
      BY <3>1 DEF ManagedProcess
  <2>2. \/ processes' = [processes EXCEPT ![n] = [@ EXCEPT !.status = "stopped", !.pid = NoPid]]
        \/ UNCHANGED processes
    BY DEF ListProcesses, ListFails, Kill, Settle
  <2> QED
    BY <1>1, <2>1, <2>2 DEF Inv, TypeOK
<1>6. alive' \in [Names -> SUBSET Pids]
  <2>1. alive' = [alive EXCEPT ![n] = @ \ actor[c].pids] \/ UNCHANGED alive
    BY DEF ListProcesses, ListFails, Kill, Settle
  <2> QED
    BY <1>1, <1>3, <2>1 DEF Inv, TypeOK
<1> QED
  BY <1>2, <1>4, <1>5, <1>6 DEF Inv, TypeOK, FailsBelowThreshold

LEMMA TrackingInv ==
    ASSUME Inv, NEW c \in Commands,
           \/ MarkManuallyStopped(c) \/ ClearManuallyStopped(c) \/ UntrackProcess(c)
           \/ RegisterForAutoStart(c) \/ ResetRestartCount(c) \/ TrackStarted(c)
    PROVE  Inv'
<1> DEFINE n == actor[c].name
<1>0. c \in Actors
  BY DEF Actors
<1>1. actor[c].pc \notin {"idle", "replace", "resolve"} /\ n \in Names
  BY <1>0 DEF MarkManuallyStopped, ClearManuallyStopped, UntrackProcess, RegisterForAutoStart,
         ResetRestartCount, TrackStarted, Inv, NamedWhenBusy
<1>2. UNCHANGED <<enabled, processes, alive>>
  BY DEF MarkManuallyStopped, ClearManuallyStopped, UntrackProcess, RegisterForAutoStart,
         ResetRestartCount, TrackStarted
<1>3. actor' \in [Actors -> ActorState] /\ NamedWhenBusy'
  <2>1. \E pc \in Pcs : Goto(c, pc) \/ Finish(c)
    BY DEF MarkManuallyStopped, ClearManuallyStopped, UntrackProcess, RegisterForAutoStart,
           ResetRestartCount, TrackStarted, Pcs, StartPcs
  <2> QED
    BY <1>0, <1>1, <2>1, MovedInv
<1>4. tracked' \in [Names -> TrackedProcess] /\ FailsBelowThreshold'
  <2>0. tracked[n] \in TrackedProcess
    BY <1>1 DEF Inv, TypeOK
  <2>1. CASE MarkManuallyStopped(c)
    <3> DEFINE e == Entry("tracked", tracked[n].pid, TRUE)
    <3>1. tracked' = [tracked EXCEPT ![n] = e] \/ UNCHANGED tracked
      BY <2>1 DEF MarkManuallyStopped
    <3>2. e \in TrackedProcess /\ e.consecutiveFails = 0
      BY <2>0, FailThresholdAssumption DEF Entry, TrackedProcess
    <3> HIDE DEF e
    <3>3. tracked' \in [Names -> TrackedProcess]
      BY <1>1, <3>1, <3>2 DEF Inv, TypeOK
    <3>4. FailsBelowThreshold'
      BY <1>1, <3>1, <3>2, FailThresholdAssumption DEF Inv, TypeOK, FailsBelowThreshold
    <3> QED
      BY <3>3, <3>4
  <2>2. CASE ClearManuallyStopped(c)
    <3> DEFINE e == [tracked[n] EXCEPT !.manuallyStopped = FALSE]
    <3>1. tracked' = [tracked EXCEPT ![n] = e] \/ UNCHANGED tracked
      BY <1>1, <2>2 DEF ClearManuallyStopped, Inv, TypeOK
    <3>2. /\ e \in TrackedProcess
          /\ e.consecutiveFails = tracked[n].consecutiveFails /\ e.restarting = tracked[n].restarting
      BY <2>0 DEF TrackedProcess
    <3> HIDE DEF e
    <3>3. tracked' \in [Names -> TrackedProcess]
      BY <1>1, <3>1, <3>2 DEF Inv, TypeOK
    <3>4. FailsBelowThreshold'
      BY <1>1, <3>1, <3>2 DEF Inv, TypeOK, FailsBelowThreshold
    <3> QED
      BY <3>3, <3>4
  <2>3. CASE UntrackProcess(c)
    BY <1>1, <2>3, FailThresholdAssumption
       DEF UntrackProcess, Untracked, Entry, Inv, TypeOK, TrackedProcess, FailsBelowThreshold
  <2>4. CASE RegisterForAutoStart(c)
    BY <1>1, <2>4, TrackType DEF RegisterForAutoStart
  <2>5. CASE TrackStarted(c)
    <3>1. actor[c].pid \in Pids \cup {NoPid}
      BY <1>0 DEF Inv, TypeOK, ActorState
    <3> QED
      BY <1>1, <2>5, <3>1, TrackType DEF TrackStarted
  <2>6. CASE UNCHANGED tracked
    BY <2>6 DEF Inv, TypeOK, FailsBelowThreshold
  <2> QED
    BY <2>1, <2>2, <2>3, <2>4, <2>5, <2>6 DEF ResetRestartCount
<1>5. history' \in [Names -> RestartHistory]
  <2>1. FreshHistory \in RestartHistory
    BY DEF FreshHistory, RestartHistory
  <2>2. history' = [history EXCEPT ![n] = FreshHistory] \/ UNCHANGED history
    BY DEF MarkManuallyStopped, ClearManuallyStopped, UntrackProcess, RegisterForAutoStart,
           ResetRestartCount, TrackStarted
  <2> QED
    BY <1>1, <2>1, <2>2 DEF Inv, TypeOK
<1>6. stopped' \in [Names -> BOOLEAN]
  BY <1>1 DEF MarkManuallyStopped, ClearManuallyStopped, UntrackProcess, RegisterForAutoStart,
         ResetRestartCount, TrackStarted, Inv, TypeOK
<1> QED
  BY <1>2, <1>3, <1>4, <1>5, <1>6 DEF Inv, TypeOK

LEMMA RefreshInv ==
    ASSUME Inv, NEW c \in Commands, UntrackStale(c) \/ ResolvePid(c) \/ Retrack(c)
    PROVE  Inv'
<1>0. c \in Actors /\ actor[c] \in ActorState
  BY DEF Actors, Inv, TypeOK
<1>1. CASE UntrackStale(c)
  <2>1. Untracked \in TrackedProcess /\ Untracked.consecutiveFails = 0
    BY FailThresholdAssumption DEF Untracked, Entry, TrackedProcess
  <2>2. tracked' = [n \in Names |-> IF n \in actor[c].todo THEN tracked[n] ELSE Untracked]
    BY <1>1 DEF UntrackStale
  <2>3. tracked' \in [Names -> TrackedProcess] /\ FailsBelowThreshold'
    BY <2>1, <2>2, FailThresholdAssumption DEF Inv, TypeOK, FailsBelowThreshold
  <2>4. Goto(c, "resolve") \/ Finish(c)
    BY <1>1 DEF UntrackStale
  <2>5. actor' \in [Actors -> ActorState]
    BY <1>0, <2>4, GotoType, FinishType DEF Inv, Pcs
  <2>6. actor'[c].pc \in {"idle", "resolve"} /\ \A b \in Actors \ {c} : actor'[b] = actor[b]
    BY <1>0, <2>4 DEF Goto, Finish, Idle, Routine, Inv, TypeOK, ActorState
  <2> QED
    BY <1>0, <1>1, <2>3, <2>5, <2>6, NamedIfMoved DEF UntrackStale, Inv, TypeOK
<1>2. CASE ResolvePid(c)
  <2>1. PICK n \in actor[c].todo, configured \in Pids \cup {NoPid} :
          \E p \in ResolvedPids(n, configured) :
            actor' = [actor EXCEPT ![c].pc = "retrack", ![c].name = n, ![c].pid = p]
    BY <1>2 DEF ResolvePid
  <2>2. PICK p \in ResolvedPids(n, configured) :
          actor' = [actor EXCEPT ![c] = [@ EXCEPT !.pc = "retrack", !.name = n, !.pid = p]]
    BY <2>1
  <2>3. n \in Names
    BY <1>0 DEF ActorState
  <2>4. p \in Pids \cup {NoPid}
    <3>1. alive[n] \subseteq Pids /\ tracked[n].pid \in Pids \cup {NoPid}
      BY <2>3 DEF Inv, TypeOK, TrackedProcess
    <3> QED
      BY <2>2, <3>1 DEF ResolvedPids
  <2> DEFINE r == [actor[c] EXCEPT !.pc = "retrack", !.name = n, !.pid = p]
  <2>5. r \in ActorState /\ r.name = n
    BY <1>0, <2>3, <2>4 DEF ActorState, Pcs
  <2>6. actor' = [actor EXCEPT ![c] = r]
    BY <2>2
  <2> HIDE DEF r
  <2>7. actor' \in [Actors -> ActorState] /\ NamedWhenBusy'
    BY <1>0, <2>3, <2>5, <2>6, NamedIfMoved DEF Inv, TypeOK
  <2> QED
    BY <1>2, <2>7 DEF ResolvePid, Inv, TypeOK, FailsBelowThreshold
<1>3. CASE Retrack(c)
  <2> DEFINE rest == actor[c].todo \ {actor[c].name}
             r == IF rest = {} THEN Idle
                  ELSE Routine("resolve", "refresh", NoName, actor[c].flag, rest)
  <2>1. actor[c].name \in Names
    BY <1>0, <1>3 DEF Retrack, Inv, NamedWhenBusy
  <2>2. actor[c].pid \in Pids \cup {NoPid} /\ actor[c].flag \in BOOLEAN /\ rest \in SUBSET Names
    BY <1>0 DEF ActorState
  <2>3. tracked' \in [Names -> TrackedProcess] /\ FailsBelowThreshold'
    <3>1. CASE Track(actor[c].name, actor[c].pid)
      BY <2>1, <2>2, <3>1, TrackType
    <3>2. CASE UNCHANGED tracked
      BY <3>2 DEF Inv, TypeOK, FailsBelowThreshold
    <3> QED
      BY <1>3, <3>1, <3>2 DEF Retrack
  <2>4. r \in ActorState /\ r.pc \in {"idle", "resolve"}
    <3>1. Routine("resolve", "refresh", NoName, actor[c].flag, rest) \in ActorState
      BY <2>2 DEF Routine, ActorState, Pcs
    <3> QED
      BY <3>1, IdleType DEF Idle, Routine
  <2>5. actor' = [actor EXCEPT ![c] = r]
    BY <1>3 DEF Retrack
  <2> HIDE DEF r
  <2>6. actor' \in [Actors -> ActorState] /\ NamedWhenBusy'
    BY <1>0, <2>4, <2>5, NamedIfMoved DEF Inv, TypeOK
  <2> QED
    BY <1>3, <2>3, <2>6 DEF Retrack, Inv, TypeOK
<1> QED
  BY <1>1, <1>2, <1>3

LEMMA BeginInv ==
    ASSUME Inv, NEW c \in Commands, BeginCommand(c)
    PROVE  Inv'
<1>0. c \in Actors
  BY DEF Actors
<1>1. ASSUME NEW n \in Names, BeginStart(c, n) \/ BeginStop(c, n) \/ BeginRestart(c, n)
      PROVE  Inv'
  <2>1. PICK kind \in {"start", "stop", "restart"}, pc \in {"register", "check", "mark", "list"} :
            Spawn(c, kind, n, enabled, {}, pc)
    BY <1>1 DEF BeginStart, BeginStop, BeginRestart
  <2>2. enabled \in BOOLEAN /\ pc \in Pcs
    BY DEF Inv, TypeOK, Pcs, StartPcs
  <2>3. actor' \in [Actors -> ActorState]
    BY <1>0, <2>1, <2>2, SpawnType DEF Inv
  <2>4. actor'[c].name = n /\ \A b \in Actors \ {c} : actor'[b] = actor[b]
    BY <1>0, <2>1 DEF Spawn, Routine, Inv, TypeOK
  <2>5. NamedWhenBusy'
    BY <1>0, <2>3, <2>4, NamedIfMoved DEF Inv
  <2>6. stopped' \in [Names -> BOOLEAN]
    BY <1>1 DEF BeginStart, BeginStop, BeginRestart, Inv, TypeOK
  <2> QED
    BY <1>1, <2>3, <2>5, <2>6
       DEF BeginStart, BeginStop, BeginRestart, Inv, TypeOK, FailsBelowThreshold
<1>2. ASSUME NEW e \in BOOLEAN, NEW monitor \in BOOLEAN, NEW listed \in SUBSET Names,
             BeginRefresh(c, e, listed, monitor)
      PROVE  Inv'
  <2>1. PICK todo \in SUBSET Names : Spawn(c, "refresh", NoName, e, todo, "replace")
    BY <1>2 DEF BeginRefresh
  <2>2. actor' \in [Actors -> ActorState]
    BY <1>0, <2>1, SpawnType DEF Inv, Pcs
  <2>3. actor'[c].pc = "replace" /\ \A b \in Actors \ {c} : actor'[b] = actor[b]
    BY <1>0, <2>1 DEF Spawn, Routine, Inv, TypeOK
  <2>4. NamedWhenBusy'
    BY <1>0, <2>2, <2>3, NamedIfMoved DEF Inv
  <2> QED
    BY <1>2, <2>2, <2>4 DEF BeginRefresh, Inv, TypeOK, FailsBelowThreshold
<1> QED
  BY <1>1, <1>2 DEF BeginCommand

LEMMA EnvironmentInv ==
    ASSUME Inv, NEW n \in Names,
           WindowSlides(n) \/ CooldownPasses(n) \/ ManagerNotices(n) \/ ProcessDies(n)
    PROVE  Inv'
<1>1. UNCHANGED <<enabled, tracked, actor, stopped>>
  BY DEF WindowSlides, CooldownPasses, ManagerNotices, ProcessDies
<1>2. history[n] \in RestartHistory /\ processes[n] \in ManagedProcess
  BY DEF Inv, TypeOK
<1>3. history' \in [Names -> RestartHistory]
  <2>1. CASE WindowSlides(n)
    <3>1. history[n].recent - 1 \in Nat
      BY <1>2, <2>1 DEF WindowSlides, RestartHistory
    <3>2. [history[n] EXCEPT !.recent = history[n].recent - 1] \in RestartHistory
      BY <1>2, <3>1 DEF RestartHistory
    <3> QED
      BY <2>1, <3>2 DEF WindowSlides, Inv, TypeOK
  <2>2. CASE CooldownPasses(n)
    <3>1. [history[n] EXCEPT !.cooldown = "passed"] \in RestartHistory
      BY <1>2 DEF RestartHistory
    <3> QED
      BY <2>2, <3>1 DEF CooldownPasses, Inv, TypeOK
  <2>3. CASE UNCHANGED history
    BY <2>3 DEF Inv, TypeOK
  <2> QED
    BY <2>1, <2>2, <2>3 DEF ManagerNotices, ProcessDies
<1>4. processes' \in [Names -> ManagedProcess]
  <2>1. CASE ManagerNotices(n)
    <3>1. PICK p \in {processes[n].pid, NoPid} :
              processes' = [processes EXCEPT ![n] = [@ EXCEPT !.status = "stopped", !.pid = p]]
      BY <2>1 DEF ManagerNotices
    <3>2. [processes[n] EXCEPT !.status = "stopped", !.pid = p] \in ManagedProcess
      BY <1>2 DEF ManagedProcess
    <3> QED
      BY <3>1, <3>2 DEF Inv, TypeOK
  <2>2. CASE UNCHANGED processes
    BY <2>2 DEF Inv, TypeOK
  <2> QED
    BY <2>1, <2>2 DEF WindowSlides, CooldownPasses, ProcessDies
<1>5. alive' \in [Names -> SUBSET Pids]
  BY DEF WindowSlides, CooldownPasses, ManagerNotices, ProcessDies, Inv, TypeOK
<1> QED
  BY <1>1, <1>3, <1>4, <1>5 DEF Inv, TypeOK, FailsBelowThreshold, NamedWhenBusy

LEMMA RestartedInv == ASSUME Inv, AgentRestarts PROVE Inv'
BY FailThresholdAssumption, IdleType
   DEF AgentRestarts, Inv, TypeOK, FailsBelowThreshold, NamedWhenBusy, Untracked, Entry,
       FreshHistory, Absent, Idle, Routine, TrackedProcess, RestartHistory, ManagedProcess

LEMMA InvNext == Inv /\ [Next]_vars => Inv'
<1> SUFFICES ASSUME Inv, [Next]_vars PROVE Inv'
  OBVIOUS
<1>1. CASE UNCHANGED vars
  BY <1>1 DEF vars, Inv, TypeOK, FailsBelowThreshold, NamedWhenBusy
<1>2. ASSUME NEW c \in Commands, CommandStep(c) PROVE Inv'
  BY <1>2, StopInv, TrackingInv, RefreshInv DEF CommandStep
<1> QED
  BY <1>1, <1>2, MonitorInv, HandlerInv, StartInv, BeginInv, EnvironmentInv, RestartedInv
     DEF Next

LEMMA Invariance == Spec => []Inv
BY InvInit, InvNext, PTL DEF Spec

\* Every variable keeps its type, for every number of processes, handlers and
\* commands: the count of failed checks never passes the threshold and a busy
\* goroutine always works on a named process.
THEOREM TypeCorrect == Spec => []TypeOK
<1>1. Inv => TypeOK
  BY DEF Inv
<1> QED
  BY <1>1, Invariance, PTL

\* A process whose check is not guarded by restarting is below the threshold: no
\* interleaving of checks, marks, refreshes and restarts lets the monitor reach
\* it without starting a handler.
THEOREM FailuresCounted == Spec => []FailsBelowThreshold
<1>1. Inv => FailsBelowThreshold
  BY DEF Inv
<1> QED
  BY <1>1, Invariance, PTL

-----------------------------------------------------------------------------
(* What a step does to one crash handler.                                  *)

\* Past the decision: the handler has a process to start, or has started it.
Starting == StartPcs \cup {"sleep", "record"}

\* The handler goes on with the same process and the same copy of its mark.
GoesOn(h) ==
    /\ actor'[h].name = actor[h].name
    /\ actor'[h].flag = actor[h].flag
    /\ \/ actor[h].pc \in Starting
       \/ actor'[h].pc \notin Starting \cup {"should"}

\* A handler is started for a process that is not marked, or is told of the mark.
Triggered(h) ==
    /\ actor[h] = Idle
    /\ actor'[h].pc = "should"
    /\ actor'[h].name \in Names
    /\ tracked[actor'[h].name].manuallyStopped => actor'[h].flag

Moves(h) ==
    \/ actor'[h] = actor[h]
    \/ actor'[h] = Idle
    \/ GoesOn(h)
    \/ Triggered(h)
    \/ Granted(h)

LEMMA HandlersAreActors ==
    ASSUME NEW h \in Handlers
    PROVE  h \in Actors /\ h \notin Commands
BY ActorsAssumption DEF Actors

LEMMA OthersMove ==
    ASSUME TypeOK, NEW a \in Actors, NEW b \in Actors, a # b,
           \/ \E pc \in Pcs : Goto(a, pc)
           \/ Finish(a)
           \/ \E ok \in BOOLEAN : AfterStart(a, ok)
    PROVE  actor'[b] = actor[b]
<1>1. CASE \E pc \in Pcs : Goto(a, pc)
  BY <1>1 DEF Goto, TypeOK
<1>2. CASE Finish(a)
  BY <1>2 DEF Finish, TypeOK
<1>3. CASE \E ok \in BOOLEAN : AfterStart(a, ok)
  BY <1>3 DEF AfterStart, Goto, Finish, TypeOK
<1> QED
  BY <1>1, <1>2, <1>3

LEMMA MonitorMoves ==
    ASSUME Inv, NEW n \in Names, MonitorCheck(n), NEW h \in Handlers
    PROVE  Moves(h)
<1>1. CASE CheckHealthy(n) \/ CheckFailed(n)
  BY <1>1 DEF CheckHealthy, CheckFailed, Moves
<1>2. ASSUME NEW g \in Handlers, NEW flag \in BOOLEAN, Spawn(g, "crash", n, flag, {}, "should"),
             tracked[n].manuallyStopped => flag
      PROVE  Moves(h)
  <2>1. actor[g] = Idle /\ actor' = [actor EXCEPT ![g] = Routine("should", "crash", n, flag, {})]
    BY <1>2 DEF Spawn
  <2>2. actor' [h] = IF h = g THEN Routine("should", "crash", n, flag, {}) ELSE actor[h]
    BY <2>1, HandlersAreActors DEF Inv, TypeOK
  <2> QED
    BY <1>2, <2>1, <2>2 DEF Moves, Triggered, Routine
<1>3. ASSUME NEW g \in Handlers, TriggerAutoStart(n, g) PROVE Moves(h)
  <2>1. tracked[n].manuallyStopped \in BOOLEAN
    BY DEF Inv, TypeOK, TrackedProcess
  <2> QED
    BY <1>2, <1>3, <2>1 DEF TriggerAutoStart
<1>4. ASSUME NEW g \in Handlers, CheckCrashed(n, g) PROVE Moves(h)
  BY <1>2, <1>4 DEF CheckCrashed, Dead
<1> QED
  BY <1>1, <1>3, <1>4 DEF MonitorCheck

LEMMA HandlerMoves ==
    ASSUME Inv, NEW g \in Handlers, HandlerStep(g), NEW h \in Handlers
    PROVE  Moves(h)
<1>1. g \in Actors /\ h \in Actors
  BY HandlersAreActors
<1>2. CASE g # h
  <2>1. \/ \E pc \in Pcs : Goto(g, pc)
        \/ Finish(g)
    BY DEF HandlerStep, Refused, Granted, Wake, RecordRestart, UpdateProcessPID, Pcs, StartPcs
  <2> QED
    BY <1>1, <1>2, <2>1, OthersMove DEF Inv, Moves
<1>3. CASE g = h
  <2>1. CASE Granted(h)
    BY <2>1 DEF Moves
  <2>2. CASE Finish(h)
    BY <1>1, <2>2 DEF Finish, Moves, Inv, TypeOK
  <2>3. CASE actor[h].pc = "sleep" /\ Goto(h, "check")
    BY <1>1, <2>3 DEF Goto, Moves, GoesOn, Starting, Inv, TypeOK, ActorState
  <2>4. CASE actor[h].pc = "record" /\ Goto(h, "status")
    BY <1>1, <2>4 DEF Goto, Moves, GoesOn, Starting, Inv, TypeOK, ActorState
  <2> QED
    BY <1>3, <2>1, <2>2, <2>3, <2>4 DEF HandlerStep, Refused, Wake, RecordRestart, UpdateProcessPID
<1> QED
  BY <1>2, <1>3

LEMMA StartMoves ==
    ASSUME Inv, NEW a \in Actors, StartStep(a), NEW h \in Handlers
    PROVE  Moves(h)
<1>1. h \in Actors
  BY HandlersAreActors
<1>2. CASE ReadStatus(a)
  <2>1. CASE Finish(a)
    BY <1>1, <2>1 DEF Finish, Moves, Inv, TypeOK
  <2>2. CASE actor' = [actor EXCEPT ![a].pc = "update", ![a].pid = processes[actor[a].name].pid]
    BY <1>1, <2>2 DEF Moves, GoesOn, Starting, StartPcs, Inv, TypeOK, ActorState
  <2> QED
    BY <1>2, <2>1, <2>2 DEF ReadStatus
<1>3. CASE ~ReadStatus(a)
  <2>1. /\ actor[a].pc \in StartPcs
        /\ \/ \E pc \in Pcs : Goto(a, pc)
           \/ Finish(a)
           \/ \E ok \in BOOLEAN : AfterStart(a, ok)
    BY <1>3 DEF StartStep, StartRefused, StartAllowed, StartInvalid, StoreStarting, ScriptFails,
       ScriptSpawns, FindSucceeds, FindFails, Pcs, StartPcs
  <2>2. CASE a # h
    BY <1>1, <2>1, <2>2, OthersMove DEF Inv, Moves
  <2>3. CASE a = h /\ \E pc \in Pcs : Goto(a, pc)
    BY <1>1, <2>1, <2>3 DEF Goto, Moves, GoesOn, Starting, Inv, TypeOK, ActorState
  <2>4. CASE a = h /\ Finish(a)
    BY <1>1, <2>4 DEF Finish, Moves, Inv, TypeOK
  <2>5. CASE a = h /\ \E ok \in BOOLEAN : AfterStart(a, ok)
    <3>1. PICK ok \in BOOLEAN : actor' = [actor EXCEPT ![h].pc = "record", ![h].ok = ok]
      BY <2>5 DEF AfterStart
    <3> QED
      BY <1>1, <2>1, <2>5, <3>1 DEF Moves, GoesOn, Starting, Inv, TypeOK, ActorState
  <2> QED
    BY <2>1, <2>2, <2>3, <2>4, <2>5
<1> QED
  BY <1>2, <1>3

LEMMA CommandMoves ==
    ASSUME Inv, NEW c \in Commands, CommandStep(c) \/ BeginCommand(c), NEW h \in Handlers
    PROVE  actor'[h] = actor[h]
<1>1. h # c /\ h \in Actors
  BY HandlersAreActors
<1>2. CASE BeginCommand(c)
  BY <1>1, <1>2 DEF BeginCommand, BeginStart, BeginStop, BeginRestart, BeginRefresh, Spawn, Inv, TypeOK
<1>3. CASE MarkManuallyStopped(c) \/ ClearManuallyStopped(c) \/ UntrackProcess(c) \/ ListFails(c)
           \/ Settle(c) \/ RegisterForAutoStart(c) \/ ResetRestartCount(c) \/ TrackStarted(c)
           \/ UntrackStale(c)
  BY <1>1, <1>3 DEF MarkManuallyStopped, ClearManuallyStopped, UntrackProcess, ListFails, Settle,
     RegisterForAutoStart, ResetRestartCount, TrackStarted, UntrackStale, Goto, Finish, Inv, TypeOK
<1>4. CASE ListProcesses(c) \/ Kill(c) \/ ResolvePid(c) \/ Retrack(c)
  BY <1>1, <1>4 DEF ListProcesses, Kill, ResolvePid, Retrack, Inv, TypeOK
<1> QED
  BY <1>2, <1>3, <1>4 DEF CommandStep

\* No step does anything else to a crash handler.
LEMMA EveryMove ==
    ASSUME Inv, [Next]_vars, NEW h \in Handlers
    PROVE  Moves(h)
<1>1. CASE UNCHANGED vars
  BY <1>1 DEF vars, Moves
<1>2. ASSUME NEW n \in Names,
             WindowSlides(n) \/ CooldownPasses(n) \/ ManagerNotices(n) \/ ProcessDies(n)
      PROVE  Moves(h)
  BY <1>2 DEF WindowSlides, CooldownPasses, ManagerNotices, ProcessDies, Moves
<1>3. CASE AgentRestarts
  BY <1>3, HandlersAreActors DEF AgentRestarts, Moves
<1> QED
  BY <1>1, <1>2, <1>3, MonitorMoves, HandlerMoves, StartMoves, CommandMoves DEF Next, Moves

-----------------------------------------------------------------------------
(* The manual-stop mark.                                                   *)

LEMMA MarkFreezes ==
    ASSUME Inv, [Next]_vars, NEW n \in Names, tracked[n].manuallyStopped
    PROVE  MayStart(n)' \subseteq MayStart(n)
<1> SUFFICES ASSUME NEW h \in Handlers, h \in MayStart(n)' PROVE h \in MayStart(n)
  BY DEF MayStart, Pending
<1>1. /\ actor'[h].name = n
      /\ \/ actor'[h].pc \in Starting
         \/ actor'[h].pc = "should" /\ ~actor'[h].flag
  BY DEF MayStart, Pending, Starting
<1>2. CASE actor'[h] = actor[h]
  BY <1>1, <1>2 DEF MayStart, Pending, Starting
<1>3. CASE actor'[h] = Idle
  BY <1>1, <1>3 DEF Idle, Routine, Starting, StartPcs
<1>4. CASE GoesOn(h)
  <2>1. actor[h].name = n
    BY <1>1, <1>4 DEF GoesOn
  <2>2. actor[h].pc \in Starting
    BY <1>1, <1>4 DEF GoesOn
  <2> QED
    BY <2>1, <2>2 DEF MayStart, Pending, Starting
<1>5. CASE Triggered(h)
  BY <1>1, <1>5 DEF Triggered, Starting, StartPcs
<1>6. CASE Granted(h)
  <2>1. actor[h].pc = "should" /\ ~actor[h].flag
    BY <1>6 DEF Granted, RefuseRestart
  <2>2. actor'[h].name = actor[h].name
    BY <1>6, HandlersAreActors DEF Granted, Goto, Inv, TypeOK, ActorState
  <2> QED
    BY <1>1, <2>1, <2>2 DEF MayStart
<1> QED
  BY <1>2, <1>3, <1>4, <1>5, <1>6, EveryMove DEF Moves

\* While a process carries the manual-stop mark (MarkManuallyStopped) no crash handler
\* becomes able to start it: checkAllProcesses either skips it or hands the handler a
\* copy with the mark, at which ShouldRestart refuses.
THEOREM MarkHolds == Spec => MarkFreezesRestarts
<1>1. Inv /\ [Next]_vars =>
         [\A n \in Names : IsTracked(n) /\ tracked[n].manuallyStopped =>
             MayStart(n)' \subseteq MayStart(n)]_vars
  BY MarkFreezes
<1> QED
  BY <1>1, Invariance, PTL DEF Spec, MarkFreezesRestarts

-----------------------------------------------------------------------------
(* The restart limit and the cooldown.                                     *)

\* Only a handler that is granted a restart joins the pending ones.
LEMMA PendingShrinks ==
    ASSUME Inv, [Next]_vars, NEW n \in Names,
           NEW h \in Handlers, h \in Pending(n)', h \notin Pending(n)
    PROVE  Granted(h) /\ actor[h].name = n
<1>1. actor'[h].name = n /\ actor'[h].pc \in Starting
  BY DEF Pending, Starting
<1>2. ~(actor[h].name = n /\ actor[h].pc \in Starting)
  BY DEF Pending, Starting
<1>3. actor'[h] # actor[h]
  BY <1>1, <1>2
<1>4. actor'[h] # Idle
  BY <1>1 DEF Idle, Routine, Starting, StartPcs
<1>5. ~GoesOn(h)
  BY <1>1, <1>2 DEF GoesOn
<1>6. ~Triggered(h)
  BY <1>1 DEF Triggered, Starting, StartPcs
<1>7. Granted(h)
  BY <1>3, <1>4, <1>5, <1>6, EveryMove DEF Moves
<1>8. actor'[h].name = actor[h].name
  BY <1>7, HandlersAreActors DEF Granted, Goto, Inv, TypeOK, ActorState
<1> QED
  BY <1>1, <1>7, <1>8

\* A handler that is granted a restart finds room in the window.
LEMMA GrantedHasRoom ==
    ASSUME Inv, NEW h \in Handlers, Granted(h)
    PROVE  LET n == actor[h].name IN
           history[n].cooldown # "running" /\ history'[n].recent < MaxRestarts
<1> DEFINE n == actor[h].name
<1>1. n \in Names
  BY HandlersAreActors DEF Granted, Inv, NamedWhenBusy
<1>2. history[n] \in RestartHistory
  BY <1>1 DEF Inv, TypeOK
<1>3. CASE history[n].cooldown = "passed"
  <2>1. history'[n] = FreshHistory
    BY <1>1, <1>3 DEF Granted, Inv, TypeOK
  <2> QED
    BY <1>3, <2>1, MaxRestartsAssumption DEF FreshHistory
<1>4. CASE history[n].cooldown # "passed"
  <2>1. history'[n] = history[n]
    BY <1>4 DEF Granted
  <2>2. ~(history[n].cooldown = "running") /\ ~(history[n].cooldown = "none" /\ history[n].recent >= MaxRestarts)
    BY DEF Granted, RefuseRestart
  <2>3. history[n].cooldown = "none" /\ history[n].recent \in Nat
    BY <1>2, <1>4, <2>2 DEF RestartHistory
  <2> QED
    BY <2>1, <2>2, <2>3, MaxRestartsAssumption
<1> QED
  BY <1>3, <1>4

\* What a step does to the restart history of a process.
LEMMA HistoryMoves ==
    ASSUME Inv, [Next]_vars, NEW n \in Names
    PROVE  \/ /\ history'[n].recent <= history[n].recent
              /\ history'[n].cooldown = "running" => history[n].cooldown = "running"
           \/ \E h \in Handlers : /\ Refused(h) /\ actor[h].name = n
                                  /\ history'[n].recent = history[n].recent
           \/ \E h \in Handlers : /\ RecordRestart(h) /\ actor[h].name = n
                                  /\ history'[n].recent = history[n].recent + 1
                                  /\ history'[n].cooldown = history[n].cooldown
<1>1. history[n] \in RestartHistory /\ history[n].recent \in Nat
  BY DEF Inv, TypeOK, RestartHistory
<1>2. CASE history'[n] = history[n]
  BY <1>1, <1>2
<1>3. CASE history'[n] = FreshHistory
  BY <1>1, <1>3 DEF FreshHistory
<1>4. ASSUME NEW h \in Handlers, Refused(h), history'[n] # history[n]
      PROVE  actor[h].name = n /\ history'[n].recent = history[n].recent
  <2>1. history' = [history EXCEPT ![actor[h].name].cooldown = "running"]
    BY <1>4 DEF Refused
  <2> QED
    BY <1>1, <1>4, <2>1 DEF Inv, TypeOK, RestartHistory
<1>5. ASSUME NEW h \in Handlers, Granted(h), history'[n] # history[n]
      PROVE  history'[n] = FreshHistory
  BY <1>5 DEF Granted, Inv, TypeOK
<1>6. ASSUME NEW h \in Handlers, RecordRestart(h), history'[n] # history[n]
      PROVE  /\ actor[h].name = n
             /\ history'[n].recent = history[n].recent + 1
             /\ history'[n].cooldown = history[n].cooldown
  <2>1. history' = [history EXCEPT ![actor[h].name].recent = @ + 1]
    BY <1>6 DEF RecordRestart
  <2>2. actor[h].name = n
    BY <1>6, <2>1 DEF Inv, TypeOK
  <2>3. history'[n] = [history[n] EXCEPT !.recent = history[n].recent + 1]
    BY <2>1, <2>2 DEF Inv, TypeOK
  <2> QED
    BY <1>1, <2>2, <2>3 DEF RestartHistory
<1>7. ASSUME NEW m \in Names, WindowSlides(m), history'[n] # history[n]
      PROVE  history'[n].recent <= history[n].recent /\ history'[n].cooldown = history[n].cooldown
  <2>1. history'[n] = [history[n] EXCEPT !.recent = history[n].recent - 1]
    BY <1>7 DEF WindowSlides, Inv, TypeOK
  <2> QED
    BY <1>1, <2>1 DEF RestartHistory
<1>8. ASSUME NEW m \in Names, CooldownPasses(m), history'[n] # history[n]
      PROVE  history'[n].recent <= history[n].recent /\ history'[n].cooldown = "passed"
  <2>1. history'[n] = [history[n] EXCEPT !.cooldown = "passed"]
    BY <1>8 DEF CooldownPasses, Inv, TypeOK
  <2> QED
    BY <1>1, <2>1 DEF RestartHistory
<1>9. ASSUME NEW h \in Handlers, HandlerStep(h)
      PROVE  Refused(h) \/ Granted(h) \/ RecordRestart(h) \/ UNCHANGED history
  BY <1>9 DEF HandlerStep, Wake, UpdateProcessPID
<1>10. ASSUME NEW c \in Commands, CommandStep(c) \/ BeginCommand(c)
       PROVE  UNCHANGED history \/ history'[n] = history[n] \/ history'[n] = FreshHistory
  <2>1. CASE ResetRestartCount(c)
    BY <2>1 DEF ResetRestartCount, Inv, TypeOK
  <2>2. CASE BeginCommand(c)
    BY <2>2 DEF BeginCommand, BeginStart, BeginStop, BeginRestart, BeginRefresh
  <2> QED
    BY <1>10, <2>1, <2>2 DEF CommandStep, MarkManuallyStopped, ClearManuallyStopped, UntrackProcess,
       ListFails, Settle, RegisterForAutoStart, TrackStarted, UntrackStale, ListProcesses, Kill,
       ResolvePid, Retrack
<1>11. ASSUME NEW a \in Actors, StartStep(a)
       PROVE  UNCHANGED history
  BY <1>11 DEF StartStep, StartRefused, StartAllowed, StartInvalid, StoreStarting, ScriptFails,
     ScriptSpawns, FindSucceeds, FindFails, ReadStatus
<1>12. ASSUME NEW m \in Names, MonitorCheck(m) \/ ManagerNotices(m) \/ ProcessDies(m)
       PROVE  UNCHANGED history
  BY <1>12 DEF MonitorCheck, CheckHealthy, CheckFailed, TriggerAutoStart, CheckCrashed,
     ManagerNotices, ProcessDies
<1>13. ASSUME AgentRestarts
       PROVE  history'[n] = FreshHistory
  BY <1>13 DEF AgentRestarts
<1>14. CASE UNCHANGED vars
  BY <1>2, <1>14 DEF vars
<1> QED
  BY <1>2, <1>3, <1>4, <1>5, <1>6, <1>7, <1>8, <1>9, <1>10, <1>11, <1>12, <1>13, <1>14 DEF Next

LEMMA PendingFinite ==
    ASSUME NEW n, NEW S, S \subseteq Pending(n)
    PROVE  /\ IsFiniteSet(S) /\ Cardinality(S) \in Nat
           /\ Cardinality(S) <= Cardinality(Pending(n))
           /\ Cardinality(Pending(n)) \in Nat
           /\ Cardinality(Pending(n)) <= Cardinality(Handlers)
           /\ Cardinality(Handlers) \in Nat
<1>1. Pending(n) \subseteq Handlers
  BY DEF Pending
<1>2. IsFiniteSet(Pending(n)) /\ Cardinality(Pending(n)) <= Cardinality(Handlers)
  BY <1>1, HandlersAssumption, FS_Subset
<1>3. IsFiniteSet(S) /\ Cardinality(S) <= Cardinality(Pending(n))
  BY <1>2, FS_Subset
<1> QED
  BY <1>2, <1>3, HandlersAssumption, FS_CardinalityType

LEMMA PendingNext == \A n \in Names : IsFiniteSet(Pending(n)') /\ Cardinality(Pending(n)') \in Nat
                                      /\ Cardinality(Pending(n)') <= Cardinality(Handlers)
<1> SUFFICES ASSUME NEW n \in Names
             PROVE  IsFiniteSet(Pending(n)') /\ Cardinality(Pending(n)') \in Nat
                    /\ Cardinality(Pending(n)') <= Cardinality(Handlers)
  OBVIOUS
<1>1. Pending(n)' \subseteq Handlers
  BY DEF Pending
<1>2. IsFiniteSet(Pending(n)') /\ Cardinality(Pending(n)') <= Cardinality(Handlers)
  BY <1>1, HandlersAssumption, FS_Subset
<1> QED
  BY <1>2, FS_CardinalityType

\* The handler that records its restart is not pending any more.
LEMMA RecordedLeaves ==
    ASSUME Inv, [Next]_vars, NEW n \in Names, NEW h \in Handlers, RecordRestart(h), actor[h].name = n
    PROVE  Pending(n)' \subseteq Pending(n) \ {h} /\ h \in Pending(n)
<1>1. h \in Actors /\ actor[h].pc = "record"
  BY HandlersAreActors DEF RecordRestart
<1>2. actor'[h].pc \in {"status", "idle"}
  BY <1>1 DEF RecordRestart, Goto, Finish, Idle, Routine, Inv, TypeOK, ActorState
<1>3. h \in Pending(n) /\ h \notin Pending(n)'
  BY <1>1, <1>2 DEF Pending, StartPcs
<1>4. ASSUME NEW g \in Handlers, g \in Pending(n)', g \notin Pending(n) PROVE FALSE
  <2>1. Granted(g)
    BY <1>4, PendingShrinks
  <2>2. actor'[h] = actor[h]
    BY <1>1, <2>1, HandlersAreActors DEF Granted, Goto, Inv, TypeOK
  <2> QED
    BY <1>1, <1>2, <2>2
<1> QED
  BY <1>3, <1>4 DEF Pending

LEMMA BudgetNext ==
    ASSUME Inv, RestartBudget, [Next]_vars
    PROVE  RestartBudget'
<1> SUFFICES ASSUME NEW n \in Names
             PROVE  history'[n].recent + Cardinality(Pending(n)') < MaxRestarts + Cardinality(Handlers)
  BY DEF RestartBudget
<1>1. history[n].recent \in Nat /\ history'[n].recent \in Nat
  BY InvNext DEF Inv, TypeOK, RestartHistory
<1>2. /\ Cardinality(Pending(n)') \in Nat /\ Cardinality(Pending(n)) \in Nat
      /\ Cardinality(Handlers) \in Nat /\ Cardinality(Pending(n)') <= Cardinality(Handlers)
      /\ IsFiniteSet(Pending(n))
  <2>1. Cardinality(Pending(n)) \in Nat /\ Cardinality(Handlers) \in Nat /\ IsFiniteSet(Pending(n))
    BY PendingFinite
  <2> QED
    BY <2>1, PendingNext
<1>3. history[n].recent + Cardinality(Pending(n)) < MaxRestarts + Cardinality(Handlers)
  BY DEF RestartBudget
<1>4. CASE ~(Pending(n)' \subseteq Pending(n))
  <2>1. PICK h \in Handlers : h \in Pending(n)' /\ h \notin Pending(n)
    BY <1>4 DEF Pending
  <2>2. history'[n].recent < MaxRestarts
    BY <2>1, PendingShrinks, GrantedHasRoom
  <2> QED
    BY <1>1, <1>2, <2>2, MaxRestartsAssumption
<1>5. CASE Pending(n)' \subseteq Pending(n)
  <2>1. Cardinality(Pending(n)') <= Cardinality(Pending(n))
    BY <1>2, <1>5, FS_Subset
  <2>2. CASE history'[n].recent <= history[n].recent
    BY <1>1, <1>2, <1>3, <2>1, <2>2, MaxRestartsAssumption
  <2>3. ASSUME NEW h \in Handlers, RecordRestart(h), actor[h].name = n,
               history'[n].recent = history[n].recent + 1
        PROVE  history'[n].recent + Cardinality(Pending(n)') < MaxRestarts + Cardinality(Handlers)
    <3>1. Pending(n)' \subseteq Pending(n) \ {h} /\ h \in Pending(n)
      BY <2>3, RecordedLeaves
    <3>2. IsFiniteSet(Pending(n) \ {h}) /\ Cardinality(Pending(n) \ {h}) = Cardinality(Pending(n)) - 1
      BY <1>2, <3>1, FS_RemoveElement
    <3>3. Cardinality(Pending(n)') <= Cardinality(Pending(n)) - 1
      BY <3>1, <3>2, FS_Subset
    <3> QED
      BY <1>1, <1>2, <1>3, <2>3, <3>3, MaxRestartsAssumption
  <2> QED
    BY <1>1, <2>2, <2>3, HistoryMoves
<1> QED
  BY <1>4, <1>5

LEMMA BudgetInit == Init => RestartBudget
<1> SUFFICES ASSUME Init, NEW n \in Names
             PROVE  history[n].recent + Cardinality(Pending(n)) < MaxRestarts + Cardinality(Handlers)
  BY DEF RestartBudget
<1>1. history[n].recent = 0
  BY DEF Init, FreshHistory
<1>2. Pending(n) = {}
  BY HandlersAreActors DEF Init, Pending, Idle, Routine, StartPcs
<1> QED
  BY <1>1, <1>2, FS_EmptySet, HandlersAssumption, FS_CardinalityType, MaxRestartsAssumption

\* The restarts recorded in the window and those still under way stay within the
\* limit of ShouldRestart, but for the handlers that overlap: for one handler the
\* limit is exact, and k of them exceed it by k - 1 at most.
THEOREM BudgetKept == Spec => []RestartBudget
BY BudgetInit, BudgetNext, Invariance, PTL DEF Spec

LEMMA CooldownNext ==
    ASSUME Inv, CooldownBlocks, [Next]_vars
    PROVE  CooldownBlocks'
<1> SUFFICES ASSUME NEW n \in Names, history'[n].cooldown = "running"
             PROVE  Cardinality(Pending(n)') < Cardinality(Handlers)
  BY DEF CooldownBlocks
<1>1. /\ Cardinality(Pending(n)') \in Nat /\ Cardinality(Pending(n)) \in Nat
      /\ Cardinality(Handlers) \in Nat /\ IsFiniteSet(Pending(n))
  <2>1. Cardinality(Pending(n)) \in Nat /\ Cardinality(Handlers) \in Nat /\ IsFiniteSet(Pending(n))
    BY PendingFinite
  <2> QED
    BY <2>1, PendingNext
<1>2. CASE history[n].cooldown = "running"
  <2>1. Pending(n)' \subseteq Pending(n)
    <3>1. ASSUME NEW h \in Handlers, h \in Pending(n)', h \notin Pending(n) PROVE FALSE
      BY <1>2, <3>1, PendingShrinks, GrantedHasRoom
    <3> QED
      BY <3>1 DEF Pending
  <2>2. Cardinality(Pending(n)') <= Cardinality(Pending(n))
    BY <1>1, <2>1, FS_Subset
  <2>3. Cardinality(Pending(n)) < Cardinality(Handlers)
    BY <1>2 DEF CooldownBlocks
  <2> QED
    BY <1>1, <2>2, <2>3
<1>3. CASE history[n].cooldown # "running"
  <2>1. PICK h \in Handlers : Refused(h)
    BY <1>3, HistoryMoves
  <2>2. actor'[h] = Idle
    BY <2>1, HandlersAreActors DEF Refused, Finish, Inv, TypeOK
  <2>3. Pending(n)' \subseteq Handlers \ {h}
    BY <2>2 DEF Pending, Idle, Routine, StartPcs
  <2>4. IsFiniteSet(Handlers \ {h}) /\ Cardinality(Handlers \ {h}) = Cardinality(Handlers) - 1
    BY HandlersAssumption, FS_RemoveElement
  <2>5. Cardinality(Pending(n)') <= Cardinality(Handlers) - 1
    BY <2>3, <2>4, FS_Subset
  <2> QED
    BY <1>1, <2>5
<1> QED
  BY <1>2, <1>3

\* During a cooldown ShouldRestart grants nothing: the handlers still under way were
\* granted before, and the one whose refusal began the cooldown is not among them.
THEOREM CooldownHolds == Spec => []CooldownBlocks
<1>1. Init => CooldownBlocks
  BY DEF Init, CooldownBlocks, FreshHistory
<1> QED
  BY <1>1, CooldownNext, Invariance, PTL DEF Spec

-----------------------------------------------------------------------------
(* The starting status.                                                    *)

InScript == {"script", "find"}

\* A process becomes starting by StoreStarting only, and the record that says so is
\* not written again by anybody who does not own it.
LEMMA StartingStored ==
    ASSUME Inv, [Next]_vars, NEW n \in Names, processes'[n].status = "starting"
    PROVE  \/ processes'[n] = processes[n]
           \/ \E a \in Actors : StoreStarting(a) /\ actor[a].name = n
<1>1. processes[n] \in ManagedProcess
  BY DEF Inv, TypeOK
<1>2. ASSUME NEW a \in Actors, NEW status \in {"error", "running"}, NEW pid, SetOwned(a, status, pid)
      PROVE  processes'[n] = processes[n]
  <2>1. CASE UNCHANGED processes
    BY <2>1
  <2>2. CASE processes' = [processes EXCEPT ![actor[a].name].status = status, ![actor[a].name].pid = pid]
    <3>1. CASE actor[a].name = n
      <4>1. processes'[n].status = status
        BY <1>1, <2>2, <3>1 DEF Inv, TypeOK, ManagedProcess
      <4> QED
        BY <4>1
    <3>2. CASE actor[a].name # n
      BY <2>2, <3>2 DEF Inv, TypeOK
    <3> QED
      BY <3>1, <3>2
  <2> QED
    BY <1>2, <2>1, <2>2 DEF SetOwned
<1>3. ASSUME NEW a \in Actors, StartStep(a), ~StoreStarting(a)
      PROVE  processes'[n] = processes[n]
  <2>1. CASE ScriptFails(a) \/ FindFails(a)
    BY <1>2, <2>1 DEF ScriptFails, FindFails
  <2>2. CASE FindSucceeds(a)
    BY <1>2, <2>2 DEF FindSucceeds
  <2>3. CASE ReadStatus(a)
    <3>1. CASE processes' = [processes EXCEPT ![actor[a].name].status = "stopped"]
      BY <1>1, <3>1 DEF Inv, TypeOK, ManagedProcess
    <3>2. CASE UNCHANGED processes
      BY <3>2
    <3> QED
      BY <2>3, <3>1, <3>2 DEF ReadStatus
  <2>4. CASE StartRefused(a) \/ StartAllowed(a) \/ StartInvalid(a) \/ ScriptSpawns(a)
    BY <2>4 DEF StartRefused, StartAllowed, StartInvalid, ScriptSpawns
  <2> QED
    BY <1>3, <2>1, <2>2, <2>3, <2>4 DEF StartStep
<1>4. ASSUME NEW a \in Actors, StoreStarting(a), actor[a].name # n
      PROVE  processes'[n] = processes[n]
  BY <1>4 DEF StoreStarting, Inv, TypeOK
<1>5. ASSUME NEW c \in Commands, Settle(c)
      PROVE  processes'[n] = processes[n]
  <2>1. CASE processes' = [processes EXCEPT ![actor[c].name].status = "stopped", ![actor[c].name].pid = NoPid]
    BY <1>1, <2>1 DEF Inv, TypeOK, ManagedProcess
  <2> QED
    BY <1>5, <2>1 DEF Settle
<1>6. ASSUME NEW c \in Commands, CommandStep(c) \/ BeginCommand(c), ~Settle(c)
      PROVE  UNCHANGED processes
  <2>1. CASE BeginCommand(c)
    BY <2>1 DEF BeginCommand, BeginStart, BeginStop, BeginRestart, BeginRefresh
  <2> QED
    BY <1>6, <2>1 DEF CommandStep, MarkManuallyStopped, ClearManuallyStopped, UntrackProcess,
       ListFails, RegisterForAutoStart, ResetRestartCount, TrackStarted, UntrackStale, ListProcesses,
       Kill, ResolvePid, Retrack
<1>7. ASSUME NEW m \in Names, ManagerNotices(m)
      PROVE  processes'[n] = processes[n]
  <2>1. PICK p \in {processes[m].pid, NoPid} :
           processes' = [processes EXCEPT ![m].status = "stopped", ![m].pid = p]
    BY <1>7 DEF ManagerNotices
  <2> QED
    BY <1>1, <2>1 DEF Inv, TypeOK, ManagedProcess
<1>8. ASSUME NEW m \in Names,
             MonitorCheck(m) \/ WindowSlides(m) \/ CooldownPasses(m) \/ ProcessDies(m)
      PROVE  UNCHANGED processes
  BY <1>8 DEF MonitorCheck, CheckHealthy, CheckFailed, TriggerAutoStart, CheckCrashed, WindowSlides,
     CooldownPasses, ProcessDies
<1>9. ASSUME NEW h \in Handlers, HandlerStep(h)
      PROVE  UNCHANGED processes
  BY <1>9 DEF HandlerStep, Refused, Granted, Wake, RecordRestart, UpdateProcessPID
<1>10. ~AgentRestarts
  BY DEF AgentRestarts, Absent
<1>11. CASE UNCHANGED vars
  BY <1>11 DEF vars
<1> QED
  BY <1>3, <1>4, <1>5, <1>6, <1>7, <1>8, <1>9, <1>10, <1>11 DEF Next

\* A goroutine in the middle of a start leaves it to go on, or with another status.
LEMMA InScriptMoves ==
    ASSUME Inv, [Next]_vars, NEW a \in Actors, actor[a].pc \in InScript
    PROVE  \/ actor'[a] = actor[a]
           \/ actor'[a].name = actor[a].name /\ actor'[a].pc \in InScript
           \/ Owns(a, actor[a].name) => processes'[actor[a].name].status # "starting"
<1> DEFINE n == actor[a].name
<1>1. n \in Names /\ processes[n] \in ManagedProcess
  BY DEF Inv, TypeOK, NamedWhenBusy, InScript
<1>2. actor[a] # Idle
  BY DEF Idle, Routine, InScript
<1>3. ASSUME NEW b \in Actors, StartStep(b), b # a
      PROVE  actor'[a] = actor[a]
  <2>1. CASE ReadStatus(b)
    BY <1>3, <2>1 DEF ReadStatus, Finish, Inv, TypeOK
  <2>2. CASE ~ReadStatus(b)
    <3>1. \/ \E pc \in Pcs : Goto(b, pc)
          \/ Finish(b)
          \/ \E ok \in BOOLEAN : AfterStart(b, ok)
      BY <1>3, <2>2 DEF StartStep, StartRefused, StartAllowed, StartInvalid, StoreStarting, ScriptFails,
         ScriptSpawns, FindSucceeds, FindFails, Pcs, StartPcs
    <3> QED
      BY <1>3, <3>1, OthersMove DEF Inv
  <2> QED
    BY <2>1, <2>2
<1>4. ASSUME StartStep(a)
      PROVE  \/ actor'[a].name = actor[a].name /\ actor'[a].pc \in InScript
             \/ Owns(a, n) => processes'[n].status # "starting"
  <2>1. CASE ScriptSpawns(a)
    BY <2>1 DEF ScriptSpawns, Goto, InScript, Inv, TypeOK, ActorState
  <2>2. ASSUME NEW status \in {"error", "running"}, NEW pid, SetOwned(a, status, pid), Owns(a, n)
        PROVE  processes'[n].status = status
    <3>1. processes' = [processes EXCEPT ![n].status = status, ![n].pid = pid]
      BY <2>2 DEF SetOwned
    <3> QED
      BY <1>1, <3>1 DEF Inv, TypeOK, ManagedProcess
  <2>3. CASE ScriptFails(a) \/ FindFails(a) \/ FindSucceeds(a)
    BY <2>2, <2>3 DEF ScriptFails, FindFails, FindSucceeds
  <2> QED
    BY <1>4, <2>1, <2>3 DEF StartStep, StartRefused, StartAllowed, StartInvalid, StoreStarting,
       ReadStatus, InScript
<1>5. ASSUME NEW h \in Handlers, HandlerStep(h)
      PROVE  actor'[a] = actor[a]
  <2>1. h # a /\ h \in Actors
    BY <1>5, HandlersAreActors DEF HandlerStep, Refused, Granted, Wake, RecordRestart, UpdateProcessPID, InScript
  <2>2. \/ \E pc \in Pcs : Goto(h, pc)
        \/ Finish(h)
    BY <1>5 DEF HandlerStep, Refused, Granted, Wake, RecordRestart, UpdateProcessPID, Pcs, StartPcs
  <2> QED
    BY <2>1, <2>2, OthersMove DEF Inv
<1>6. ASSUME NEW c \in Commands, CommandStep(c)
      PROVE  actor'[a] = actor[a]
  <2>1. c # a /\ c \in Actors
    BY <1>6 DEF CommandStep, MarkManuallyStopped, ClearManuallyStopped, UntrackProcess,
       ListFails, Settle, RegisterForAutoStart, ResetRestartCount, TrackStarted, UntrackStale, ListProcesses,
       Kill, ResolvePid, Retrack, InScript, Actors
  <2>2. CASE ListProcesses(c) \/ Kill(c) \/ ResolvePid(c) \/ Retrack(c)
    BY <2>1, <2>2 DEF ListProcesses, Kill, ResolvePid, Retrack, Inv, TypeOK
  <2>3. CASE ~(ListProcesses(c) \/ Kill(c) \/ ResolvePid(c) \/ Retrack(c))
    BY <1>6, <2>1, <2>3 DEF CommandStep, MarkManuallyStopped, ClearManuallyStopped, UntrackProcess,
       ListFails, Settle, RegisterForAutoStart, ResetRestartCount, TrackStarted, UntrackStale, Goto,
       Finish, Inv, TypeOK
  <2> QED
    BY <2>2, <2>3
<1>7. ASSUME NEW c \in Commands, BeginCommand(c)
      PROVE  actor'[a] = actor[a]
  <2>1. actor[c] = Idle /\ c # a
    BY <1>2, <1>7 DEF BeginCommand, BeginStart, BeginStop, BeginRestart, BeginRefresh, Spawn
  <2> QED
    BY <1>7, <2>1 DEF BeginCommand, BeginStart, BeginStop, BeginRestart, BeginRefresh, Spawn, Inv, TypeOK
<1>8. ASSUME NEW m \in Names, MonitorCheck(m)
      PROVE  actor'[a] = actor[a]
  <2>1. ASSUME NEW h \in Handlers, NEW flag, Spawn(h, "crash", m, flag, {}, "should")
        PROVE  actor'[a] = actor[a]
    <3>1. h # a
      BY <1>2, <2>1 DEF Spawn
    <3> QED
      BY <2>1, <3>1 DEF Spawn, Inv, TypeOK
  <2> QED
    BY <1>8, <2>1 DEF MonitorCheck, CheckHealthy, CheckFailed, TriggerAutoStart, CheckCrashed
<1>9. ASSUME NEW m \in Names,
             WindowSlides(m) \/ CooldownPasses(m) \/ ManagerNotices(m) \/ ProcessDies(m)
      PROVE  UNCHANGED actor
  BY <1>9 DEF WindowSlides, CooldownPasses, ManagerNotices, ProcessDies
<1>10. CASE AgentRestarts
  BY <1>1, <1>10 DEF AgentRestarts, Absent
<1>11. CASE UNCHANGED vars
  BY <1>11 DEF vars
<1> QED
  BY <1>3, <1>4, <1>5, <1>6, <1>7, <1>8, <1>9, <1>10, <1>11 DEF Next

LEMMA StartingNext ==
    ASSUME Inv, StartingHasOwner, [Next]_vars
    PROVE  StartingHasOwner'
<1> SUFFICES ASSUME NEW n \in Names, processes'[n].status = "starting"
             PROVE  \E a \in Actors : /\ processes'[n].owner = a
                                      /\ actor'[a].name = n
                                      /\ actor'[a].pc \in {"script", "find"}
  BY DEF StartingHasOwner, Owns
<1>1. CASE processes'[n] = processes[n]
  <2>1. PICK a \in Actors : /\ processes[n].owner = a
                            /\ actor[a].name = n
                            /\ actor[a].pc \in {"script", "find"}
    BY <1>1 DEF StartingHasOwner, Owns
  <2>2. \/ actor'[a] = actor[a]
        \/ actor'[a].name = actor[a].name /\ actor'[a].pc \in InScript
    BY <2>1, InScriptMoves DEF InScript, Owns
  <2> QED
    BY <1>1, <2>1, <2>2 DEF InScript
<1>2. ASSUME NEW a \in Actors, StoreStarting(a), actor[a].name = n
      PROVE  /\ processes'[n].owner = a
             /\ actor'[a].name = n
             /\ actor'[a].pc = "script"
  BY <1>2 DEF StoreStarting, Goto, Inv, TypeOK, ActorState
<1> QED
  BY <1>1, <1>2, StartingStored

\* A process that is starting is being started: some goroutine of StartProcess owns
\* its record and is between the Store and the final status, so that the refusal of
\* other starts (ErrProcessAlreadyRunning) always ends.
THEOREM StartingOwned == Spec => []StartingHasOwner
<1>1. Init => StartingHasOwner
  BY DEF Init, StartingHasOwner, Absent
<1> QED
  BY <1>1, StartingNext, Invariance, PTL DEF Spec
===============================================================================
