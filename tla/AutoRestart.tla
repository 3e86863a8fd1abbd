----------------------------- MODULE AutoRestart -----------------------------
(***************************************************************************)
(* The part of the agent that keeps SeaTunnel processes running:           *)
(*   - the process monitor   (agent/internal/monitor/monitor.go),          *)
(*   - the auto restarter    (agent/internal/restart/restarter.go),        *)
(*   - the process manager   (agent/internal/process/manager.go),          *)
(*   - the command handlers that drive them (agent/cmd/main.go).           *)
(* Each goroutine is an actor with a program counter; one action is one    *)
(* stretch of code between two lock sections (or blocking calls), so every *)
(* interleaving the mutexes allow is a behaviour.  Durations (the restart  *)
(* delay, the counting window, the cooldown) are not measured: a sleeping  *)
(* actor may wake at any step, a restart may leave the window at any step. *)
(***************************************************************************)
EXTENDS Integers, FiniteSets

CONSTANTS
    Names,         \* managed process names (processidentity.ManagedName)
    Pids,          \* operating-system process ids
    NoPid,         \* the PID 0 of a process that is not running
    Handlers,      \* goroutines that run the crash handler (bounds the overlap)
    Commands,      \* goroutines that run a command of the control plane
    Kinds,         \* the kinds of command the control plane sends
    MaxRestarts,   \* RestartConfig.MaxRestarts
    FailThreshold  \* ProcessMonitor.consecutiveFailThreshold

ASSUME MaxRestartsAssumption == MaxRestarts \in Nat \ {0}
ASSUME FailThresholdAssumption == FailThreshold \in Nat \ {0}
ASSUME KindsAssumption == Kinds \subseteq {"start", "stop", "restart", "refresh"}
ASSUME PidsAssumption == NoPid \notin Pids
ASSUME HandlersAssumption == IsFiniteSet(Handlers)
ASSUME ActorsAssumption == Handlers \cap Commands = {}

VARIABLES
    enabled,    \* AutoRestarter.config.Enabled
    tracked,    \* ProcessMonitor.trackedProcesses
    history,    \* AutoRestarter.restartHistory
    processes,  \* ProcessManager.processes
    alive,      \* the JVMs that really run, by managed name
    actor,      \* the goroutines
    stopped     \* history variable: the operator's last command was a stop, and it succeeded

vars == <<enabled, tracked, history, processes, alive, actor, stopped>>

Actors == Handlers \cup Commands

NoName == "no name"

TrackedProcess ==
    [state : {"tracked", "untracked"}, pid : Pids \cup {NoPid}, manuallyStopped : BOOLEAN,
     restarting : BOOLEAN, consecutiveFails : 0 .. FailThreshold]

RestartHistory ==
    [recent : Nat, cooldown : {"none", "running", "passed"}]

ManagedProcess ==
    [status : {"absent", "starting", "running", "stopped", "error"},
     pid : Pids \cup {NoPid}, owner : Actors \cup {NoName}]

StartPcs == {"check", "store", "script", "find"}

Pcs == {"idle", "should", "sleep", "record", "status", "update", "register",
        "reset", "mark", "unmark", "list", "kill", "settle", "untrack",
        "replace", "resolve", "retrack"} \cup StartPcs

ActorState ==
    [pc : Pcs, kind : {"none", "crash", "start", "stop", "restart", "refresh"},
     name : Names \cup {NoName}, pid : Pids \cup {NoPid},
     flag : BOOLEAN, ok : BOOLEAN, pids : SUBSET Pids, todo : SUBSET Names]

\* A goroutine at pc that has done nothing yet.
Routine(pc, kind, name, flag, todo) ==
    [pc |-> pc, kind |-> kind, name |-> name, pid |-> NoPid,
     flag |-> flag, ok |-> FALSE, pids |-> {}, todo |-> todo]

Idle == Routine("idle", "none", NoName, FALSE, {})

Entry(state, pid, marked) ==
    [state |-> state, pid |-> pid, manuallyStopped |-> marked,
     restarting |-> FALSE, consecutiveFails |-> 0]

Untracked    == Entry("untracked", NoPid, FALSE)
FreshHistory == [recent |-> 0, cooldown |-> "none"]
Absent       == [status |-> "absent", pid |-> NoPid, owner |-> NoName]

TypeOK ==
    /\ enabled \in BOOLEAN
    /\ tracked \in [Names -> TrackedProcess]
    /\ history \in [Names -> RestartHistory]
    /\ processes \in [Names -> ManagedProcess]
    /\ alive \in [Names -> SUBSET Pids]
    /\ actor \in [Actors -> ActorState]
    /\ stopped \in [Names -> BOOLEAN]

-----------------------------------------------------------------------------
(* Helpers: what a lock section reads or writes.                           *)

IsTracked(n) == tracked[n].state = "tracked"

\* The record TrackProcessWithEvent stores, whatever was there before.
Track(n, pid) == tracked' = [tracked EXCEPT ![n] = Entry("tracked", pid, FALSE)]

Goto(a, pc) == actor' = [actor EXCEPT ![a].pc = pc]
Finish(a)   == actor' = [actor EXCEPT ![a] = Idle]

\* A goroutine may be started in any idle slot.
Spawn(a, kind, n, flag, todo, pc) ==
    /\ actor[a] = Idle
    /\ kind \in Kinds \cup {"crash"}
    /\ actor' = [actor EXCEPT ![a] = Routine(pc, kind, n, flag, todo)]

\* processes[n] is still the ManagedProcess that actor a stored.
Owns(a, n) == processes[n].owner = a

\* isProcessAlive of the monitor: the PID must exist and its command line must
\* match; when the process list cannot be read, existing is enough.
MaySeeAlive(p)   == \E m \in Names : p \in alive[m]
MaySeeDead(n, p) == p \notin alive[n]

-----------------------------------------------------------------------------
(* The process monitor.                                                    *)

\* Mutant: the copy handed to the crash handler loses the manual-stop mark.
TriggerAutoStart_Unmarked(n, h) ==
    /\ IsTracked(n)
    /\ ~tracked[n].restarting
    /\ tracked[n].pid = NoPid
    /\ tracked' = [tracked EXCEPT ![n].restarting = TRUE]
    /\ Spawn(h, "crash", n, FALSE, {}, "should")
    /\ UNCHANGED <<enabled, history, processes, alive, stopped>>

\* The part of checkAllProcesses that handles a process registered with PID 0.
\* The manual-stop mark is not looked at; the copy handed to the crash handler
\* carries it.
TriggerAutoStart(n, h) ==
    /\ IsTracked(n)
    /\ ~tracked[n].restarting
    /\ tracked[n].pid = NoPid
    /\ tracked' = [tracked EXCEPT ![n].restarting = TRUE]
    /\ Spawn(h, "crash", n, tracked[n].manuallyStopped, {}, "should")
    /\ UNCHANGED <<enabled, history, processes, alive, stopped>>

\* A tracked process that is alive, or that is marked as manually stopped.
CheckHealthy(n) ==
    /\ IsTracked(n)
    /\ ~tracked[n].restarting
    /\ tracked[n].pid # NoPid
    /\ \/ tracked[n].manuallyStopped
       \/ MaySeeAlive(tracked[n].pid)
    /\ tracked' = [tracked EXCEPT ![n].consecutiveFails = 0]
    /\ UNCHANGED <<enabled, history, processes, alive, actor, stopped>>

Dead(n) ==
    /\ IsTracked(n)
    /\ ~tracked[n].restarting
    /\ ~tracked[n].manuallyStopped
    /\ tracked[n].pid # NoPid
    /\ MaySeeDead(n, tracked[n].pid)

\* Mutant: the failed check is not counted.
CheckFailed_Uncounted(n) ==
    /\ Dead(n)
    /\ tracked[n].consecutiveFails + 1 < FailThreshold
    /\ UNCHANGED vars

\* A failed check below the threshold.
CheckFailed(n) ==
    /\ Dead(n)
    /\ tracked[n].consecutiveFails + 1 < FailThreshold
    /\ tracked' = [tracked EXCEPT ![n].consecutiveFails = @ + 1]
    /\ UNCHANGED <<enabled, history, processes, alive, actor, stopped>>

\* Mutant: restarting is not set when the handler is started.
CheckCrashed_Unguarded(n, h) ==
    /\ Dead(n)
    /\ tracked[n].consecutiveFails + 1 >= FailThreshold
    /\ tracked' = [tracked EXCEPT ![n].consecutiveFails = @ + 1]
    /\ Spawn(h, "crash", n, FALSE, {}, "should")
    /\ UNCHANGED <<enabled, history, processes, alive, stopped>>

\* The failed check that reaches the threshold starts the crash handler.
CheckCrashed(n, h) ==
    /\ Dead(n)
    /\ tracked[n].consecutiveFails + 1 >= FailThreshold
    /\ tracked' = [tracked EXCEPT ![n].consecutiveFails = @ + 1,
                                  ![n].restarting = TRUE]
    /\ Spawn(h, "crash", n, FALSE, {}, "should")
    /\ UNCHANGED <<enabled, history, processes, alive, stopped>>

MonitorCheck(n) ==
    \/ CheckHealthy(n)
    \/ CheckFailed(n)
    \/ \E h \in Handlers : TriggerAutoStart(n, h) \/ CheckCrashed(n, h)

-----------------------------------------------------------------------------
(* The auto restarter: OnProcessCrashed in a goroutine of its own.         *)

\* Mutants: the limit is off by one; the cooldown is not looked at.
RefuseRestart_OffByOne(h, n) ==
    \/ ~enabled
    \/ actor[h].flag
    \/ history[n].cooldown = "running"
    \/ history[n].cooldown = "none" /\ history[n].recent > MaxRestarts

RefuseRestart_NoCooldown(h, n) ==
    \/ ~enabled
    \/ actor[h].flag
    \/ history[n].cooldown = "none" /\ history[n].recent >= MaxRestarts

RefuseRestart(h, n) ==
    \/ ~enabled
    \/ actor[h].flag
    \/ history[n].cooldown = "running"
    \/ history[n].cooldown = "none" /\ history[n].recent >= MaxRestarts

\* ShouldRestart refuses: the goroutine ends and tracked[n].restarting is left
\* as it is.  A full window starts the cooldown.
Refused(h) ==
    LET n == actor[h].name IN
    /\ actor[h].pc = "should"
    /\ RefuseRestart(h, n)
    /\ history' = IF enabled /\ ~actor[h].flag /\ history[n].cooldown = "none"
                  THEN [history EXCEPT ![n].cooldown = "running"]
                  ELSE history
    /\ Finish(h)
    /\ UNCHANGED <<enabled, tracked, processes, alive, stopped>>

\* ShouldRestart agrees; a cooldown that is over resets the history first.
Granted(h) ==
    LET n == actor[h].name IN
    /\ actor[h].pc = "should"
    /\ ~RefuseRestart(h, n)
    /\ history' = IF history[n].cooldown = "passed"
                  THEN [history EXCEPT ![n] = FreshHistory]
                  ELSE history
    /\ Goto(h, "sleep")
    /\ UNCHANGED <<enabled, tracked, processes, alive, stopped>>

\* The restart delay is over; only config.Enabled is looked at again.
Wake(h) ==
    /\ actor[h].pc = "sleep"
    /\ IF enabled THEN Goto(h, "check") ELSE Finish(h)
    /\ UNCHANGED <<enabled, tracked, history, processes, alive, stopped>>

\* recordRestart, for a start that succeeded or failed; the callback of a
\* failed one only reports an event.
RecordRestart(h) ==
    /\ actor[h].pc = "record"
    /\ history' = [history EXCEPT ![actor[h].name].recent = @ + 1]
    /\ IF actor[h].ok THEN Goto(h, "status") ELSE Finish(h)
    /\ UNCHANGED <<enabled, tracked, processes, alive, stopped>>

\* The last lock section of the restart callback, UpdateProcessPID.
UpdateProcessPID(h) ==
    LET n == actor[h].name IN
    /\ actor[h].pc = "update"
    /\ tracked' = IF IsTracked(n)
                  THEN [tracked EXCEPT ![n] =
                          Entry("tracked", actor[h].pid, tracked[n].manuallyStopped)]
                  ELSE tracked
    /\ Finish(h)
    /\ UNCHANGED <<enabled, history, processes, alive, stopped>>

\* Time passes: a recorded restart leaves the counting window; a cooldown ends.
WindowSlides(n) ==
    /\ history[n].recent > 0
    /\ history' = [history EXCEPT ![n].recent = @ - 1]
    /\ UNCHANGED <<enabled, tracked, processes, alive, actor, stopped>>

CooldownPasses(n) ==
    /\ history[n].cooldown = "running"
    /\ history' = [history EXCEPT ![n].cooldown = "passed"]
    /\ UNCHANGED <<enabled, tracked, processes, alive, actor, stopped>>

-----------------------------------------------------------------------------
(* The process manager.  StartProcess runs in the goroutine of a crash     *)
(* handler or of a command; its check of the status and its Store of the   *)
(* new ManagedProcess are two steps.                                       *)

AfterStart(a, ok) ==
    IF a \in Handlers
    THEN actor' = [actor EXCEPT ![a].pc = "record", ![a].ok = ok]
    ELSE IF ok THEN Goto(a, "status") ELSE Finish(a)

\* ErrProcessAlreadyRunning counts as a success for the restarter.
StartRefused(a) ==
    /\ actor[a].pc = "check"
    /\ processes[actor[a].name].status \in {"running", "starting"}
    /\ IF a \in Handlers THEN Goto(a, "status") ELSE Finish(a)
    /\ UNCHANGED <<enabled, tracked, history, processes, alive, stopped>>

StartAllowed(a) ==
    /\ actor[a].pc = "check"
    /\ processes[actor[a].name].status \notin {"running", "starting"}
    /\ Goto(a, "store")
    /\ UNCHANGED <<enabled, tracked, history, processes, alive, stopped>>

\* No start script, or the configured JDK is not usable: nothing is stored.
StartInvalid(a) ==
    /\ actor[a].pc = "store"
    /\ AfterStart(a, FALSE)
    /\ UNCHANGED <<enabled, tracked, history, processes, alive, stopped>>

StoreStarting(a) ==
    /\ actor[a].pc = "store"
    /\ processes' = [processes EXCEPT ![actor[a].name] =
                        [status |-> "starting", pid |-> NoPid, owner |-> a]]
    /\ Goto(a, "script")
    /\ UNCHANGED <<enabled, tracked, history, alive, stopped>>

SetOwned(a, status, pid) ==
    LET n == actor[a].name IN
    processes' = IF Owns(a, n)
                 THEN [processes EXCEPT ![n].status = status, ![n].pid = pid]
                 ELSE processes

\* The log file, the script or its timeout fails.
ScriptFails(a) ==
    /\ actor[a].pc = "script"
    /\ SetOwned(a, "error", processes[actor[a].name].pid)
    /\ AfterStart(a, FALSE)
    /\ UNCHANGED <<enabled, tracked, history, alive, stopped>>

\* The script forks the JVM and exits.
ScriptSpawns(a) ==
    /\ actor[a].pc = "script"
    /\ \E p \in Pids \ UNION {alive[n] : n \in Names} :
          alive' = [alive EXCEPT ![actor[a].name] = @ \cup {p}]
    /\ Goto(a, "find")
    /\ UNCHANGED <<enabled, tracked, history, processes, stopped>>

\* findSeaTunnelProcess returns the first process that matches name and role.
FindSucceeds(a) ==
    /\ actor[a].pc = "find"
    /\ \E p \in alive[actor[a].name] : SetOwned(a, "running", p)
    /\ AfterStart(a, TRUE)
    /\ UNCHANGED <<enabled, tracked, history, alive, stopped>>

\* Mutant: the status is left at starting when no process is found.
FindFails_KeepsStarting(a) ==
    /\ actor[a].pc = "find"
    /\ AfterStart(a, FALSE)
    /\ UNCHANGED <<enabled, tracked, history, processes, alive, stopped>>

\* Nothing found, or the process list cannot be read.
FindFails(a) ==
    /\ actor[a].pc = "find"
    /\ SetOwned(a, "error", processes[actor[a].name].pid)
    /\ AfterStart(a, FALSE)
    /\ UNCHANGED <<enabled, tracked, history, alive, stopped>>

\* GetStatus after a start: it notices a dead process but still returns its PID.
ReadStatus(a) ==
    LET n == actor[a].name
        p == processes[n] IN
    /\ actor[a].pc = "status"
    /\ processes' = IF p.status = "running" /\ p.pid \notin alive[n]
                    THEN [processes EXCEPT ![n].status = "stopped"]
                    ELSE processes
    /\ IF p.pid # NoPid
       THEN actor' = [actor EXCEPT ![a].pc = "update", ![a].pid = p.pid]
       ELSE Finish(a)
    /\ UNCHANGED <<enabled, tracked, history, alive, stopped>>

StartStep(a) ==
    \/ StartRefused(a) \/ StartAllowed(a)
    \/ StartInvalid(a) \/ StoreStarting(a)
    \/ ScriptFails(a) \/ ScriptSpawns(a)
    \/ FindSucceeds(a) \/ FindFails(a)
    \/ ReadStatus(a)

\* The manager's own checks of a running process: checkAllProcesses keeps the
\* PID of a dead one, monitorProcess clears it.
ManagerNotices(n) ==
    /\ processes[n].status = "running"
    /\ processes[n].pid \notin alive[n]
    /\ \E p \in {processes[n].pid, NoPid} :
          processes' = [processes EXCEPT ![n].status = "stopped", ![n].pid = p]
    /\ UNCHANGED <<enabled, tracked, history, alive, actor, stopped>>

-----------------------------------------------------------------------------
(* StopProcess, in the goroutine of a stop or restart command.             *)

AfterStop(c) ==
    CASE actor[c].kind = "stop"                     -> "untrack"
      [] actor[c].kind = "restart" /\ actor[c].flag -> "register"
      [] OTHER                                      -> "check"

ListProcesses(c) ==
    LET n == actor[c].name IN
    /\ actor[c].pc = "list"
    /\ actor' = [actor EXCEPT ![c].pids = alive[n],
                              ![c].pc = IF alive[n] = {} THEN "settle" ELSE "kill"]
    /\ UNCHANGED <<enabled, tracked, history, processes, alive, stopped>>

\* The process list cannot be read: StopProcess fails.
ListFails(c) ==
    /\ actor[c].pc = "list"
    /\ IF actor[c].kind = "stop" \/ actor[c].flag
       THEN Goto(c, "unmark") ELSE Finish(c)
    /\ UNCHANGED <<enabled, tracked, history, processes, alive, stopped>>

\* SIGTERM, the grace period and SIGKILL: the listed processes are gone.
Kill(c) ==
    /\ actor[c].pc = "kill"
    /\ alive' = [alive EXCEPT ![actor[c].name] = @ \ actor[c].pids]
    /\ actor' = [actor EXCEPT ![c].pc = "settle", ![c].pids = {}]
    /\ UNCHANGED <<enabled, tracked, history, processes, stopped>>

\* The status of the managed process, if there is one, becomes stopped.
Settle(c) ==
    LET n == actor[c].name IN
    /\ actor[c].pc = "settle"
    /\ processes' = IF processes[n].status = "absent" THEN processes
                    ELSE [processes EXCEPT ![n].status = "stopped", ![n].pid = NoPid]
    /\ Goto(c, AfterStop(c))
    /\ UNCHANGED <<enabled, tracked, history, alive, stopped>>

-----------------------------------------------------------------------------
(* The command handlers.  flag is what IsEnabled returned at the start.    *)

BeginStart(c, n) ==
    /\ Spawn(c, "start", n, enabled, {}, IF enabled THEN "register" ELSE "check")
    /\ stopped' = [stopped EXCEPT ![n] = FALSE]
    /\ UNCHANGED <<enabled, tracked, history, processes, alive>>

BeginStop(c, n) ==
    /\ Spawn(c, "stop", n, enabled, {}, IF enabled THEN "mark" ELSE "list")
    /\ UNCHANGED <<enabled, tracked, history, processes, alive, stopped>>

BeginRestart(c, n) ==
    /\ Spawn(c, "restart", n, enabled, {}, IF enabled THEN "mark" ELSE "list")
    /\ stopped' = [stopped EXCEPT ![n] = FALSE]
    /\ UNCHANGED <<enabled, tracked, history, processes, alive>>

MarkManuallyStopped(c) ==
    LET n == actor[c].name IN
    /\ actor[c].pc = "mark"
    /\ tracked' = IF IsTracked(n)
                  THEN [tracked EXCEPT ![n] = Entry("tracked", tracked[n].pid, TRUE)]
                  ELSE tracked
    /\ Goto(c, "list")
    /\ UNCHANGED <<enabled, history, processes, alive, stopped>>

\* After a failed StopProcess; a stop (not a restart) asks IsEnabled again.
ClearManuallyStopped(c) ==
    LET n == actor[c].name IN
    /\ actor[c].pc = "unmark"
    /\ tracked' = IF IsTracked(n) /\ (actor[c].kind = "restart" \/ enabled)
                  THEN [tracked EXCEPT ![n].manuallyStopped = FALSE]
                  ELSE tracked
    /\ Finish(c)
    /\ UNCHANGED <<enabled, history, processes, alive, stopped>>

\* The stop command succeeds.
UntrackProcess(c) ==
    LET n == actor[c].name IN
    /\ actor[c].pc = "untrack"
    /\ tracked' = [tracked EXCEPT ![n] = Untracked]
    /\ stopped' = [stopped EXCEPT ![n] = TRUE]
    /\ Finish(c)
    /\ UNCHANGED <<enabled, history, processes, alive>>

\* A start or restart with auto restart on registers PID 0 for the monitor.
RegisterForAutoStart(c) ==
    /\ actor[c].pc = "register"
    /\ Track(actor[c].name, NoPid)
    /\ Goto(c, "reset")
    /\ UNCHANGED <<enabled, history, processes, alive, stopped>>

ResetRestartCount(c) ==
    /\ actor[c].pc = "reset"
    /\ history' = [history EXCEPT ![actor[c].name] = FreshHistory]
    /\ Finish(c)
    /\ UNCHANGED <<enabled, tracked, processes, alive, stopped>>

\* With auto restart off the handler tracks the PID it started.
TrackStarted(c) ==
    /\ actor[c].pc = "update"
    /\ Track(actor[c].name, actor[c].pid)
    /\ Finish(c)
    /\ UNCHANGED <<enabled, history, processes, alive, stopped>>

\* UPDATE_MONITOR_CONFIG: e is auto_restart; monitor is auto_monitor.
BeginRefresh(c, e, listed, monitor) ==
    /\ enabled' = e
    /\ Spawn(c, "refresh", NoName, e, IF monitor THEN listed ELSE {}, "replace")
    /\ UNCHANGED <<tracked, history, processes, alive, stopped>>

\* Processes that are not listed (all of them with auto_monitor off) are dropped.
UntrackStale(c) ==
    /\ actor[c].pc = "replace"
    /\ tracked' = [n \in Names |-> IF n \in actor[c].todo THEN tracked[n]
                                   ELSE Untracked]
    /\ IF actor[c].todo = {} THEN Finish(c) ELSE Goto(c, "resolve")
    /\ UNCHANGED <<enabled, history, processes, alive, stopped>>

\* What resolveMonitorProcessPID may return: the PID it tracked, else the PID the
\* control plane sent, else one it discovers.  A candidate is also kept when the
\* process list cannot be read.
ResolvedPids(n, configured) ==
    LET known == IF IsTracked(n) THEN tracked[n].pid ELSE NoPid IN
    IF known \in alive[n] THEN {known}
    ELSE ({known, configured} \ {NoPid})
         \cup (IF configured \in alive[n] THEN {} ELSE alive[n] \cup {NoPid})

ResolvePid(c) ==
    /\ actor[c].pc = "resolve"
    /\ \E n \in actor[c].todo, configured \in Pids \cup {NoPid} :
         \E p \in ResolvedPids(n, configured) :
           actor' = [actor EXCEPT ![c].pc = "retrack", ![c].name = n, ![c].pid = p]
    /\ UNCHANGED <<enabled, tracked, history, processes, alive, stopped>>

\* The entry is replaced whole: its manual-stop mark and restarting are lost.
\* A process with no PID is only registered when auto restart is on.
Retrack(c) ==
    LET n    == actor[c].name
        rest == actor[c].todo \ {n} IN
    /\ actor[c].pc = "retrack"
    /\ IF actor[c].pid # NoPid \/ actor[c].flag
       THEN Track(n, actor[c].pid)
       ELSE UNCHANGED tracked
    /\ actor' = [actor EXCEPT ![c] =
                    IF rest = {} THEN Idle
                    ELSE Routine("resolve", "refresh", NoName, actor[c].flag, rest)]
    /\ UNCHANGED <<enabled, history, processes, alive, stopped>>

CommandStep(c) ==
    \/ MarkManuallyStopped(c) \/ ClearManuallyStopped(c) \/ UntrackProcess(c)
    \/ ListProcesses(c) \/ ListFails(c) \/ Kill(c) \/ Settle(c)
    \/ RegisterForAutoStart(c) \/ ResetRestartCount(c) \/ TrackStarted(c)
    \/ UntrackStale(c) \/ ResolvePid(c) \/ Retrack(c)

BeginCommand(c) ==
    \/ \E n \in Names : BeginStart(c, n) \/ BeginStop(c, n) \/ BeginRestart(c, n)
    \/ \E e, monitor \in BOOLEAN, listed \in SUBSET Names :
          BeginRefresh(c, e, listed, monitor)

HandlerStep(h) ==
    \/ Refused(h) \/ Granted(h) \/ Wake(h)
    \/ RecordRestart(h) \/ UpdateProcessPID(h)

-----------------------------------------------------------------------------
(* The environment.                                                        *)

\* A JVM dies on its own.
ProcessDies(n) ==
    /\ \E p \in alive[n] : alive' = [alive EXCEPT ![n] = @ \ {p}]
    /\ UNCHANGED <<enabled, tracked, history, processes, actor, stopped>>

\* The agent stops or crashes and starts again: everything it keeps is in
\* memory, and it leaves the SeaTunnel processes running.
AgentRestarts ==
    /\ enabled' = TRUE
    /\ tracked' = [n \in Names |-> Untracked]
    /\ history' = [n \in Names |-> FreshHistory]
    /\ processes' = [n \in Names |-> Absent]
    /\ actor' = [a \in Actors |-> Idle]
    /\ UNCHANGED <<alive, stopped>>

Init ==
    /\ enabled = TRUE
    /\ tracked = [n \in Names |-> Untracked]
    /\ history = [n \in Names |-> FreshHistory]
    /\ processes = [n \in Names |-> Absent]
    /\ alive = [n \in Names |-> {}]
    /\ actor = [a \in Actors |-> Idle]
    /\ stopped = [n \in Names |-> FALSE]

Next ==
    \/ \E n \in Names : MonitorCheck(n)
    \/ \E n \in Names : WindowSlides(n) \/ CooldownPasses(n)
    \/ \E n \in Names : ManagerNotices(n) \/ ProcessDies(n)
    \/ \E h \in Handlers : HandlerStep(h)
    \/ \E a \in Actors : StartStep(a)
    \/ \E c \in Commands : CommandStep(c) \/ BeginCommand(c)
    \/ AgentRestarts

Spec == Init /\ [][Next]_vars

\* Tickers keep ticking and goroutines keep running: StartProcess and
\* StopProcess are bounded by timeouts.  Nothing obliges the operator, the
\* processes or the clock.
Fairness ==
    /\ \A n \in Names : WF_vars(MonitorCheck(n)) /\ WF_vars(ManagerNotices(n))
    /\ \A h \in Handlers : WF_vars(HandlerStep(h))
    /\ \A a \in Actors : WF_vars(StartStep(a))
    /\ \A c \in Commands : WF_vars(CommandStep(c))
    /\ \A n \in Names : WF_vars(CooldownPasses(n))

FairSpec == Spec /\ Fairness

-----------------------------------------------------------------------------
(* Properties.                                                             *)

\* The failure count reaches the threshold only together with restarting: a
\* count that stayed there unguarded would start a handler at every check.
FailsBelowThreshold ==
    \A n \in Names :
        ~tracked[n].restarting => tracked[n].consecutiveFails < FailThreshold

\* A goroutine that is at work on a process names it.
NamedWhenBusy ==
    \A a \in Actors :
        actor[a].pc \notin {"idle", "replace", "resolve"} => actor[a].name \in Names

\* The handlers that passed ShouldRestart for n and have not recorded a restart.
Pending(n) ==
    {h \in Handlers : /\ actor[h].name = n
                      /\ actor[h].pc \in StartPcs \cup {"sleep", "record"}}

\* The handlers that may still start n.
MayStart(n) ==
    Pending(n) \cup {h \in Handlers : /\ actor[h].name = n
                                      /\ actor[h].pc = "should"
                                      /\ ~actor[h].flag}

\* StartProcess refuses a process whose status is starting, so a status of
\* starting that nobody will change would block every later start: some
\* goroutine is always between its Store and the final status.
StartingHasOwner ==
    \A n \in Names : processes[n].status = "starting" =>
        \E a \in Actors : /\ Owns(a, n)
                          /\ actor[a].name = n
                          /\ actor[a].pc \in {"script", "find"}

\* ShouldRestart counts recorded restarts only, so k handlers that sleep at the
\* same time may exceed MaxRestarts by k - 1, never by more; with one handler
\* the limit is exact.
RestartBudget ==
    \A n \in Names :
        history[n].recent + Cardinality(Pending(n))
            < MaxRestarts + Cardinality(Handlers)

\* During a cooldown the only handlers that can still restart the process are
\* those that were granted before it began, and the one that was refused is not
\* among them.
CooldownBlocks ==
    \A n \in Names : history[n].cooldown = "running" =>
        Cardinality(Pending(n)) < Cardinality(Handlers)

\* While a process carries the manual-stop mark no further crash handler becomes
\* able to start it, although the monitor triggers handlers for PID 0 without
\* looking at the mark.
MarkFreezesRestarts ==
    [][\A n \in Names : IsTracked(n) /\ tracked[n].manuallyStopped =>
          MayStart(n)' \subseteq MayStart(n)]_vars

\* From some point on no new command arrives.
CommandsCease == <>[][\A c \in Commands : ~BeginCommand(c)]_vars

\* Once commands cease, a tracked process found dead is acted upon: the monitor
\* triggers a handler unless it stops being dead, tracked or unmarked.
CrashNoticed ==
    CommandsCease => \A n \in Names : Dead(n) ~> ~Dead(n)

\* Violated: "mark manually stopped to prevent auto-restart" (main.go:1455): a
\* handler that wakes from the restart delay does not go on to start a process
\* that the operator has stopped meanwhile and that is not tracked any more.
ManualStopHonoured ==
    [][\A n \in Names, h \in Handlers :
          /\ stopped[n] /\ ~IsTracked(n)
          /\ actor[h].name = n /\ actor[h].pc = "sleep"
          => actor'[h].pc # "check"]_vars
=============================================================================
