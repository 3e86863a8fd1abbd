--------------------------- MODULE CommandDispatch ---------------------------
(***************************************************************************)
(* Commands from the control plane to one agent:                           *)
(*   - the agent manager    (internal/apps/agent/manager.go),              *)
(*   - the stream handler   (internal/grpc/handlers.go),                   *)
(*   - the audited sender   (internal/router/router.go),                   *)
(*   - the agent's stream loop and executor (agent/internal/grpc/client.go,*)
(*     agent/internal/executor/executor.go, agent/cmd/main.go).            *)
(* A stream is FIFO in each direction and may break at any time: what was  *)
(* not received is lost, what the server has buffered is still handled by  *)
(* the old stream's goroutine, possibly while a newer stream is served.    *)
(* Timers (command timeout, executor timeout, the two seconds' wait for a  *)
(* stream) may fire at any step.                                           *)
(***************************************************************************)
EXTENDS Integers, Sequences

CONSTANTS
    Sync,        \* commands sent by agentCommandSenderAdapter.SendCommand
    Async,       \* commands sent by Manager.SendCommandAsync
    MaxStreams,  \* bound: how many streams the agent opens
    MaxReports,  \* bound: progress reports of one command
    NoMsg        \* no response in hand

Commands == Sync \cup Async

ASSUME KindsAssumption   == Sync \cap Async = {}
ASSUME StreamsAssumption == MaxStreams \in Nat \ {0}
ASSUME ReportsAssumption == MaxReports \in Nat

Streams  == 1 .. MaxStreams
NoStream == 0

Replies  == {"success", "failed"}
Statuses == Replies \cup {"running"}
Message  == [cmd : Commands, status : Statuses]

VARIABLES
    conn,    \* AgentConnection: status and command stream
    stream,  \* the transport of each stream
    down,    \* commands on their way to the agent, by stream
    up,      \* responses on their way to the server, by stream
    server,  \* the goroutine that serves each stream
    caller,  \* the goroutine that sends each command
    context, \* CommandContext of each command
    log,     \* status of the command's audit row
    agent,   \* the agent's executor, by command
    work     \* what the command's handler on the agent has done

vars == <<conn, stream, down, up, server, caller, context, log, agent, work>>

Connection == [connected : BOOLEAN, stream : Streams \cup {NoStream}]

Server == [pc : {"recv", "apply", "wake", "log"}, msg : Message \cup {NoMsg}]

Caller ==
    [pc : {"idle", "check", "stream", "send", "wait", "refuse", "record", "done"},
     stream : Streams \cup {NoStream},
     answer : {"none", "refused", "success", "error"}, cancelled : BOOLEAN]

CommandContext ==
    [stored : BOOLEAN, done : BOOLEAN, last : Statuses, result : Replies \cup {"none"}]

Executor == [stream : Streams \cup {NoStream}, replied : BOOLEAN, reports : 0 .. MaxReports]

TypeOK ==
    /\ conn \in Connection
    /\ stream \in [Streams -> {"unopened", "open", "broken", "closed"}]
    /\ down \in [Streams -> SUBSET Commands]
    /\ up \in [Streams -> Seq(Message)]
    /\ server \in [Streams -> Server]
    /\ caller \in [Commands -> Caller]
    /\ context \in [Commands -> CommandContext]
    /\ log \in [Commands -> Statuses \cup {"absent", "pending"}]
    /\ agent \in [Commands -> Executor]
    /\ work \in [Commands -> {"none", "running"} \cup Replies]

Init ==
    /\ conn = [connected |-> FALSE, stream |-> NoStream]
    /\ stream = [s \in Streams |-> "unopened"]
    /\ down = [s \in Streams |-> {}]
    /\ up = [s \in Streams |-> <<>>]
    /\ server = [s \in Streams |-> [pc |-> "recv", msg |-> NoMsg]]
    /\ caller = [c \in Commands |-> [pc |-> "idle", stream |-> NoStream,
                                     answer |-> "none", cancelled |-> FALSE]]
    /\ context = [c \in Commands |-> [stored |-> FALSE, done |-> FALSE,
                                      last |-> "running", result |-> "none"]]
    /\ log = [c \in Commands |-> "absent"]
    /\ agent = [c \in Commands |-> [stream |-> NoStream, replied |-> FALSE, reports |-> 0]]
    /\ work = [c \in Commands |-> "none"]

-----------------------------------------------------------------------------
(* The caller.                                                             *)

CallerGoes(c, pc) == caller' = [caller EXCEPT ![c].pc = pc]

\* recordPendingCommandLog: the audit row exists before the command is sent;
\* an asynchronous command has no row.
Begin(c) ==
    /\ caller[c].pc = "idle"
    /\ CallerGoes(c, "check")
    /\ log' = IF c \in Sync THEN [log EXCEPT ![c] = "pending"] ELSE log
    /\ UNCHANGED <<conn, stream, down, up, server, context, agent, work>>

\* The status check.
CheckStatus(c) ==
    /\ caller[c].pc = "check"
    /\ CallerGoes(c, IF conn.connected THEN "stream" ELSE "refuse")
    /\ UNCHANGED <<conn, stream, down, up, server, context, log, agent, work>>

\* waitForStream polls for two seconds; the stream it finds is kept.
WaitForStream(c) ==
    /\ caller[c].pc = "stream"
    /\ \/ /\ conn.stream # NoStream
          /\ caller' = [caller EXCEPT ![c].pc = "send", ![c].stream = conn.stream]
       \/ /\ conn.stream = NoStream
          /\ CallerGoes(c, "refuse")
    /\ UNCHANGED <<conn, stream, down, up, server, context, log, agent, work>>

\* Mutant: a request that was put on the stream is reported as not sent.
Send_ReportsError(c) ==
    /\ caller[c].pc = "send"
    /\ LET s == caller[c].stream IN
        down' = [down EXCEPT ![s] = IF stream[s] = "open" THEN @ \cup {c} ELSE @]
    /\ CallerGoes(c, "refuse")
    /\ UNCHANGED <<conn, stream, up, server, context, log, agent, work>>

\* The context is stored and the request is put on the kept stream, which may
\* have broken (the request is lost) or ended (Send returns an error) since.
Send(c) ==
    /\ caller[c].pc = "send"
    /\ LET s == caller[c].stream IN
        \/ /\ stream[s] # "closed"
           /\ context' = [context EXCEPT ![c].stored = TRUE]
           /\ down' = [down EXCEPT ![s] = IF stream[s] = "open" THEN @ \cup {c} ELSE @]
           /\ CallerGoes(c, IF c \in Sync THEN "wait" ELSE "done")
        \/ /\ stream[s] # "open"
           /\ CallerGoes(c, "refuse")
           /\ UNCHANGED <<context, down>>
    /\ UNCHANGED <<conn, stream, up, server, log, agent, work>>

\* An error before the request was sent: recordFailedCommandLog.
Refuse(c) ==
    /\ caller[c].pc = "refuse"
    /\ caller' = [caller EXCEPT ![c].pc = "done", ![c].answer = "refused"]
    /\ log' = IF c \in Sync THEN [log EXCEPT ![c] = "failed"] ELSE log
    /\ UNCHANGED <<conn, stream, down, up, server, context, agent, work>>

\* The result arrives on ResultChan; the deferred Delete removes the context.  The
\* caller's own context may be cancelled from now on.
GetResult(c) ==
    /\ caller[c].pc = "wait"
    /\ context[c].result # "none"
    /\ context' = [context EXCEPT ![c].stored = FALSE]
    /\ \E cancelled \in BOOLEAN :
        caller' = [caller EXCEPT ![c].pc = "record", ![c].cancelled = cancelled,
                                 ![c].answer = IF context[c].result = "success"
                                               THEN "success" ELSE "error"]
    /\ UNCHANGED <<conn, stream, down, up, server, log, agent, work>>

\* Mutant: the wait has no timeout of its own.
GiveUp_OnceDone(c) ==
    /\ caller[c].pc = "wait"
    /\ context[c].done
    /\ context' = [context EXCEPT ![c].stored = FALSE]
    /\ caller' = [caller EXCEPT ![c].pc = "record", ![c].answer = "error"]
    /\ UNCHANGED <<conn, stream, down, up, server, log, agent, work>>

\* The timeout fires, or the caller's own context is cancelled.
GiveUp(c) ==
    /\ caller[c].pc = "wait"
    /\ context' = [context EXCEPT ![c].stored = FALSE, ![c].done = TRUE]
    /\ \E cancelled \in BOOLEAN :
        caller' = [caller EXCEPT ![c].pc = "record", ![c].answer = "error",
                                 ![c].cancelled = cancelled]
    /\ UNCHANGED <<conn, stream, down, up, server, log, agent, work>>

\* recordCommandLog writes the response, recordFailedCommandLog the failure; both
\* read the row with the caller's context, which fails when that is cancelled.
Record(c) ==
    /\ caller[c].pc = "record"
    /\ CallerGoes(c, "done")
    /\ log' = IF caller[c].cancelled THEN log
              ELSE [log EXCEPT ![c] = IF caller[c].answer = "success"
                                      THEN "success" ELSE "failed"]
    /\ UNCHANGED <<conn, stream, down, up, server, context, agent, work>>

CallerStep(c) ==
    \/ Begin(c) \/ CheckStatus(c) \/ WaitForStream(c) \/ Send(c) \/ Refuse(c)
    \/ GetResult(c) \/ GiveUp(c) \/ Record(c)

-----------------------------------------------------------------------------
(* The goroutine that serves a stream.                                     *)

ServerGoes(s, pc) == server' = [server EXCEPT ![s].pc = pc]

\* Recv, and the look at the context: unknown and finished commands are only
\* written to the audit log.
Receive(s) ==
    /\ server[s].pc = "recv"
    /\ up[s] # <<>>
    /\ stream[s] \in {"open", "broken"}
    /\ LET msg == Head(up[s])
           ctx == context[msg.cmd] IN
        server' = [server EXCEPT ![s] =
            [pc |-> IF ctx.stored /\ ~ctx.done THEN "apply" ELSE "log", msg |-> msg]]
    /\ up' = [up EXCEPT ![s] = Tail(@)]
    /\ UNCHANGED <<conn, stream, down, caller, context, log, agent, work>>

\* Mutants: any status wakes the caller; only progress is kept.
Apply_WakesAlways(s) ==
    /\ server[s].pc = "apply"
    /\ LET msg == server[s].msg IN
        context' = [context EXCEPT ![msg.cmd].last = msg.status]
    /\ ServerGoes(s, "wake")
    /\ UNCHANGED <<conn, stream, down, up, caller, log, agent, work>>

Apply_ProgressOnly(s) ==
    /\ server[s].pc = "apply"
    /\ LET msg == server[s].msg IN
        ServerGoes(s, IF msg.status \in Replies THEN "wake" ELSE "log")
    /\ UNCHANGED <<conn, stream, down, up, caller, context, log, agent, work>>

\* LastStatus is overwritten whatever it was.
Apply(s) ==
    /\ server[s].pc = "apply"
    /\ LET msg == server[s].msg IN
        /\ context' = [context EXCEPT ![msg.cmd].last = msg.status]
        /\ ServerGoes(s, IF msg.status \in Replies THEN "wake" ELSE "log")
    /\ UNCHANGED <<conn, stream, down, up, caller, log, agent, work>>

\* A terminal status goes to ResultChan, if there is one and it has room.
Wake(s) ==
    /\ server[s].pc = "wake"
    /\ LET msg == server[s].msg IN
        context' = [context EXCEPT ![msg.cmd].done = TRUE,
                                   ![msg.cmd].result = IF msg.cmd \in Sync /\ @ = "none"
                                                       THEN msg.status ELSE @]
    /\ ServerGoes(s, "log")
    /\ UNCHANGED <<conn, stream, down, up, caller, log, agent, work>>

\* updateCommandLog: no look at the status the row already has.
UpdateLog(s) ==
    /\ server[s].pc = "log"
    /\ LET msg == server[s].msg IN
        log' = IF log[msg.cmd] = "absent" THEN log ELSE [log EXCEPT ![msg.cmd] = msg.status]
    /\ server' = [server EXCEPT ![s] = [pc |-> "recv", msg |-> NoMsg]]
    /\ UNCHANGED <<conn, stream, down, up, caller, context, agent, work>>

\* Recv fails: RemoveAgentStream, which only removes its own stream.
StreamEnds(s) ==
    /\ stream[s] = "broken"
    /\ server[s].pc = "recv"
    /\ up[s] = <<>>
    /\ stream' = [stream EXCEPT ![s] = "closed"]
    /\ conn' = IF conn.stream = s THEN [connected |-> FALSE, stream |-> NoStream] ELSE conn
    /\ UNCHANGED <<down, up, server, caller, context, log, agent, work>>

ServerStep(s) == Receive(s) \/ Apply(s) \/ Wake(s) \/ UpdateLog(s) \/ StreamEnds(s)

\* The deletion five minutes after the terminal status.
Forget(c) ==
    /\ context[c].stored
    /\ context[c].done
    /\ context' = [context EXCEPT ![c].stored = FALSE]
    /\ UNCHANGED <<conn, stream, down, up, server, caller, log, agent, work>>

-----------------------------------------------------------------------------
(* The agent.                                                              *)

\* A response put on a stream: lost if the stream is not open.
Put(s, c, status) ==
    up' = [up EXCEPT ![s] = IF stream[s] = "open"
                            THEN Append(@, [cmd |-> c, status |-> status]) ELSE @]

\* The stream the client holds in cmdStream: the last one opened.
Current(s) ==
    /\ stream[s] # "unopened"
    /\ \A t \in Streams : stream[t] # "unopened" => t <= s

\* A request is received; its handler runs in a goroutine of its own.
Accept(s, c) ==
    /\ stream[s] = "open"
    /\ c \in down[s]
    /\ down' = [down EXCEPT ![s] = @ \ {c}]
    /\ agent' = [agent EXCEPT ![c].stream = s]
    /\ work' = [work EXCEPT ![c] = "running"]
    /\ UNCHANGED <<conn, stream, up, server, caller, context, log>>

\* Mutant: the reporter is still used when the handler has returned.
Report_AfterReturn(c) ==
    /\ work[c] # "none"
    /\ agent[c].reports < MaxReports
    /\ agent' = [agent EXCEPT ![c].reports = @ + 1]
    /\ \E s \in Streams : Current(s) /\ Put(s, c, "running")
    /\ UNCHANGED <<conn, stream, down, server, caller, context, log, work>>

\* A progress report goes out on the current stream.
Report(c) ==
    /\ work[c] = "running"
    /\ agent[c].reports < MaxReports
    /\ agent' = [agent EXCEPT ![c].reports = @ + 1]
    /\ \E s \in Streams : Current(s) /\ Put(s, c, "running")
    /\ UNCHANGED <<conn, stream, down, server, caller, context, log, work>>

\* The handler returns.
Finish(c) ==
    /\ work[c] = "running"
    /\ \E w \in Replies : work' = [work EXCEPT ![c] = w]
    /\ UNCHANGED <<conn, stream, down, up, server, caller, context, log, agent>>

\* Mutant: the executor's timeout answers like a finished command.
Reply_TimeoutSucceeds(c) ==
    /\ work[c] # "none"
    /\ ~agent[c].replied
    /\ agent' = [agent EXCEPT ![c].replied = TRUE]
    /\ Put(agent[c].stream, c, IF work[c] \in Replies THEN work[c] ELSE "success")
    /\ UNCHANGED <<conn, stream, down, server, caller, context, log, work>>

\* Execute returns the handler's result, or the timeout's failure whether or not
\* the handler has returned; it is sent on the stream the request came from.
Reply(c) ==
    /\ work[c] # "none"
    /\ ~agent[c].replied
    /\ agent' = [agent EXCEPT ![c].replied = TRUE]
    /\ \E r \in {"failed"} \cup ({work[c]} \cap Replies) : Put(agent[c].stream, c, r)
    /\ UNCHANGED <<conn, stream, down, server, caller, context, log, work>>

-----------------------------------------------------------------------------
(* The connection.                                                         *)

\* The agent opens a stream once the one before is gone; SetAgentStream.
OpenStream(s) ==
    /\ stream[s] = "unopened"
    /\ \A t \in Streams : IF t < s THEN stream[t] \in {"broken", "closed"}
                                   ELSE stream[t] = "unopened"
    /\ stream' = [stream EXCEPT ![s] = "open"]
    /\ conn' = [connected |-> TRUE, stream |-> s]
    /\ UNCHANGED <<down, up, server, caller, context, log, agent, work>>

\* The transport breaks: the server still has some of what was sent.
Break(s) ==
    /\ stream[s] = "open"
    /\ stream' = [stream EXCEPT ![s] = "broken"]
    /\ down' = [down EXCEPT ![s] = {}]
    /\ \E n \in 0 .. Len(up[s]) : up' = [up EXCEPT ![s] = SubSeq(@, 1, n)]
    /\ UNCHANGED <<conn, server, caller, context, log, agent, work>>

\* The agent process dies with its handlers; its streams are dead already or die.
AgentDies ==
    /\ \A s \in Streams : stream[s] # "open"
    /\ \E c \in Commands : work[c] = "running"
    /\ work' = [c \in Commands |-> IF work[c] = "running" THEN "failed" ELSE work[c]]
    /\ agent' = [c \in Commands |-> IF work[c] = "none" THEN agent[c]
                                    ELSE [agent[c] EXCEPT !.replied = TRUE]]
    /\ UNCHANGED <<conn, stream, down, up, server, caller, context, log>>

\* The heartbeat checker takes the agent for offline, a heartbeat for connected.
HeartbeatStatus ==
    /\ conn' = [conn EXCEPT !.connected = ~@]
    /\ UNCHANGED <<stream, down, up, server, caller, context, log, agent, work>>

-----------------------------------------------------------------------------
AgentStep(c) == Report(c) \/ Finish(c) \/ Reply(c)

Next ==
    \/ \E c \in Commands : CallerStep(c) \/ Forget(c) \/ AgentStep(c)
    \/ \E s \in Streams : ServerStep(s) \/ OpenStream(s) \/ Break(s)
    \/ \E s \in Streams, c \in Commands : Accept(s, c)
    \/ AgentDies
    \/ HeartbeatStatus

\* Goroutines are scheduled, open streams deliver, timers fire and handlers end
\* at the latest with the executor's timeout.  Nothing obliges a caller to begin,
\* a stream to open or to break.
Fairness ==
    /\ \A c \in Commands :
        /\ WF_vars(CheckStatus(c) \/ WaitForStream(c) \/ Send(c) \/ Refuse(c))
        /\ WF_vars(GetResult(c) \/ GiveUp(c) \/ Record(c))
        /\ WF_vars(Reply(c))
    /\ \A s \in Streams :
        /\ WF_vars(ServerStep(s))
        /\ \A c \in Commands : WF_vars(Accept(s, c))

Spec     == Init /\ [][Next]_vars
FairSpec == Spec /\ Fairness
-----------------------------------------------------------------------------
(* Properties.                                                             *)

\* Success is never reported, to the caller, in the polled context or in the
\* audit log, unless the handler on the agent has succeeded: not by a progress
\* report, not by an executor timeout, not by a message of a broken stream.
NoFalseSuccess ==
    \A c \in Commands :
        (caller[c].answer = "success" \/ context[c].last = "success" \/ log[c] = "success")
            => work[c] = "success"

\* Once a caller has been told of success and has written its audit row, the row
\* stays at success: the stream's own updates of the row (updateCommandLog) run
\* beside the caller's and none of them may be left to undo it.
SuccessIsLogged ==
    \A c \in Sync :
        caller[c].pc = "done" /\ caller[c].answer = "success" /\ ~caller[c].cancelled
            => log[c] = "success"

\* Every synchronous caller returns (SendCommandWithID waits with a timeout),
\* whatever the connection and the agent do.
CallerReturns == \A c \in Sync : caller[c].pc = "check" ~> caller[c].pc = "done"

\* The status polled for an asynchronous command (GetCommandStatus) ends at a
\* terminal one if the stream the command was sent on does not break.
AsyncSettles ==
    \A c \in Async :
        [](caller[c].stream = NoStream \/ stream[caller[c].stream] = "open")
            => (caller[c].pc = "done" /\ caller[c].answer = "none" ~> context[c].last \in Replies)

\* The promise to the caller, over the handler's work and the caller's answer.
Outcome == INSTANCE CommandOutcome WITH answer <- [c \in Commands |-> caller[c].answer]

\* Every behaviour of the command channel keeps that promise.
KeepsOutcome == Outcome!Spec
=============================================================================
