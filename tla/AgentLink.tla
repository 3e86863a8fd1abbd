------------------------------ MODULE AgentLink ------------------------------
(***************************************************************************)
(* The link between one agent and the control plane:                       *)
(*   - the agent manager's connection record, the heartbeat checker and    *)
(*     the host row (internal/apps/agent/manager.go, internal/apps/host),  *)
(*   - the handlers of Register, Heartbeat and CommandStream               *)
(*     (internal/grpc/handlers.go),                                        *)
(*   - the agent's heartbeat, stream and reconnect goroutines              *)
(*     (agent/internal/grpc/client.go, agent/cmd/main.go).                 *)
(* The connection record is locked per field update: two updates of a      *)
(* handler are two steps here.  The control plane keeps connections in     *)
(* memory only; a crash forgets them, the host row stays.                  *)
(***************************************************************************)
EXTENDS Integers

CONSTANTS
    Streams,      \* command streams (bound: how many handlers at a time)
    NoStream,
    LateStreams,  \* may the server see a stream's first message after it has
                  \* seen a newer stream
    MaxFaults     \* bound: breaks, crashes, deaths, expired heartbeats, late reconnects

ASSUME NoStreamAssumption == NoStream \notin Streams
ASSUME LateAssumption     == LateStreams \in BOOLEAN
ASSUME FaultsAssumption   == MaxFaults \in Nat

\* Who asks for a registration; each waits for registerMu.
Callers == {"startup", "heartbeat", "stream", "reconnect"}

VARIABLES
    up,           \* the control plane runs
    conn,         \* the agent's AgentConnection
    host,         \* agent_status of the host row
    beat,         \* the Heartbeat handler
    reg,          \* the Register handler
    checker,      \* checkHeartbeatTimeouts
    stream,       \* CommandStream handlers
    proc,         \* the agent process
    link,         \* grpc.Client: connected, and the reconnect goroutines
    hb,           \* the heartbeat loop
    loop,         \* the stream loop
    wanted,       \* goroutines that want to register
    registering,  \* the one whose Register call is under way
    faults        \* how many faults have happened

serverVars == <<up, conn, host, beat, reg, checker>>
agentVars  == <<proc, link, hb, loop, wanted, registering>>
vars       == <<serverVars, stream, agentVars, faults>>

TypeOK ==
    /\ up \in BOOLEAN
    /\ conn \in [known : BOOLEAN, status : {"connected", "disconnected", "offline"},
                 stream : Streams \cup {NoStream}, fresh : BOOLEAN]
    /\ host \in {"absent", "installed", "offline"}
    /\ beat \in {"free", "get", "status", "stamp", "row"}
    /\ reg \in {"free", "conn", "row"}
    /\ checker \in {"idle", "age", "mark", "row"}
    /\ stream \in [Streams -> [pc : {"free", "init", "status", "stream", "serve"},
                               live : BOOLEAN]]
    /\ proc \in {"dead", "starting", "running"}
    /\ link \in [connected : BOOLEAN, due : BOOLEAN, reconnecting : BOOLEAN]
    /\ hb \in {"idle", "wait", "transport", "notfound"}
    /\ loop \in [pc : {"idle", "recv", "transport", "notfound"},
                 stream : Streams \cup {NoStream}]
    /\ wanted \in SUBSET Callers
    /\ registering \in Callers \cup {"no"}
    /\ faults \in 0 .. MaxFaults

NoConnection == [known |-> FALSE, status |-> "disconnected", stream |-> NoStream, fresh |-> FALSE]
Free         == [pc |-> "free", live |-> FALSE]
Idle         == [pc |-> "idle", stream |-> NoStream]
Dialled      == [connected |-> TRUE, due |-> FALSE, reconnecting |-> FALSE]

Init ==
    /\ up = TRUE
    /\ conn = NoConnection
    /\ host = "absent"
    /\ beat = "free" /\ reg = "free" /\ checker = "idle"
    /\ stream = [s \in Streams |-> Free]
    /\ proc = "starting" /\ link = Dialled
    /\ hb = "idle" /\ loop = Idle
    /\ wanted = {"startup"} /\ registering = "no"
    /\ faults = 0

-----------------------------------------------------------------------------
(* The Register handler.                                                   *)

\* Mutant: every registration stores a connection of its own.
RegisterAgent_Replaces ==
    /\ reg = "conn"
    /\ reg' = "row"
    /\ conn' = [known |-> TRUE, status |-> "connected", stream |-> NoStream, fresh |-> TRUE]
    /\ UNCHANGED <<up, host, beat, checker, stream, agentVars, faults>>

\* RegisterAgent reuses the connection with its stream, or stores a new one.
RegisterAgent ==
    /\ reg = "conn"
    /\ reg' = "row"
    /\ conn' = [known |-> TRUE, status |-> "connected", fresh |-> TRUE,
                stream |-> IF conn.known THEN conn.stream ELSE NoStream]
    /\ UNCHANGED <<up, host, beat, checker, stream, agentVars, faults>>

\* host.Service.UpdateAgentStatus, and the response.
UpdateAgentStatus ==
    /\ reg = "row"
    /\ reg' = "free"
    /\ host' = "installed"
    /\ wanted' = wanted \ {registering}
    /\ registering' = "no"
    /\ proc' = IF registering = "startup" THEN "running" ELSE proc
    /\ UNCHANGED <<up, conn, beat, checker, stream, link, hb, loop, faults>>

-----------------------------------------------------------------------------
(* The Heartbeat handler.                                                  *)

\* The answer to the heartbeat loop, if it still waits.
Answers(answer) == hb' = IF hb = "wait" THEN answer ELSE hb

FindAgent ==
    /\ beat = "get"
    /\ IF conn.known
       THEN beat' = "status" /\ UNCHANGED hb
       ELSE beat' = "free" /\ Answers("notfound")
    /\ UNCHANGED <<up, conn, host, reg, checker, stream, proc, link, loop, wanted, registering, faults>>

SetStatus ==
    /\ beat = "status"
    /\ beat' = "stamp"
    /\ conn' = [conn EXCEPT !.status = "connected"]
    /\ UNCHANGED <<up, host, reg, checker, stream, agentVars, faults>>

UpdateHeartbeat ==
    /\ beat = "stamp"
    /\ beat' = "row"
    /\ conn' = [conn EXCEPT !.fresh = TRUE]
    /\ UNCHANGED <<up, host, reg, checker, stream, agentVars, faults>>

\* host.Service.UpdateHeartbeat restores the row from offline (it reads and writes
\* the row; no other writer of it tells that from one step).  The manager and the
\* handler both call it; the second call repeats the first.
RestoreRow ==
    /\ beat = "row"
    /\ beat' = "free"
    /\ host' = IF host = "offline" THEN "installed" ELSE host
    /\ Answers("idle")
    /\ UNCHANGED <<up, conn, reg, checker, stream, proc, link, loop, wanted, registering, faults>>

-----------------------------------------------------------------------------
(* checkHeartbeatTimeouts.                                                 *)

CheckStatus ==
    /\ checker = "idle"
    /\ conn.known /\ conn.status = "connected"
    /\ checker' = "age"
    /\ UNCHANGED <<up, conn, host, beat, reg, stream, agentVars, faults>>

\* Mutant: a heartbeat that set the status counts as recent.
CheckAge_StatusCounts ==
    /\ checker = "age"
    /\ checker' = IF conn.status = "connected" THEN "idle" ELSE "mark"
    /\ UNCHANGED <<up, conn, host, beat, reg, stream, agentVars, faults>>

\* IsOnline looks at the status again.
CheckAge ==
    /\ checker = "age"
    /\ checker' = IF conn.status = "connected" /\ conn.fresh THEN "idle" ELSE "mark"
    /\ UNCHANGED <<up, conn, host, beat, reg, stream, agentVars, faults>>

MarkOffline ==
    /\ checker = "mark"
    /\ checker' = "row"
    /\ conn' = [conn EXCEPT !.status = "offline"]
    /\ UNCHANGED <<up, host, beat, reg, stream, agentVars, faults>>

MarkHostOffline ==
    /\ checker = "row"
    /\ checker' = "idle"
    /\ host' = IF host = "absent" THEN host ELSE "offline"
    /\ UNCHANGED <<up, conn, beat, reg, stream, agentVars, faults>>

-----------------------------------------------------------------------------
(* The CommandStream handlers.                                             *)

StreamGoes(s, pc) == stream' = [stream EXCEPT ![s].pc = pc]

\* The first message is there: NotFound ends the stream.
Identify(s) ==
    /\ stream[s].pc = "init"
    /\ IF conn.known
       THEN StreamGoes(s, "status") /\ UNCHANGED loop
       ELSE /\ stream' = [stream EXCEPT ![s] = Free]
            /\ loop' = IF stream[s].live THEN [loop EXCEPT !.pc = "notfound"] ELSE loop
    /\ UNCHANGED <<serverVars, proc, link, hb, wanted, registering, faults>>

\* The stream broke before its first message was received.
LoseFirst(s) ==
    /\ stream[s].pc = "init"
    /\ ~stream[s].live
    /\ stream' = [stream EXCEPT ![s] = Free]
    /\ UNCHANGED <<serverVars, agentVars, faults>>

\* SetAgentStream: the status first, the stream after it.
StreamStatus(s) ==
    /\ stream[s].pc = "status"
    /\ StreamGoes(s, "stream")
    /\ conn' = [conn EXCEPT !.status = "connected"]
    /\ UNCHANGED <<up, host, beat, reg, checker, agentVars, faults>>

SetStream(s) ==
    /\ stream[s].pc = "stream"
    /\ StreamGoes(s, "serve")
    /\ conn' = [conn EXCEPT !.stream = s]
    /\ UNCHANGED <<up, host, beat, reg, checker, agentVars, faults>>

\* Recv fails: RemoveAgentStream, if it is still this one.
RemoveStream(s) ==
    /\ stream[s].pc = "serve"
    /\ ~stream[s].live
    /\ stream' = [stream EXCEPT ![s] = Free]
    /\ conn' = IF conn.stream = s
               THEN [conn EXCEPT !.stream = NoStream, !.status = "disconnected"] ELSE conn
    /\ UNCHANGED <<up, host, beat, reg, checker, agentVars, faults>>

StreamStep(s) ==
    Identify(s) \/ LoseFirst(s) \/ StreamStatus(s) \/ SetStream(s) \/ RemoveStream(s)

-----------------------------------------------------------------------------
(* The agent: registration.                                                *)

\* A failed registration at startup ends the process, and systemd starts another.
GivenUp(w) == IF w = "startup" THEN wanted ELSE wanted \ {w}

BeginRegister(w) ==
    /\ w \in wanted
    /\ registering = "no"
    /\ \/ /\ ~link.connected \/ ~up
          /\ wanted' = GivenUp(w)
          /\ UNCHANGED <<registering, reg>>
       \/ /\ link.connected /\ up /\ reg = "free"
          /\ registering' = w
          /\ reg' = "conn"
          /\ UNCHANGED wanted
    /\ UNCHANGED <<up, conn, host, beat, checker, stream, proc, link, hb, loop, faults>>

\* All calls under way fail, with the given result for those that look at it.
CallsFail(heartbeat) ==
    /\ hb' = IF hb = "wait" THEN heartbeat ELSE hb
    /\ wanted' = GivenUp(registering)
    /\ registering' = "no"

Disconnected == stream' = [s \in Streams |-> [stream[s] EXCEPT !.live = FALSE]]

-----------------------------------------------------------------------------
(* The agent: the heartbeat loop.                                          *)

Heartbeat ==
    /\ proc = "running" /\ link.connected /\ hb = "idle"
    /\ \/ /\ up /\ beat = "free"
          /\ hb' = "wait"
          /\ beat' = "get"
       \/ /\ ~up
          /\ hb' = "transport"
          /\ UNCHANGED beat
    /\ UNCHANGED <<up, conn, host, reg, checker, stream, proc, link, loop, wanted, registering, faults>>

\* MarkDisconnected and triggerReconnectAndRegister.
LosesLink == link' = [link EXCEPT !.connected = FALSE, !.due = TRUE]

HeartbeatFailed ==
    /\ hb' = "idle"
    /\ \/ /\ hb = "transport"
          /\ LosesLink
          /\ UNCHANGED wanted
       \/ /\ hb = "notfound"
          /\ wanted' = wanted \cup {"heartbeat"}
          /\ UNCHANGED link
    /\ UNCHANGED <<serverVars, stream, proc, loop, registering, faults>>

-----------------------------------------------------------------------------
(* The agent: the stream loop.                                             *)

Opening(s) == stream[s].pc \in {"init", "status", "stream"}

\* Handlers are interchangeable: a new stream takes a given one of the free ones.
OpenStream(s) ==
    /\ proc = "running" /\ link.connected /\ loop.pc = "idle" /\ "stream" \notin wanted
    /\ \/ /\ up
          /\ stream[s].pc = "free" /\ s = CHOOSE t \in Streams : stream[t].pc = "free"
          /\ LateStreams \/ \A t \in Streams : ~Opening(t)
          /\ stream' = [stream EXCEPT ![s] = [pc |-> "init", live |-> TRUE]]
          /\ loop' = [pc |-> "recv", stream |-> s]
       \/ /\ ~up
          /\ loop' = [pc |-> "transport", stream |-> NoStream]
          /\ UNCHANGED stream
    /\ UNCHANGED <<serverVars, proc, link, hb, wanted, registering, faults>>

\* Recv returns the transport's error.
StreamBroke ==
    /\ loop.pc = "recv"
    /\ ~stream[loop.stream].live
    /\ loop' = [loop EXCEPT !.pc = "transport"]
    /\ UNCHANGED <<serverVars, stream, proc, link, hb, wanted, registering, faults>>

StreamFailed ==
    /\ loop' = Idle
    /\ \/ /\ loop.pc = "transport"
          /\ LosesLink
          /\ UNCHANGED wanted
       \/ /\ loop.pc = "notfound"
          /\ wanted' = wanted \cup {"stream"}
          /\ UNCHANGED link
    /\ UNCHANGED <<serverVars, stream, proc, hb, registering, faults>>

-----------------------------------------------------------------------------
(* The agent: reconnecting.                                                *)

\* TryReconnect: one at a time.  Closing the connection ends its calls with an
\* error that is not a transport error.
TryReconnect ==
    /\ link.due
    /\ IF link.reconnecting
       THEN link' = [link EXCEPT !.due = FALSE] /\ UNCHANGED <<stream, hb, loop, wanted, registering>>
       ELSE /\ link' = [connected |-> FALSE, due |-> FALSE, reconnecting |-> TRUE]
            /\ CallsFail("idle")
            /\ Disconnected
            /\ loop' = IF loop.pc = "recv" THEN Idle ELSE loop
    /\ UNCHANGED <<serverVars, proc, faults>>

\* Mutant: the request to register is dropped under a name nobody serves.
Connect_Unserved ==
    /\ link.reconnecting
    /\ link' = [link EXCEPT !.connected = TRUE, !.reconnecting = FALSE]
    /\ wanted' = wanted \cup {"monitor"}
    /\ UNCHANGED <<serverVars, stream, proc, hb, loop, registering, faults>>

\* After the backoff; dialling does not wait for the server.
Connect ==
    /\ link.reconnecting
    /\ link' = [link EXCEPT !.connected = TRUE, !.reconnecting = FALSE]
    /\ wanted' = wanted \cup {"reconnect"}
    /\ UNCHANGED <<serverVars, stream, proc, hb, loop, registering, faults>>

-----------------------------------------------------------------------------
(* Faults.                                                                 *)

Fault == faults < MaxFaults /\ faults' = faults + 1

\* The transport breaks; the stream loop notices on its own (StreamBroke).
Break ==
    /\ Fault
    /\ CallsFail("transport")
    /\ Disconnected
    /\ UNCHANGED <<serverVars, proc, link, loop>>

Crash ==
    /\ Fault
    /\ up
    /\ up' = FALSE
    /\ conn' = NoConnection
    /\ beat' = "free" /\ reg' = "free" /\ checker' = "idle"
    /\ stream' = [s \in Streams |-> Free]
    /\ CallsFail("transport")
    /\ UNCHANGED <<host, proc, link, loop>>

Restart ==
    /\ ~up
    /\ up' = TRUE
    /\ UNCHANGED <<conn, host, beat, reg, checker, stream, agentVars, faults>>

Die ==
    /\ Fault
    /\ proc # "dead"
    /\ proc' = "dead"
    /\ link' = [Dialled EXCEPT !.connected = FALSE]
    /\ hb' = "idle" /\ loop' = Idle
    /\ wanted' = {} /\ registering' = "no"
    /\ Disconnected
    /\ UNCHANGED serverVars

StartAgent ==
    /\ proc = "dead"
    /\ proc' = "starting"
    /\ link' = Dialled
    /\ wanted' = {"startup"}
    /\ UNCHANGED <<serverVars, stream, hb, loop, registering, faults>>

Expires == conn.fresh /\ conn' = [conn EXCEPT !.fresh = FALSE]

\* Thirty seconds without a heartbeat, although the agent lives.
ExpireLate ==
    /\ Fault
    /\ proc # "dead"
    /\ Expires
    /\ UNCHANGED <<up, host, beat, reg, checker, stream, agentVars>>

\* Thirty seconds after the end of the agent.
Expire ==
    /\ proc = "dead"
    /\ Expires
    /\ UNCHANGED <<up, host, beat, reg, checker, stream, agentVars, faults>>

\* runConnectionMonitor finds the link down and starts a goroutine to reconnect.  A
\* reconnect is under way then; as a rule the goroutine finds it and returns
\* (TryReconnect), but one that runs late tears the new link down again.
Monitor ==
    /\ Fault
    /\ proc = "running"
    /\ ~link.connected /\ ~link.due
    /\ link' = [link EXCEPT !.due = TRUE]
    /\ UNCHANGED <<serverVars, stream, proc, hb, loop, wanted, registering>>

-----------------------------------------------------------------------------
BeatStep    == FindAgent \/ SetStatus \/ UpdateHeartbeat \/ RestoreRow
RegStep     == RegisterAgent \/ UpdateAgentStatus
CheckerStep == CheckStatus \/ CheckAge \/ MarkOffline \/ MarkHostOffline
LoopStep    == StreamBroke \/ StreamFailed \/ \E s \in Streams : OpenStream(s)

Next ==
    \/ BeatStep \/ RegStep \/ CheckerStep \/ LoopStep
    \/ \E s \in Streams : StreamStep(s)
    \/ \E w \in Callers : BeginRegister(w)
    \/ Heartbeat \/ HeartbeatFailed
    \/ TryReconnect \/ Connect
    \/ Monitor \/ Break \/ Crash \/ Restart \/ Die \/ StartAgent \/ ExpireLate \/ Expire

\* Goroutines are scheduled and tickers tick, calls that no fault hits are
\* delivered, the control plane is restarted.  An agent that has died may stay
\* dead.
Fairness ==
    /\ WF_vars(BeatStep) /\ WF_vars(RegStep) /\ WF_vars(CheckerStep) /\ WF_vars(LoopStep)
    /\ \A s \in Streams : WF_vars(StreamStep(s))
    /\ WF_vars(\E w \in Callers : BeginRegister(w))
    /\ WF_vars(Heartbeat \/ HeartbeatFailed)
    /\ WF_vars(TryReconnect \/ Connect)
    /\ WF_vars(Restart \/ Expire)

Spec     == Init /\ [][Next]_vars
FairSpec == Spec /\ Fairness

-----------------------------------------------------------------------------
(* Properties.                                                             *)

\* Commands reach the agent: the connection is online and holds the stream the
\* agent listens to, and the host row agrees.
Linked ==
    /\ conn.known /\ conn.status = "connected" /\ host = "installed"
    /\ loop.pc = "recv" /\ conn.stream = loop.stream
    /\ stream[loop.stream] = [pc |-> "serve", live |-> TRUE]

\* Whatever breaks, crashes and expires, in whatever order handlers, reconnects,
\* registrations and the checker interleave: once the faults end and the agent
\* stays up, it is linked for good without anybody's help.
Stabilises == <>[](proc # "dead") => <>[]Linked

\* An agent that has died for good does not stay connected in the manager.
DeadIsNoticed == <>[](proc = "dead") => <>[](conn.status # "connected")
=============================================================================
