---------------------------- MODULE AgentLink_proofs ----------------------------
(***************************************************************************)
(* Safety of AgentLink, for any number of streams and of faults: commands  *)
(* go to a stream that is served, and to the one the agent listens to;     *)
(* nobody waits for an answer that no handler will give; a lost link is    *)
(* being mended and an agent that is not registered is about to be.  These *)
(* are what the link's stabilisation, which TLC checks, rests on.          *)
(***************************************************************************)
EXTENDS AgentLink, TLAPS

-----------------------------------------------------------------------------
(* The inductive invariant.                                                *)

\* A stream that is not broken has a handler, and the agent listens to it: there
\* is one at most.
Heard == \A s \in Streams : stream[s].live => stream[s].pc # "free" /\ loop = [pc |-> "recv", stream |-> s]

\* A control plane that does not run has no handlers; nobody but a registration
\* brings back a connection that was forgotten.
Forgotten ==
    /\ ~up => ~conn.known /\ beat = "free" /\ reg = "free" /\ \A s \in Streams : stream[s].pc = "free"
    /\ ~conn.known =>
         /\ conn = NoConnection /\ beat \in {"free", "get"} /\ checker = "idle"
         /\ \A s \in Streams : stream[s].pc \in {"free", "init"}

\* The connection names no stream but one that a handler serves: a command is
\* never put on a stream whose handler has ended.
StreamIsServed == conn.stream # NoStream => conn.known /\ stream[conn.stream].pc = "serve"

\* Where streams are not seen late, the handler of a new one meets no other that
\* opens or that is not broken yet.
OneOpens == ~LateStreams => \A s, t \in Streams : Opening(t) /\ (stream[s].live \/ Opening(s)) => s = t

\* Then commands go to the stream the agent listens to, once its handler serves it.
AgentIsReached ==
    ~LateStreams => \A s \in Streams : stream[s] = [pc |-> "serve", live |-> TRUE] => conn.stream = s /\ loop.stream = s

\* An agent that waits for an answer waits for a handler at work, or for a stream
\* that is broken or has a handler.
Answered ==
    /\ hb = "wait" => beat # "free"
    /\ registering # "no" => reg # "free"
    /\ loop.pc = "recv" => loop.stream \in Streams /\ (stream[loop.stream].live => stream[loop.stream].pc # "free")

\* An agent that has not registered yet keeps on asking; one that runs has its
\* host's row, and so has a connection, once its registration is over.
Announced ==
    /\ registering # "no" => registering \in wanted
    /\ proc = "starting" => "startup" \in wanted
    /\ proc = "running" => host # "absent"
    /\ conn.known /\ host = "absent" => reg = "row"

\* A dead agent does nothing.
Dead == proc = "dead" => /\ wanted = {} /\ registering = "no" /\ hb = "idle" /\ loop.pc = "idle"
                         /\ ~link.due /\ ~link.reconnecting

\* A lost link is being mended.
Mended == proc # "dead" /\ ~link.connected => link.due \/ link.reconnecting

Inv == TypeOK /\ Heard /\ Forgotten /\ StreamIsServed /\ OneOpens /\ AgentIsReached /\ Answered /\ Announced /\ Dead /\ Mended

\* The types of the records.
Connections == [known : BOOLEAN, status : {"connected", "disconnected", "offline"},
                stream : Streams \cup {NoStream}, fresh : BOOLEAN]
Handlers    == [pc : {"free", "init", "status", "stream", "serve"}, live : BOOLEAN]
Links       == [connected : BOOLEAN, due : BOOLEAN, reconnecting : BOOLEAN]
Loops       == [pc : {"idle", "recv", "transport", "notfound"}, stream : Streams \cup {NoStream}]

LEMMA Typed ==
    ASSUME Inv
    PROVE  /\ conn \in Connections /\ stream \in [Streams -> Handlers] /\ link \in Links /\ loop \in Loops
           /\ wanted \in SUBSET Callers /\ registering \in Callers \cup {"no"} /\ faults \in 0 .. MaxFaults
BY DEF Inv, TypeOK, Connections, Handlers, Links, Loops

\* What a step does not touch stays as it is.
LEMMA Untouched ==
    /\ Heard /\ UNCHANGED <<stream, loop>> => Heard'
    /\ Forgotten /\ UNCHANGED <<up, conn, beat, reg, checker, stream>> => Forgotten'
    /\ StreamIsServed /\ UNCHANGED <<conn, stream>> => StreamIsServed'
    /\ OneOpens /\ UNCHANGED stream => OneOpens'
    /\ AgentIsReached /\ UNCHANGED <<conn, stream, loop>> => AgentIsReached'
    /\ Answered /\ UNCHANGED <<hb, beat, registering, reg, loop, stream>> => Answered'
    /\ Announced /\ UNCHANGED <<registering, wanted, proc, host, conn, reg>> => Announced'
    /\ Dead /\ UNCHANGED <<proc, wanted, registering, hb, loop, link>> => Dead'
    /\ Mended /\ UNCHANGED <<proc, link>> => Mended'
BY DEF Heard, Forgotten, StreamIsServed, OneOpens, Opening, AgentIsReached, Answered, Announced, Dead, Mended

-----------------------------------------------------------------------------
(* The Register handler.                                                   *)

LEMMA RegisterInv ==
    ASSUME Inv, RegisterAgent \/ UpdateAgentStatus
    PROVE  Inv'
<1>1. CASE RegisterAgent
  <2>1. UNCHANGED <<up, host, beat, checker, stream, proc, link, hb, loop, wanted, registering, faults>>
    BY <1>1 DEF RegisterAgent, serverVars, agentVars
  <2>2. conn' \in Connections
    BY <1>1, Typed DEF RegisterAgent, Connections, Inv
  <2>3. TypeOK'
    BY <1>1, <2>1, <2>2 DEF RegisterAgent, Inv, TypeOK
  <2>4. Forgotten'
    BY <1>1, <2>1 DEF RegisterAgent, Inv, Forgotten
  <2>5. StreamIsServed'
    BY <1>1, <2>1, NoStreamAssumption DEF RegisterAgent, Inv, StreamIsServed
  <2>6. AgentIsReached'
    BY <1>1, <2>1, NoStreamAssumption DEF RegisterAgent, Inv, AgentIsReached, Forgotten, NoConnection, Free,
       StreamIsServed
  <2>7. Answered'
    BY <1>1, <2>1 DEF RegisterAgent, Inv, Answered
  <2>8. Announced'
    BY <1>1, <2>1 DEF RegisterAgent, Inv, Announced
  <2> QED
    BY <2>1, <2>2, <2>3, <2>4, <2>5, <2>6, <2>7, <2>8, Untouched DEF Inv
<1>2. CASE UpdateAgentStatus
  <2>1. UNCHANGED <<up, conn, beat, checker, stream, link, hb, loop, faults>>
    BY <1>2 DEF UpdateAgentStatus, serverVars, agentVars
  <2>2. wanted' \in SUBSET Callers
    BY <1>2, Typed DEF UpdateAgentStatus, Callers, Inv
  <2>3. registering' \in Callers \cup {"no"}
    BY <1>2, Typed DEF UpdateAgentStatus, Callers, Inv
  <2>4. TypeOK'
    BY <1>2, <2>1, <2>2, <2>3 DEF UpdateAgentStatus, Inv, TypeOK, Connections, Handlers, Links, Loops
  <2>5. Forgotten'
    BY <1>2, <2>1 DEF UpdateAgentStatus, Inv, Forgotten
  <2>6. Answered'
    BY <1>2, <2>1 DEF UpdateAgentStatus, Inv, Answered
  <2>7. Announced'
    BY <1>2, <2>1 DEF UpdateAgentStatus, Inv, Announced
  <2>8. Dead'
    BY <1>2, <2>1 DEF UpdateAgentStatus, Inv, Dead
  <2>9. Mended'
    BY <1>2, <2>1 DEF UpdateAgentStatus, Inv, TypeOK, Mended, Dead
  <2> QED
    BY <2>1, <2>2, <2>3, <2>4, <2>5, <2>6, <2>7, <2>8, <2>9, Untouched DEF Inv
<1> QED
  BY <1>1, <1>2

-----------------------------------------------------------------------------
(* The Heartbeat handler.                                                  *)

LEMMA BeatInv ==
    ASSUME Inv, FindAgent \/ SetStatus \/ UpdateHeartbeat \/ RestoreRow
    PROVE  Inv'
<1>1. CASE FindAgent
  <2>1. UNCHANGED <<up, conn, host, reg, checker, stream, proc, link, loop, wanted, registering, faults>>
    BY <1>1 DEF FindAgent, serverVars, agentVars
  <2>2. TypeOK'
    BY <1>1, <2>1 DEF FindAgent, Answers, Inv, TypeOK
  <2>3. Forgotten'
    BY <1>1, <2>1 DEF FindAgent, Answers, Inv, Forgotten
  <2>4. Answered'
    BY <1>1, <2>1 DEF FindAgent, Answers, Inv, Answered
  <2>5. Dead'
    BY <1>1, <2>1 DEF FindAgent, Answers, Inv, Dead
  <2> QED
    BY <2>1, <2>2, <2>3, <2>4, <2>5, Untouched DEF Inv
<1>2. CASE SetStatus
  <2>1. UNCHANGED <<up, host, reg, checker, stream, proc, link, hb, loop, wanted, registering, faults>>
    BY <1>2 DEF SetStatus, serverVars, agentVars
  <2>2. conn' \in Connections
    BY <1>2, Typed DEF SetStatus, Connections, Inv
  <2>3. TypeOK'
    BY <1>2, <2>1, <2>2 DEF SetStatus, Inv, TypeOK
  <2>4. Forgotten'
    BY <1>2, <2>1 DEF SetStatus, Inv, Forgotten
  <2>5. StreamIsServed'
    BY <1>2, <2>1, NoStreamAssumption DEF SetStatus, Inv, StreamIsServed
  <2>6. AgentIsReached'
    BY <1>2, <2>1, NoStreamAssumption DEF SetStatus, Inv, AgentIsReached
  <2>7. Answered'
    BY <1>2, <2>1 DEF SetStatus, Inv, Answered
  <2>8. Announced'
    BY <1>2, <2>1 DEF SetStatus, Inv, Announced
  <2> QED
    BY <2>1, <2>2, <2>3, <2>4, <2>5, <2>6, <2>7, <2>8, Untouched DEF Inv
<1>3. CASE UpdateHeartbeat
  <2>1. UNCHANGED <<up, host, reg, checker, stream, proc, link, hb, loop, wanted, registering, faults>>
    BY <1>3 DEF UpdateHeartbeat, serverVars, agentVars
  <2>2. conn' \in Connections
    BY <1>3, Typed DEF UpdateHeartbeat, Connections, Inv
  <2>3. TypeOK'
    BY <1>3, <2>1, <2>2 DEF UpdateHeartbeat, Inv, TypeOK, Connections, Handlers, Links, Loops
  <2>4. Forgotten'
    BY <1>3, <2>1 DEF UpdateHeartbeat, Inv, Forgotten
  <2>5. StreamIsServed'
    BY <1>3, <2>1, NoStreamAssumption DEF UpdateHeartbeat, Inv, StreamIsServed
  <2>6. AgentIsReached'
    BY <1>3, <2>1, NoStreamAssumption DEF UpdateHeartbeat, Inv, AgentIsReached
  <2>7. Answered'
    BY <1>3, <2>1 DEF UpdateHeartbeat, Inv, Answered
  <2>8. Announced'
    BY <1>3, <2>1 DEF UpdateHeartbeat, Inv, Announced
  <2> QED
    BY <2>1, <2>2, <2>3, <2>4, <2>5, <2>6, <2>7, <2>8, Untouched DEF Inv
<1>4. CASE RestoreRow
  <2>1. UNCHANGED <<up, conn, reg, checker, stream, proc, link, loop, wanted, registering, faults>>
    BY <1>4 DEF RestoreRow, serverVars, agentVars
  <2>2. TypeOK'
    BY <1>4, <2>1 DEF RestoreRow, Answers, Inv, TypeOK
  <2>3. Forgotten'
    BY <1>4, <2>1 DEF RestoreRow, Answers, Inv, Forgotten
  <2>4. Answered'
    BY <1>4, <2>1 DEF RestoreRow, Answers, Inv, Answered
  <2>5. Announced'
    BY <1>4, <2>1 DEF RestoreRow, Answers, Inv, Announced
  <2>6. Dead'
    BY <1>4, <2>1 DEF RestoreRow, Answers, Inv, Dead
  <2> QED
    BY <2>1, <2>2, <2>3, <2>4, <2>5, <2>6, Untouched DEF Inv
<1> QED
  BY <1>1, <1>2, <1>3, <1>4

-----------------------------------------------------------------------------
(* The heartbeat checker.                                                  *)

LEMMA CheckerInv ==
    ASSUME Inv, CheckStatus \/ CheckAge \/ MarkOffline \/ MarkHostOffline
    PROVE  Inv'
<1>1. CASE CheckStatus
  <2>1. UNCHANGED <<up, conn, host, beat, reg, stream, proc, link, hb, loop, wanted, registering, faults>>
    BY <1>1 DEF CheckStatus, serverVars, agentVars
  <2>2. TypeOK'
    BY <1>1, <2>1 DEF CheckStatus, Inv, TypeOK
  <2>3. Forgotten'
    BY <1>1, <2>1 DEF CheckStatus, Inv, Forgotten
  <2> QED
    BY <2>1, <2>2, <2>3, Untouched DEF Inv
<1>2. CASE CheckAge
  <2>1. UNCHANGED <<up, conn, host, beat, reg, stream, proc, link, hb, loop, wanted, registering, faults>>
    BY <1>2 DEF CheckAge, serverVars, agentVars
  <2>2. TypeOK'
    BY <1>2, <2>1 DEF CheckAge, Inv, TypeOK
  <2>3. Forgotten'
    BY <1>2, <2>1 DEF CheckAge, Inv, Forgotten
  <2> QED
    BY <2>1, <2>2, <2>3, Untouched DEF Inv
<1>3. CASE MarkOffline
  <2>1. UNCHANGED <<up, host, beat, reg, stream, proc, link, hb, loop, wanted, registering, faults>>
    BY <1>3 DEF MarkOffline, serverVars, agentVars
  <2>2. conn' \in Connections
    BY <1>3, Typed DEF MarkOffline, Connections, Inv
  <2>3. TypeOK'
    BY <1>3, <2>1, <2>2 DEF MarkOffline, Inv, TypeOK
  <2>4. Forgotten'
    BY <1>3, <2>1 DEF MarkOffline, Inv, Forgotten
  <2>5. StreamIsServed'
    BY <1>3, <2>1, NoStreamAssumption DEF MarkOffline, Inv, StreamIsServed
  <2>6. AgentIsReached'
    BY <1>3, <2>1, NoStreamAssumption DEF MarkOffline, Inv, AgentIsReached
  <2>7. Announced'
    BY <1>3, <2>1 DEF MarkOffline, Inv, Announced
  <2> QED
    BY <2>1, <2>2, <2>3, <2>4, <2>5, <2>6, <2>7, Untouched DEF Inv
<1>4. CASE MarkHostOffline
  <2>1. UNCHANGED <<up, conn, beat, reg, stream, proc, link, hb, loop, wanted, registering, faults>>
    BY <1>4 DEF MarkHostOffline, serverVars, agentVars
  <2>2. TypeOK'
    BY <1>4, <2>1 DEF MarkHostOffline, Inv, TypeOK, Connections, Handlers, Links, Loops
  <2>3. Forgotten'
    BY <1>4, <2>1 DEF MarkHostOffline, Inv, Forgotten
  <2>4. Announced'
    BY <1>4, <2>1 DEF MarkHostOffline, Inv, Announced
  <2> QED
    BY <2>1, <2>2, <2>3, <2>4, Untouched DEF Inv
<1> QED
  BY <1>1, <1>2, <1>3, <1>4

-----------------------------------------------------------------------------
(* The CommandStream handlers.                                             *)

LEMMA StreamInv ==
    ASSUME Inv, NEW s \in Streams, Identify(s) \/ LoseFirst(s) \/ StreamStatus(s) \/ SetStream(s) \/ RemoveStream(s)
    PROVE  Inv'
<1>1. CASE Identify(s)
  <2>1. UNCHANGED <<up, conn, host, beat, reg, checker, proc, link, hb, wanted, registering, faults>>
    BY <1>1 DEF Identify, serverVars, agentVars
  <2>2. stream' \in [Streams -> Handlers]
    <3>1. stream' = [stream EXCEPT ![s].pc = "status"] \/ stream' = [stream EXCEPT ![s] = Free]
      BY <1>1 DEF Identify, StreamGoes
    <3>2. stream \in [Streams -> Handlers]
      BY Typed
    <3>3. Free \in Handlers
      BY DEF Free, Handlers
    <3>4. [stream[s] EXCEPT !.pc = "status"] \in Handlers
      BY <3>2 DEF Handlers
    <3> QED
      BY <3>1, <3>2, <3>3, <3>4
  <2>3. loop' \in Loops
    BY <1>1, Typed DEF Identify, StreamGoes, Free, Loops, Inv
  <2>4. TypeOK'
    BY <1>1, <2>1, <2>2, <2>3 DEF Identify, StreamGoes, Free, Inv, TypeOK, Connections, Handlers, Links, Loops
  <2>5. Heard'
    BY <1>1, <2>1 DEF Identify, StreamGoes, Free, Inv, TypeOK, Heard
  <2>6. Forgotten'
    BY <1>1, <2>1 DEF Identify, StreamGoes, Free, Inv, TypeOK, Forgotten, NoConnection
  <2>7. StreamIsServed'
    BY <1>1, <2>1, NoStreamAssumption DEF Identify, StreamGoes, Inv, TypeOK, StreamIsServed
  <2>8. OneOpens'
    BY <1>1, <2>1 DEF Identify, StreamGoes, Inv, TypeOK, OneOpens, Opening
  <2>9. AgentIsReached'
    BY <1>1, <2>1, NoStreamAssumption DEF Identify, StreamGoes, Free, Inv, TypeOK, AgentIsReached, Heard,
       Forgotten, NoConnection
  <2>10. Answered'
    BY <1>1, <2>1 DEF Identify, StreamGoes, Free, Inv, TypeOK, Answered, Heard, Forgotten
  <2>11. Dead'
    BY <1>1, <2>1 DEF Identify, StreamGoes, Free, Inv, Dead, Heard
  <2> QED
    BY <2>1, <2>2, <2>3, <2>4, <2>5, <2>6, <2>7, <2>8, <2>9, <2>10, <2>11, Untouched DEF Inv
<1>2. CASE LoseFirst(s)
  <2>1. UNCHANGED <<up, conn, host, beat, reg, checker, proc, link, hb, loop, wanted, registering, faults>>
    BY <1>2 DEF LoseFirst, serverVars, agentVars
  <2>2. stream' \in [Streams -> Handlers]
    BY <1>2, Typed DEF LoseFirst, Free, Handlers, Inv
  <2>3. TypeOK'
    BY <1>2, <2>1, <2>2 DEF LoseFirst, Free, Inv, TypeOK
  <2>4. Heard'
    BY <1>2, <2>1 DEF LoseFirst, Free, Inv, Heard
  <2>5. Forgotten'
    BY <1>2, <2>1 DEF LoseFirst, Free, Inv, Forgotten
  <2>6. StreamIsServed'
    BY <1>2, <2>1, NoStreamAssumption DEF LoseFirst, Inv, StreamIsServed
  <2>7. OneOpens'
    BY <1>2, <2>1 DEF LoseFirst, Inv, OneOpens, Opening
  <2>8. AgentIsReached'
    BY <1>2, <2>1, NoStreamAssumption DEF LoseFirst, Free, Inv, AgentIsReached, OneOpens, Opening, Heard
  <2>9. Answered'
    BY <1>2, <2>1 DEF LoseFirst, Free, Inv, Answered, Heard
  <2> QED
    BY <2>1, <2>2, <2>3, <2>4, <2>5, <2>6, <2>7, <2>8, <2>9, Untouched DEF Inv
<1>3. CASE StreamStatus(s)
  <2>1. UNCHANGED <<up, host, beat, reg, checker, proc, link, hb, loop, wanted, registering, faults>>
    BY <1>3 DEF StreamStatus, serverVars, agentVars
  <2>2. stream' \in [Streams -> Handlers]
    BY <1>3, Typed DEF StreamStatus, StreamGoes, Handlers, Inv
  <2>3. conn' \in Connections
    BY <1>3, Typed DEF StreamStatus, StreamGoes, Connections, Inv
  <2>4. TypeOK'
    BY <1>3, <2>1, <2>2, <2>3 DEF StreamStatus, StreamGoes, Inv, TypeOK, Connections, Handlers, Links, Loops
  <2>5. Heard'
    BY <1>3, <2>1 DEF StreamStatus, StreamGoes, Inv, Heard
  <2>6. Forgotten'
    BY <1>3, <2>1 DEF StreamStatus, StreamGoes, Inv, Forgotten
  <2>7. StreamIsServed'
    BY <1>3, <2>1, NoStreamAssumption DEF StreamStatus, StreamGoes, Inv, StreamIsServed
  <2>8. OneOpens'
    BY <1>3, <2>1 DEF StreamStatus, StreamGoes, Inv, OneOpens, Opening
  <2>9. AgentIsReached'
    BY <1>3, <2>1, NoStreamAssumption DEF StreamStatus, StreamGoes, Inv, AgentIsReached
  <2>10. Answered'
    BY <1>3, <2>1 DEF StreamStatus, StreamGoes, Inv, TypeOK, Answered, Heard, Forgotten, Free
  <2>11. Announced'
    BY <1>3, <2>1 DEF StreamStatus, StreamGoes, Inv, Announced
  <2> QED
    BY <2>1, <2>2, <2>3, <2>4, <2>5, <2>6, <2>7, <2>8, <2>9, <2>10, <2>11, Untouched DEF Inv
<1>4. CASE SetStream(s)
  <2>1. UNCHANGED <<up, host, beat, reg, checker, proc, link, hb, loop, wanted, registering, faults>>
    BY <1>4 DEF SetStream, serverVars, agentVars
  <2>2. stream' \in [Streams -> Handlers]
    BY <1>4, Typed DEF SetStream, StreamGoes, Handlers, Inv
  <2>3. conn' \in Connections
    BY <1>4, Typed DEF SetStream, StreamGoes, Connections, Inv
  <2>4. TypeOK'
    BY <1>4, <2>1, <2>2, <2>3 DEF SetStream, StreamGoes, Inv, TypeOK
  <2>5. Heard'
    BY <1>4, <2>1 DEF SetStream, StreamGoes, Inv, Heard
  <2>6. Forgotten'
    BY <1>4, <2>1 DEF SetStream, StreamGoes, Inv, Forgotten
  <2>7. StreamIsServed'
    BY <1>4, <2>1, NoStreamAssumption DEF SetStream, StreamGoes, Inv, TypeOK, StreamIsServed, Forgotten
  <2>8. OneOpens'
    BY <1>4, <2>1 DEF SetStream, StreamGoes, Inv, OneOpens, Opening
  <2>9. AgentIsReached'
    BY <1>4, <2>1, NoStreamAssumption DEF SetStream, StreamGoes, Inv, AgentIsReached, OneOpens, Opening,
       Heard, Free
  <2>10. Answered'
    BY <1>4, <2>1 DEF SetStream, StreamGoes, Inv, Answered
  <2>11. Announced'
    BY <1>4, <2>1 DEF SetStream, StreamGoes, Inv, Announced
  <2> QED
    BY <2>1, <2>2, <2>3, <2>4, <2>5, <2>6, <2>7, <2>8, <2>9, <2>10, <2>11, Untouched DEF Inv
<1>5. CASE RemoveStream(s)
  <2>1. UNCHANGED <<up, host, beat, reg, checker, proc, link, hb, loop, wanted, registering, faults>>
    BY <1>5 DEF RemoveStream, serverVars, agentVars
  <2>2. stream' \in [Streams -> Handlers]
    BY <1>5, Typed DEF RemoveStream, Free, Handlers, Inv
  <2>3. conn' \in Connections
    BY <1>5, Typed DEF RemoveStream, Free, Connections, Inv
  <2>4. TypeOK'
    BY <1>5, <2>1, <2>2, <2>3 DEF RemoveStream, Free, Inv, TypeOK, Connections, Handlers, Links, Loops
  <2>5. Heard'
    BY <1>5, <2>1 DEF RemoveStream, Free, Inv, Heard
  <2>6. Forgotten'
    BY <1>5, <2>1 DEF RemoveStream, Inv, Forgotten
  <2>7. StreamIsServed'
    BY <1>5, <2>1, NoStreamAssumption DEF RemoveStream, Inv, StreamIsServed
  <2>8. OneOpens'
    BY <1>5, <2>1 DEF RemoveStream, Free, Inv, OneOpens, Opening, Heard, Idle
  <2>9. AgentIsReached'
    BY <1>5, <2>1, NoStreamAssumption DEF RemoveStream, Free, Inv, AgentIsReached, OneOpens, Opening, Heard
  <2>10. Answered'
    BY <1>5, <2>1 DEF RemoveStream, Free, Inv, Answered, Heard
  <2>11. Announced'
    BY <1>5, <2>1 DEF RemoveStream, Inv, Announced
  <2> QED
    BY <2>1, <2>2, <2>3, <2>4, <2>5, <2>6, <2>7, <2>8, <2>9, <2>10, <2>11, Untouched DEF Inv
<1> QED
  BY <1>1, <1>2, <1>3, <1>4, <1>5

-----------------------------------------------------------------------------
(* The agent: registration.                                                *)

LEMMA BeginRegisterInv ==
    ASSUME Inv, NEW w \in Callers, BeginRegister(w)
    PROVE  Inv'
<1>1. UNCHANGED <<up, conn, host, beat, checker, stream, proc, link, hb, loop, faults>>
  BY DEF BeginRegister, serverVars, agentVars
<1>2. wanted' \in SUBSET Callers
  BY Typed DEF BeginRegister, GivenUp, Callers, Inv
<1>3. registering' \in Callers \cup {"no"}
  BY Typed DEF BeginRegister, GivenUp, Callers, Inv
<1>4. TypeOK'
  BY <1>1, <1>2, <1>3 DEF BeginRegister, GivenUp, Callers, Inv, TypeOK
<1>5. Forgotten'
  BY <1>1 DEF BeginRegister, GivenUp, Callers, Inv, Forgotten
<1>6. Answered'
  BY <1>1 DEF BeginRegister, GivenUp, Callers, Inv, Answered
<1>7. Announced'
  BY <1>1 DEF BeginRegister, GivenUp, Callers, Inv, Announced
<1>8. Dead'
  BY <1>1 DEF BeginRegister, GivenUp, Callers, Inv, Dead
<1> QED
  BY <1>1, <1>2, <1>3, <1>4, <1>5, <1>6, <1>7, <1>8, Untouched DEF Inv

-----------------------------------------------------------------------------
(* The agent: the heartbeat loop.                                          *)

LEMMA HeartbeatLoopInv ==
    ASSUME Inv, Heartbeat \/ HeartbeatFailed
    PROVE  Inv'
<1>1. CASE Heartbeat
  <2>1. UNCHANGED <<up, conn, host, reg, checker, stream, proc, link, loop, wanted, registering, faults>>
    BY <1>1 DEF Heartbeat, serverVars, agentVars
  <2>2. TypeOK'
    BY <1>1, <2>1 DEF Heartbeat, Inv, TypeOK
  <2>3. Forgotten'
    BY <1>1, <2>1 DEF Heartbeat, Inv, Forgotten
  <2>4. Answered'
    BY <1>1, <2>1 DEF Heartbeat, Inv, Answered
  <2>5. Dead'
    BY <1>1, <2>1 DEF Heartbeat, Inv, Dead
  <2> QED
    BY <2>1, <2>2, <2>3, <2>4, <2>5, Untouched DEF Inv
<1>2. CASE HeartbeatFailed
  <2>1. UNCHANGED <<up, conn, host, beat, reg, checker, stream, proc, loop, registering, faults>>
    BY <1>2 DEF HeartbeatFailed, serverVars, agentVars
  <2>2. link' \in Links
    BY <1>2, Typed DEF HeartbeatFailed, LosesLink, Callers, Links, Inv
  <2>3. wanted' \in SUBSET Callers
    BY <1>2, Typed DEF HeartbeatFailed, LosesLink, Callers, Inv
  <2>4. TypeOK'
    BY <1>2, <2>1, <2>2, <2>3 DEF HeartbeatFailed, LosesLink, Callers, Inv, TypeOK, Connections, Handlers,
       Links, Loops
  <2>5. Answered'
    BY <1>2, <2>1 DEF HeartbeatFailed, LosesLink, Callers, Inv, Answered
  <2>6. Announced'
    BY <1>2, <2>1 DEF HeartbeatFailed, LosesLink, Callers, Inv, Announced
  <2>7. Dead'
    BY <1>2, <2>1 DEF HeartbeatFailed, LosesLink, Callers, Inv, Dead
  <2>8. Mended'
    BY <1>2, <2>1 DEF HeartbeatFailed, LosesLink, Callers, Inv, TypeOK, Mended
  <2> QED
    BY <2>1, <2>2, <2>3, <2>4, <2>5, <2>6, <2>7, <2>8, Untouched DEF Inv
<1> QED
  BY <1>1, <1>2

-----------------------------------------------------------------------------
(* The agent: a new stream.                                                *)

LEMMA OpenStreamInv ==
    ASSUME Inv, NEW s \in Streams, OpenStream(s)
    PROVE  Inv'
<1>1. UNCHANGED <<up, conn, host, beat, reg, checker, proc, link, hb, wanted, registering, faults>>
  BY DEF OpenStream, serverVars, agentVars
<1>2. stream' \in [Streams -> Handlers]
  <2>1. stream' = stream \/ stream' = [stream EXCEPT ![s] = [pc |-> "init", live |-> TRUE]]
    BY DEF OpenStream
  <2>2. [pc |-> "init", live |-> TRUE] \in Handlers
    BY DEF Handlers
  <2> QED
    BY <2>1, <2>2, Typed
<1>3. loop' \in Loops
  BY Typed DEF OpenStream, Loops, Inv
<1>4. TypeOK'
  BY <1>1, <1>2, <1>3 DEF OpenStream, Inv, TypeOK, Connections, Handlers, Links, Loops
<1>5. Heard'
  BY <1>1 DEF OpenStream, Inv, TypeOK, Heard
<1>6. Forgotten'
  BY <1>1 DEF OpenStream, Inv, TypeOK, Forgotten
<1>7. StreamIsServed'
  BY <1>1, NoStreamAssumption DEF OpenStream, Inv, TypeOK, StreamIsServed
<1>8. OneOpens'
  BY <1>1 DEF OpenStream, Inv, TypeOK, OneOpens, Opening, Heard
<1>9. AgentIsReached'
  BY <1>1, NoStreamAssumption DEF OpenStream, Inv, TypeOK, AgentIsReached, Heard, Forgotten, NoConnection, Free
<1>10. Answered'
  BY <1>1 DEF OpenStream, Inv, TypeOK, Answered
<1>11. Dead'
  BY <1>1 DEF OpenStream, Inv, Dead
<1> QED
  BY <1>1, <1>2, <1>3, <1>4, <1>5, <1>6, <1>7, <1>8, <1>9, <1>10, <1>11, Untouched DEF Inv

-----------------------------------------------------------------------------
(* The agent: the stream loop.                                             *)

LEMMA StreamLoopInv ==
    ASSUME Inv, StreamBroke \/ StreamFailed
    PROVE  Inv'
<1>1. CASE StreamBroke
  <2>1. UNCHANGED <<up, conn, host, beat, reg, checker, stream, proc, link, hb, wanted, registering, faults>>
    BY <1>1 DEF StreamBroke, serverVars, agentVars
  <2>2. loop' \in Loops
    BY <1>1, Typed DEF StreamBroke, Loops, Inv
  <2>3. TypeOK'
    BY <1>1, <2>1, <2>2 DEF StreamBroke, Inv, TypeOK
  <2>4. Heard'
    BY <1>1, <2>1 DEF StreamBroke, Inv, Heard
  <2>5. AgentIsReached'
    BY <1>1, <2>1, NoStreamAssumption DEF StreamBroke, Inv, AgentIsReached
  <2>6. Answered'
    BY <1>1, <2>1 DEF StreamBroke, Inv, Answered
  <2>7. Dead'
    BY <1>1, <2>1 DEF StreamBroke, Inv, Dead
  <2> QED
    BY <2>1, <2>2, <2>3, <2>4, <2>5, <2>6, <2>7, Untouched DEF Inv
<1>2. CASE StreamFailed
  <2>1. UNCHANGED <<up, conn, host, beat, reg, checker, stream, proc, hb, registering, faults>>
    BY <1>2 DEF StreamFailed, serverVars, agentVars
  <2>2. loop' \in Loops
    BY <1>2, Typed DEF StreamFailed, LosesLink, Idle, Callers, Loops, Inv
  <2>3. link' \in Links
    BY <1>2, Typed DEF StreamFailed, LosesLink, Idle, Callers, Links, Inv
  <2>4. wanted' \in SUBSET Callers
    BY <1>2, Typed DEF StreamFailed, LosesLink, Idle, Callers, Inv
  <2>5. TypeOK'
    BY <1>2, <2>1, <2>2, <2>3, <2>4 DEF StreamFailed, LosesLink, Idle, Callers, Inv, TypeOK, Connections,
       Handlers, Links, Loops
  <2>6. Heard'
    BY <1>2, <2>1 DEF StreamFailed, LosesLink, Callers, Inv, Heard
  <2>7. AgentIsReached'
    BY <1>2, <2>1, NoStreamAssumption DEF StreamFailed, LosesLink, Idle, Callers, Inv, AgentIsReached,
       OneOpens, Opening, Heard, Free
  <2>8. Answered'
    BY <1>2, <2>1 DEF StreamFailed, LosesLink, Idle, Callers, Inv, Answered, Heard, Free
  <2>9. Announced'
    BY <1>2, <2>1 DEF StreamFailed, LosesLink, Callers, Inv, Announced
  <2>10. Dead'
    BY <1>2, <2>1 DEF StreamFailed, LosesLink, Callers, Inv, Dead
  <2>11. Mended'
    BY <1>2, <2>1 DEF StreamFailed, LosesLink, Callers, Inv, TypeOK, Mended
  <2> QED
    BY <2>1, <2>2, <2>3, <2>4, <2>5, <2>6, <2>7, <2>8, <2>9, <2>10, <2>11, Untouched DEF Inv
<1> QED
  BY <1>1, <1>2

-----------------------------------------------------------------------------
(* The agent: reconnecting.                                                *)

LEMMA ReconnectInv ==
    ASSUME Inv, TryReconnect \/ Connect \/ Monitor
    PROVE  Inv'
<1>1. CASE TryReconnect
  <2>1. UNCHANGED <<up, conn, host, beat, reg, checker, proc, faults>>
    BY <1>1 DEF TryReconnect, serverVars, agentVars
  <2>2. link' \in Links
    <3>1. \/ link' = [link EXCEPT !.due = FALSE]
          \/ link' = [connected |-> FALSE, due |-> FALSE, reconnecting |-> TRUE]
      BY <1>1 DEF TryReconnect
    <3>2. [connected |-> FALSE, due |-> FALSE, reconnecting |-> TRUE] \in Links
      BY DEF Links
    <3>3. [link EXCEPT !.due = FALSE] \in Links
      BY Typed DEF Links
    <3> QED
      BY <3>1, <3>2, <3>3
  <2>3. wanted' \in SUBSET Callers
    BY <1>1, Typed DEF TryReconnect, CallsFail, GivenUp, Disconnected, Idle, Callers, Inv
  <2>4. registering' \in Callers \cup {"no"}
    BY <1>1, Typed DEF TryReconnect, CallsFail, GivenUp, Disconnected, Idle, Callers, Inv
  <2>5. stream' \in [Streams -> Handlers]
    <3>1. stream' = stream \/ stream' = [s \in Streams |-> [stream[s] EXCEPT !.live = FALSE]]
      BY <1>1 DEF TryReconnect, Disconnected
    <3>2. stream \in [Streams -> Handlers]
      BY Typed
    <3>3. \A s \in Streams : [stream[s] EXCEPT !.live = FALSE] \in Handlers
      BY <3>2 DEF Handlers
    <3> QED
      BY <3>1, <3>2, <3>3
  <2>6. loop' \in Loops
    BY <1>1, Typed DEF TryReconnect, CallsFail, GivenUp, Disconnected, Idle, Callers, Loops, Inv
  <2>7. TypeOK'
    BY <1>1, <2>1, <2>2, <2>3, <2>4, <2>5, <2>6 DEF TryReconnect, CallsFail, GivenUp, Disconnected, Idle,
       Callers, Inv, TypeOK, Connections, Handlers, Links, Loops
  <2>8. Heard'
    BY <1>1, <2>1 DEF TryReconnect, CallsFail, GivenUp, Disconnected, Callers, Inv, TypeOK, Heard
  <2>9. Forgotten'
    BY <1>1, <2>1 DEF TryReconnect, CallsFail, GivenUp, Disconnected, Callers, Inv, TypeOK, Forgotten
  <2>10. StreamIsServed'
    BY <1>1, <2>1, NoStreamAssumption DEF TryReconnect, CallsFail, GivenUp, Disconnected, Callers, Inv,
       TypeOK, StreamIsServed
  <2>11. OneOpens'
    BY <1>1, <2>1 DEF TryReconnect, CallsFail, GivenUp, Disconnected, Callers, Inv, TypeOK, OneOpens, Opening
  <2>12. AgentIsReached'
    BY <1>1, <2>1, NoStreamAssumption DEF TryReconnect, CallsFail, GivenUp, Disconnected, Callers, Inv,
       AgentIsReached
  <2>13. Answered'
    BY <1>1, <2>1 DEF TryReconnect, CallsFail, GivenUp, Disconnected, Idle, Callers, Inv, Answered, Heard, Free
  <2>14. Announced'
    BY <1>1, <2>1 DEF TryReconnect, CallsFail, GivenUp, Disconnected, Callers, Inv, Announced
  <2>15. Dead'
    BY <1>1, <2>1 DEF TryReconnect, CallsFail, GivenUp, Disconnected, Callers, Inv, Dead
  <2>16. Mended'
    BY <1>1, <2>1 DEF TryReconnect, CallsFail, GivenUp, Disconnected, Callers, Inv, TypeOK, Mended
  <2> QED
    BY <2>1, <2>2, <2>3, <2>4, <2>5, <2>6, <2>7, <2>8, <2>9, <2>10, <2>11, <2>12, <2>13, <2>14, <2>15, <2>16,
       Untouched DEF Inv
<1>2. CASE Connect
  <2>1. UNCHANGED <<up, conn, host, beat, reg, checker, stream, proc, hb, loop, registering, faults>>
    BY <1>2 DEF Connect, serverVars, agentVars
  <2>2. link' \in Links
    BY <1>2, Typed DEF Connect, Callers, Links, Inv
  <2>3. wanted' \in SUBSET Callers
    BY <1>2, Typed DEF Connect, Callers, Inv
  <2>4. TypeOK'
    BY <1>2, <2>1, <2>2, <2>3 DEF Connect, Callers, Inv, TypeOK, Connections, Handlers, Links, Loops
  <2>5. Announced'
    BY <1>2, <2>1 DEF Connect, Callers, Inv, Announced
  <2>6. Dead'
    BY <1>2, <2>1 DEF Connect, Callers, Inv, Dead
  <2>7. Mended'
    BY <1>2, <2>1 DEF Connect, Callers, Inv, Mended
  <2> QED
    BY <2>1, <2>2, <2>3, <2>4, <2>5, <2>6, <2>7, Untouched DEF Inv
<1>3. CASE Monitor
  <2>1. UNCHANGED <<up, conn, host, beat, reg, checker, stream, proc, hb, loop, wanted, registering>>
    BY <1>3 DEF Monitor, serverVars, agentVars
  <2>2. link' \in Links
    BY <1>3, Typed DEF Monitor, Fault, Links, Inv
  <2>3. faults' \in 0 .. MaxFaults
    BY <1>3, Typed, FaultsAssumption DEF Monitor, Fault, TypeOK, Inv
  <2>4. TypeOK'
    BY <1>3, <2>1, <2>2, <2>3 DEF Monitor, Fault, Inv, TypeOK, Connections, Handlers, Links, Loops
  <2>5. Dead'
    BY <1>3, <2>1 DEF Monitor, Fault, Inv, Dead
  <2>6. Mended'
    BY <1>3, <2>1 DEF Monitor, Fault, Inv, Mended
  <2> QED
    BY <2>1, <2>2, <2>3, <2>4, <2>5, <2>6, Untouched DEF Inv
<1> QED
  BY <1>1, <1>2, <1>3

-----------------------------------------------------------------------------
(* Faults.                                                                 *)

LEMMA FaultInv ==
    ASSUME Inv, Break \/ Crash \/ Restart \/ Die \/ StartAgent \/ ExpireLate \/ Expire
    PROVE  Inv'
<1>1. CASE Break
  <2>1. UNCHANGED <<up, conn, host, beat, reg, checker, proc, link, loop>>
    BY <1>1 DEF Break, serverVars, agentVars
  <2>2. wanted' \in SUBSET Callers
    BY <1>1, Typed DEF Break, Fault, CallsFail, GivenUp, Disconnected, Callers, Inv
  <2>3. registering' \in Callers \cup {"no"}
    BY <1>1, Typed DEF Break, Fault, CallsFail, GivenUp, Disconnected, Callers, Inv
  <2>4. stream' \in [Streams -> Handlers]
    BY <1>1, Typed DEF Break, Fault, CallsFail, GivenUp, Disconnected, Callers, Handlers, Inv
  <2>5. faults' \in 0 .. MaxFaults
    BY <1>1, Typed, FaultsAssumption DEF Break, Fault, CallsFail, GivenUp, Disconnected, Callers, TypeOK, Inv
  <2>6. TypeOK'
    BY <1>1, <2>1, <2>2, <2>3, <2>4, <2>5 DEF Break, Fault, CallsFail, GivenUp, Disconnected, Callers, Inv,
       TypeOK, Connections, Handlers, Links, Loops
  <2>7. Heard'
    BY <1>1, <2>1 DEF Break, Fault, CallsFail, GivenUp, Disconnected, Callers, Inv, TypeOK, Heard
  <2>8. Forgotten'
    BY <1>1, <2>1 DEF Break, Fault, CallsFail, GivenUp, Disconnected, Callers, Inv, TypeOK, Forgotten
  <2>9. StreamIsServed'
    BY <1>1, <2>1, NoStreamAssumption DEF Break, Fault, CallsFail, GivenUp, Disconnected, Callers, Inv,
       TypeOK, StreamIsServed
  <2>10. OneOpens'
    BY <1>1, <2>1 DEF Break, Fault, CallsFail, GivenUp, Disconnected, Callers, Inv, TypeOK, OneOpens, Opening
  <2>11. AgentIsReached'
    BY <1>1, <2>1, NoStreamAssumption DEF Break, Fault, CallsFail, GivenUp, Disconnected, Callers, Inv,
       AgentIsReached
  <2>12. Answered'
    BY <1>1, <2>1 DEF Break, Fault, CallsFail, GivenUp, Disconnected, Callers, Inv, Answered
  <2>13. Announced'
    BY <1>1, <2>1 DEF Break, Fault, CallsFail, GivenUp, Disconnected, Callers, Inv, Announced
  <2>14. Dead'
    BY <1>1, <2>1 DEF Break, Fault, CallsFail, GivenUp, Disconnected, Callers, Inv, Dead
  <2> QED
    BY <2>1, <2>2, <2>3, <2>4, <2>5, <2>6, <2>7, <2>8, <2>9, <2>10, <2>11, <2>12, <2>13, <2>14, Untouched DEF
       Inv
<1>2. CASE Crash
  <2>1. UNCHANGED <<host, proc, link, loop>>
    BY <1>2 DEF Crash, serverVars, agentVars
  <2>2. conn' \in Connections
    BY <1>2, Typed DEF Crash, Fault, CallsFail, GivenUp, NoConnection, Free, Callers, Connections, Inv
  <2>3. stream' \in [Streams -> Handlers]
    BY <1>2, Typed DEF Crash, Fault, CallsFail, GivenUp, NoConnection, Free, Callers, Handlers, Inv
  <2>4. wanted' \in SUBSET Callers
    BY <1>2, Typed DEF Crash, Fault, CallsFail, GivenUp, NoConnection, Free, Callers, Inv
  <2>5. registering' \in Callers \cup {"no"}
    BY <1>2, Typed DEF Crash, Fault, CallsFail, GivenUp, NoConnection, Free, Callers, Inv
  <2>6. faults' \in 0 .. MaxFaults
    BY <1>2, Typed, FaultsAssumption DEF Crash, Fault, CallsFail, GivenUp, NoConnection, Free, Callers,
       TypeOK, Inv
  <2>7. TypeOK'
    <3>1. /\ up' \in BOOLEAN /\ beat' = "free" /\ reg' = "free" /\ checker' = "idle"
          /\ hb' \in {hb, "transport"} /\ UNCHANGED <<host, proc, link, loop>>
      BY <1>2, <2>1 DEF Crash, CallsFail
    <3> QED
      BY <2>2, <2>3, <2>4, <2>5, <2>6, <3>1 DEF Inv, TypeOK, Connections, Handlers
  <2>8. Heard'
    BY <1>2, <2>1 DEF Crash, Fault, CallsFail, GivenUp, Free, Callers, Inv, Heard
  <2>9. Forgotten'
    BY <1>2, <2>1 DEF Crash, Fault, CallsFail, GivenUp, NoConnection, Free, Callers, Inv, Forgotten
  <2>10. StreamIsServed'
    BY <1>2, <2>1, NoStreamAssumption DEF Crash, Fault, CallsFail, GivenUp, NoConnection, Free, Callers, Inv,
       StreamIsServed, Forgotten
  <2>11. OneOpens'
    BY <1>2, <2>1 DEF Crash, Fault, CallsFail, GivenUp, Free, Callers, Inv, OneOpens, Opening, Heard, Idle
  <2>12. AgentIsReached'
    BY <1>2, <2>1, NoStreamAssumption DEF Crash, Fault, CallsFail, GivenUp, Free, Callers, Inv,
       AgentIsReached, OneOpens, Opening, Heard
  <2>13. Answered'
    BY <1>2, <2>1 DEF Crash, Fault, CallsFail, GivenUp, Free, Callers, Inv, Answered, Heard
  <2>14. Announced'
    BY <1>2, <2>1 DEF Crash, Fault, CallsFail, GivenUp, NoConnection, Free, Callers, Inv, Announced,
       Forgotten, Answered
  <2>15. Dead'
    BY <1>2, <2>1 DEF Crash, Fault, CallsFail, GivenUp, Callers, Inv, Dead
  <2> QED
    BY <2>1, <2>2, <2>3, <2>4, <2>5, <2>6, <2>7, <2>8, <2>9, <2>10, <2>11, <2>12, <2>13, <2>14, <2>15,
       Untouched DEF Inv
<1>3. CASE Restart
  <2>1. UNCHANGED <<conn, host, beat, reg, checker, stream, proc, link, hb, loop, wanted, registering, faults>>
    BY <1>3 DEF Restart, serverVars, agentVars
  <2>2. TypeOK'
    BY <1>3, <2>1 DEF Restart, Inv, TypeOK
  <2>3. Forgotten'
    BY <1>3, <2>1 DEF Restart, Inv, Forgotten
  <2> QED
    BY <2>1, <2>2, <2>3, Untouched DEF Inv
<1>4. CASE Die
  <2>1. UNCHANGED <<up, conn, host, beat, reg, checker>>
    BY <1>4 DEF Die, serverVars, agentVars
  <2>2. link' \in Links
    BY <1>4, Typed DEF Die, Fault, Dialled, Idle, Disconnected, Links, Inv
  <2>3. loop' \in Loops
    BY <1>4, Typed DEF Die, Fault, Dialled, Idle, Disconnected, Loops, Inv
  <2>4. wanted' \in SUBSET Callers
    BY <1>4, Typed DEF Die, Fault, Dialled, Idle, Disconnected, Callers, Inv
  <2>5. registering' \in Callers \cup {"no"}
    BY <1>4, Typed DEF Die, Fault, Dialled, Idle, Disconnected, Callers, Inv
  <2>6. stream' \in [Streams -> Handlers]
    BY <1>4, Typed DEF Die, Fault, Dialled, Idle, Disconnected, Handlers, Inv
  <2>7. faults' \in 0 .. MaxFaults
    BY <1>4, Typed, FaultsAssumption DEF Die, Fault, Dialled, Idle, Disconnected, TypeOK, Inv
  <2>8. TypeOK'
    BY <1>4, <2>1, <2>2, <2>3, <2>4, <2>5, <2>6, <2>7 DEF Die, Fault, Dialled, Idle, Disconnected, Inv,
       TypeOK, Connections, Handlers, Links, Loops
  <2>9. Heard'
    BY <1>4, <2>1 DEF Die, Fault, Dialled, Disconnected, Inv, TypeOK, Heard
  <2>10. Forgotten'
    BY <1>4, <2>1 DEF Die, Fault, Dialled, Disconnected, Inv, TypeOK, Forgotten
  <2>11. StreamIsServed'
    BY <1>4, <2>1, NoStreamAssumption DEF Die, Fault, Dialled, Disconnected, Inv, TypeOK, StreamIsServed
  <2>12. OneOpens'
    BY <1>4, <2>1 DEF Die, Fault, Dialled, Disconnected, Inv, TypeOK, OneOpens, Opening
  <2>13. AgentIsReached'
    BY <1>4, <2>1, NoStreamAssumption DEF Die, Fault, Dialled, Disconnected, Inv, AgentIsReached
  <2>14. Answered'
    BY <1>4, <2>1 DEF Die, Fault, Dialled, Idle, Disconnected, Inv, Answered, Heard, Free
  <2>15. Announced'
    BY <1>4, <2>1 DEF Die, Fault, Dialled, Disconnected, Inv, Announced
  <2>16. Dead'
    BY <1>4, <2>1 DEF Die, Fault, Dialled, Idle, Disconnected, Inv, Dead, Heard
  <2>17. Mended'
    BY <1>4, <2>1 DEF Die, Fault, Dialled, Disconnected, Inv, Mended
  <2> QED
    BY <2>1, <2>2, <2>3, <2>4, <2>5, <2>6, <2>7, <2>8, <2>9, <2>10, <2>11, <2>12, <2>13, <2>14, <2>15, <2>16,
       <2>17, Untouched DEF Inv
<1>5. CASE StartAgent
  <2>1. UNCHANGED <<up, conn, host, beat, reg, checker, stream, hb, loop, registering, faults>>
    BY <1>5 DEF StartAgent, serverVars, agentVars
  <2>2. link' \in Links
    BY <1>5, Typed DEF StartAgent, Dialled, Callers, Links, Inv
  <2>3. wanted' \in SUBSET Callers
    BY <1>5, Typed DEF StartAgent, Dialled, Callers, Inv
  <2>4. TypeOK'
    BY <1>5, <2>1, <2>2, <2>3 DEF StartAgent, Dialled, Callers, Inv, TypeOK
  <2>5. Announced'
    BY <1>5, <2>1 DEF StartAgent, Dialled, Callers, Inv, TypeOK, Announced, Forgotten, NoConnection, Answered,
       Dead
  <2>6. Dead'
    BY <1>5, <2>1 DEF StartAgent, Dialled, Callers, Inv, Dead
  <2>7. Mended'
    BY <1>5, <2>1 DEF StartAgent, Dialled, Callers, Inv, Mended
  <2> QED
    BY <2>1, <2>2, <2>3, <2>4, <2>5, <2>6, <2>7, Untouched DEF Inv
<1>6. CASE ExpireLate
  <2>1. UNCHANGED <<up, host, beat, reg, checker, stream, proc, link, hb, loop, wanted, registering>>
    BY <1>6 DEF ExpireLate, serverVars, agentVars
  <2>2. conn' \in Connections
    BY <1>6, Typed DEF ExpireLate, Fault, Expires, Connections, Inv
  <2>3. faults' \in 0 .. MaxFaults
    BY <1>6, Typed, FaultsAssumption DEF ExpireLate, Fault, Expires, TypeOK, Inv
  <2>4. TypeOK'
    BY <1>6, <2>1, <2>2, <2>3 DEF ExpireLate, Fault, Expires, Inv, TypeOK, Connections, Handlers, Links, Loops
  <2>5. Forgotten'
    BY <1>6, <2>1 DEF ExpireLate, Fault, Expires, Inv, Forgotten, Free, NoConnection
  <2>6. StreamIsServed'
    BY <1>6, <2>1, NoStreamAssumption DEF ExpireLate, Fault, Expires, Inv, StreamIsServed
  <2>7. AgentIsReached'
    BY <1>6, <2>1, NoStreamAssumption DEF ExpireLate, Fault, Expires, Inv, AgentIsReached
  <2>8. Announced'
    BY <1>6, <2>1 DEF ExpireLate, Fault, Expires, Inv, Announced
  <2> QED
    BY <2>1, <2>2, <2>3, <2>4, <2>5, <2>6, <2>7, <2>8, Untouched DEF Inv
<1>7. CASE Expire
  <2>1. UNCHANGED <<up, host, beat, reg, checker, stream, proc, link, hb, loop, wanted, registering, faults>>
    BY <1>7 DEF Expire, serverVars, agentVars
  <2>2. conn' \in Connections
    BY <1>7, Typed DEF Expire, Expires, Connections, Inv
  <2>3. TypeOK'
    BY <1>7, <2>1, <2>2 DEF Expire, Expires, Inv, TypeOK, Connections, Handlers, Links, Loops
  <2>4. Forgotten'
    BY <1>7, <2>1 DEF Expire, Expires, Inv, Forgotten, Free, NoConnection
  <2>5. StreamIsServed'
    BY <1>7, <2>1, NoStreamAssumption DEF Expire, Expires, Inv, StreamIsServed
  <2>6. AgentIsReached'
    BY <1>7, <2>1, NoStreamAssumption DEF Expire, Expires, Inv, AgentIsReached
  <2>7. Announced'
    BY <1>7, <2>1 DEF Expire, Expires, Inv, Announced
  <2> QED
    BY <2>1, <2>2, <2>3, <2>4, <2>5, <2>6, <2>7, Untouched DEF Inv
<1> QED
  BY <1>1, <1>2, <1>3, <1>4, <1>5, <1>6, <1>7

-----------------------------------------------------------------------------
(* The specification.                                                      *)

LEMMA InitInv == Init => Inv
<1> SUFFICES ASSUME Init PROVE Inv
  OBVIOUS
<1>1. TypeOK
  BY FaultsAssumption DEF Init, NoConnection, Free, Idle, Dialled, Callers, TypeOK
<1>2. Heard /\ Forgotten /\ StreamIsServed /\ OneOpens /\ AgentIsReached
  BY DEF Init, NoConnection, Free, Heard, Forgotten, StreamIsServed, OneOpens, Opening, AgentIsReached
<1>3. Answered /\ Announced /\ Dead /\ Mended
  BY DEF Init, NoConnection, Free, Idle, Dialled, Answered, Announced, Dead, Mended
<1> QED
  BY <1>1, <1>2, <1>3 DEF Inv

LEMMA NextInv == Inv /\ [Next]_vars => Inv'
<1> SUFFICES ASSUME Inv, [Next]_vars PROVE Inv'
  OBVIOUS
<1>1. CASE Next
  BY <1>1, RegisterInv, BeatInv, CheckerInv, StreamInv, BeginRegisterInv, HeartbeatLoopInv, OpenStreamInv,
     StreamLoopInv, ReconnectInv, FaultInv DEF Next, BeatStep, RegStep, CheckerStep, LoopStep, StreamStep
<1>2. CASE UNCHANGED vars
  <2>1. TypeOK'
    BY <1>2 DEF vars, serverVars, agentVars, Inv, TypeOK
  <2> QED
    BY <1>2, <2>1, Untouched DEF vars, serverVars, agentVars, Inv
<1> QED
  BY <1>1, <1>2

LEMMA Safe == Spec => []Inv
BY InitInv, NextInv, PTL DEF Spec

\* Every variable keeps its type: whoever asks for a registration is one of those
\* that wait for it, and a loop listens to a stream (registerWithControlPlane).
THEOREM TypeCorrect == Spec => []TypeOK
<1>1. Inv => TypeOK
  BY DEF Inv
<1> QED
  BY <1>1, Safe, PTL

\* Whatever breaks, and in whatever order old and new streams end and begin, the
\* manager never keeps a stream whose handler has ended (SetAgentStream,
\* RemoveAgentStream, RegisterAgent).
THEOREM StreamsAreServed == Spec => []StreamIsServed
<1>1. Inv => StreamIsServed
  BY DEF Inv
<1> QED
  BY <1>1, Safe, PTL

\* Commands go to the stream the agent listens to from the moment its handler
\* serves it, unless the server sees a stream after a newer one (SetAgentStream).
THEOREM CommandsReachTheAgent == Spec => []AgentIsReached
<1>1. Inv => AgentIsReached
  BY DEF Inv
<1> QED
  BY <1>1, Safe, PTL

\* A heartbeat, a registration or a stream that the agent waits for has a handler
\* at work, or is broken and the agent can see it (Heartbeat, Register,
\* CommandStream).
THEOREM NobodyWaitsInVain == Spec => []Answered
<1>1. Inv => Answered
  BY DEF Inv
<1> QED
  BY <1>1, Safe, PTL

\* A lost link is being mended, and an agent that has not registered yet keeps on
\* asking (triggerReconnectAndRegister, TryReconnect, registerWithControlPlane).
THEOREM LinkIsMended == Spec => [](Mended /\ Announced)
<1>1. Inv => Mended /\ Announced
  BY DEF Inv
<1> QED
  BY <1>1, Safe, PTL
=============================================================================
