------------------------ MODULE CommandDispatch_proofs ------------------------
(* Proofs about CommandDispatch, for every set of commands, any number of  *)
(* streams and of progress reports.                                        *)
EXTENDS CommandDispatch, SequenceTheorems, TLAPS

\* The agent has not seen the command, and it is not on its way.
Unseen(c) == work[c] = "none" /\ \A s \in Streams : c \notin down[s]

Unsent == {"idle", "check", "stream", "send", "refuse"}

\* The agent sees a command once: not before it is sent, not if it is refused, and
\* not while it still waits on a stream, which is the only one it waits on.
Once ==
    /\ \A c \in Commands :
        /\ caller[c].pc \in Unsent \/ caller[c].answer = "refused" => Unseen(c)
        /\ caller[c].pc \notin {"record", "done"} => caller[c].answer = "none"
        /\ caller[c].pc = "send" => caller[c].stream \in Streams
        /\ work[c] # "none" => agent[c].stream \in Streams
    /\ \A s, t \in Streams : \A c \in Commands :
        /\ c \in down[s] => work[c] = "none"
        /\ c \in down[s] /\ c \in down[t] => s = t

\* Wherever a success is on its way or kept, the handler has succeeded.
Faithful(msg) == msg.status = "success" => work[msg.cmd] = "success"

Told(c) == "success" \in {caller[c].answer, context[c].last, context[c].result, log[c]}

Honest ==
    /\ \A s \in Streams : \A i \in 1 .. Len(up[s]) : Faithful(up[s][i])
    /\ \A s \in Streams : server[s].pc # "recv" => server[s].msg \in Message /\ Faithful(server[s].msg)
    /\ \A s \in Streams : server[s].pc = "wake" => server[s].msg.status \in Replies
    /\ \A c \in Commands : Told(c) => work[c] = "success"

Inv == TypeOK /\ Once /\ Honest

LEMMA InvInit == Init => Inv
BY StreamsAssumption, ReportsAssumption
   DEF Init, Inv, TypeOK, Once, Unseen, Honest, Told, Connection, Server, Caller,
       CommandContext, Executor, Streams, NoStream, Statuses, Replies, Message

-----------------------------------------------------------------------------
(* What each kind of step leaves alone.                                    *)

\* A step of one caller.
LEMMA OnceCaller ==
    ASSUME Once, NEW c \in Commands, UNCHANGED <<down, work, agent>>,
           \A d \in Commands \ {c} : caller'[d] = caller[d],
           caller'[c].pc \in Unsent \/ caller'[c].answer = "refused"
              => caller[c].pc \in Unsent \/ caller[c].answer = "refused",
           caller'[c].pc \notin {"record", "done"} => caller'[c].answer = "none",
           caller'[c].pc = "send" => caller'[c].stream \in Streams
    PROVE  Once'
BY DEF Once, Unseen

\* A step that puts nothing on a stream, while no success is undone.
LEMMA HonestStep ==
    ASSUME TypeOK, Honest, UNCHANGED <<up, server>>,
           \A c \in Commands : work[c] = "success" => work'[c] = "success",
           \A c \in Commands : Told(c)' => work'[c] = "success"
    PROVE  Honest'
<1>1. \A msg \in Message : Faithful(msg) => Faithful(msg)'
  BY DEF Faithful, Message
<1>2. \A s \in Streams : \A i \in 1 .. Len(up[s]) : up[s][i] \in Message
  BY DEF TypeOK
<1>3. \A s \in Streams : \A i \in 1 .. Len(up'[s]) : Faithful(up[s][i])'
  BY <1>1, <1>2 DEF Honest
<1>4. \A s \in Streams : server'[s].pc # "recv" => server'[s].msg \in Message /\ Faithful(server[s].msg)'
  BY <1>1 DEF Honest
<1> QED
  BY <1>3, <1>4 DEF Honest

LEMMA CallerGoesTo ==
    ASSUME TypeOK, NEW c \in Commands, NEW pc \in Unsent \cup {"wait", "record", "done"},
           CallerGoes(c, pc)
    PROVE  /\ caller' \in [Commands -> Caller]
           /\ caller'[c].pc = pc
           /\ caller'[c].answer = caller[c].answer
           /\ caller'[c].stream = caller[c].stream
           /\ \A d \in Commands \ {c} : caller'[d] = caller[d]
           /\ \A d \in Commands : caller'[d].answer = caller[d].answer
<1>1. caller \in [Commands -> Caller] /\ pc \in {"idle", "check", "stream", "send", "wait", "refuse", "record", "done"}
  BY DEF TypeOK, Unsent
<1>2. /\ caller' = [caller EXCEPT ![c] = [caller[c] EXCEPT !.pc = pc]]
      /\ caller[c] \in Caller
  BY <1>1 DEF CallerGoes
<1>3. /\ [caller[c] EXCEPT !.pc = pc] \in Caller
      /\ [caller[c] EXCEPT !.pc = pc].pc = pc
      /\ [caller[c] EXCEPT !.pc = pc].answer = caller[c].answer
      /\ [caller[c] EXCEPT !.pc = pc].stream = caller[c].stream
  BY <1>1, <1>2 DEF Caller
<1>4. caller'[c] = [caller[c] EXCEPT !.pc = pc] /\ \A d \in Commands \ {c} : caller'[d] = caller[d]
  BY <1>1, <1>2
<1>5. caller' \in [Commands -> Caller]
  BY <1>1, <1>2, <1>3
<1> QED
  BY <1>3, <1>4, <1>5

\* A context keeps its statuses when it is stored or taken out.
LEMMA StoredOrNot ==
    ASSUME TypeOK, NEW c \in Commands, NEW stored \in BOOLEAN,
           context' = [context EXCEPT ![c].stored = stored]
    PROVE  /\ context' \in [Commands -> CommandContext]
           /\ \A d \in Commands : context'[d].last = context[d].last
           /\ \A d \in Commands : context'[d].result = context[d].result
<1>1. context \in [Commands -> CommandContext]
  BY DEF TypeOK
<1>2. context' = [context EXCEPT ![c] = [context[c] EXCEPT !.stored = stored]]
  BY <1>1
<1>3. /\ [context[c] EXCEPT !.stored = stored] \in CommandContext
      /\ [context[c] EXCEPT !.stored = stored].last = context[c].last
      /\ [context[c] EXCEPT !.stored = stored].result = context[c].result
  BY <1>1 DEF CommandContext
<1> QED
  BY <1>1, <1>2, <1>3

-----------------------------------------------------------------------------
(* The caller.                                                             *)

LEMMA BeginInv == ASSUME Inv, NEW c \in Commands, Begin(c) PROVE Inv'
<1>1. CallerGoes(c, "check") /\ "check" \in Unsent
  BY DEF Begin, Unsent
<1>2. TypeOK'
  BY <1>1, CallerGoesTo DEF Begin, Inv, TypeOK
<1>3. Once'
  BY <1>1, CallerGoesTo, OnceCaller DEF Begin, Inv, Once, Unsent
<1>4. Honest'
  <2>1. \A d \in Commands : log'[d] = "success" => log[d] = "success"
    BY DEF Begin, Inv, TypeOK
  <2> QED
    BY <1>1, <2>1, CallerGoesTo, HonestStep DEF Begin, Inv, Honest, Told
<1> QED
  BY <1>2, <1>3, <1>4 DEF Inv

LEMMA CheckStatusInv == ASSUME Inv, NEW c \in Commands, CheckStatus(c) PROVE Inv'
<1>1. \E pc \in {"stream", "refuse"} : CallerGoes(c, pc)
  BY DEF CheckStatus
<1>2. TypeOK'
  BY <1>1, CallerGoesTo DEF CheckStatus, Inv, TypeOK, Unsent
<1>3. Once'
  BY <1>1, CallerGoesTo, OnceCaller DEF CheckStatus, Inv, Once, Unsent
<1>4. Honest'
  BY <1>1, CallerGoesTo, HonestStep DEF CheckStatus, Inv, Honest, Told, Unsent
<1> QED
  BY <1>2, <1>3, <1>4 DEF Inv

LEMMA WaitForStreamInv == ASSUME Inv, NEW c \in Commands, WaitForStream(c) PROVE Inv'
<1>1. CASE conn.stream = NoStream /\ CallerGoes(c, "refuse")
  <2>1. TypeOK'
    BY <1>1, CallerGoesTo DEF WaitForStream, Inv, TypeOK, Unsent
  <2>2. Once'
    BY <1>1, CallerGoesTo, OnceCaller DEF WaitForStream, Inv, Once, Unsent
  <2>3. Honest'
    BY <1>1, CallerGoesTo, HonestStep DEF WaitForStream, Inv, Honest, Told, Unsent
  <2> QED
    BY <2>1, <2>2, <2>3 DEF Inv
<1>2. CASE /\ conn.stream # NoStream
           /\ caller' = [caller EXCEPT ![c].pc = "send", ![c].stream = conn.stream]
  <2>1. conn.stream \in Streams /\ caller[c] \in Caller
    BY <1>2 DEF Inv, TypeOK, Connection
  <2>2. /\ [caller[c] EXCEPT !.pc = "send", !.stream = conn.stream] \in Caller
        /\ caller' = [caller EXCEPT ![c] = [caller[c] EXCEPT !.pc = "send", !.stream = conn.stream]]
    BY <1>2, <2>1 DEF Inv, TypeOK, Caller
  <2>3. /\ caller' \in [Commands -> Caller]
        /\ \A d \in Commands \ {c} : caller'[d] = caller[d]
        /\ caller'[c].pc = "send" /\ caller'[c].stream \in Streams
        /\ caller'[c].answer = caller[c].answer
    BY <2>1, <2>2 DEF Inv, TypeOK, Caller
  <2>4. TypeOK'
    BY <2>3 DEF WaitForStream, Inv, TypeOK
  <2>5. Once'
    BY <2>3, OnceCaller DEF WaitForStream, Inv, Once, Unsent
  <2>6. Honest'
    BY <2>3, HonestStep DEF WaitForStream, Inv, Honest, Told
  <2> QED
    BY <2>4, <2>5, <2>6 DEF Inv
<1> QED
  BY <1>1, <1>2 DEF WaitForStream

LEMMA SendInv == ASSUME Inv, NEW c \in Commands, Send(c) PROVE Inv'
<1> DEFINE s == caller[c].stream
<1>0. s \in Streams /\ caller[c].pc = "send" /\ Unseen(c) /\ caller[c].answer = "none"
  BY DEF Send, Inv, Once, Unsent
<1>1. CASE CallerGoes(c, "refuse") /\ UNCHANGED <<context, down>>
  <2>1. TypeOK'
    BY <1>1, CallerGoesTo DEF Send, Inv, TypeOK, Unsent
  <2>2. Once'
    BY <1>0, <1>1, CallerGoesTo, OnceCaller DEF Send, Inv, Unsent
  <2>3. Honest'
    BY <1>1, CallerGoesTo, HonestStep DEF Send, Inv, Honest, Told, Unsent
  <2> QED
    BY <2>1, <2>2, <2>3 DEF Inv
<1>2. ASSUME /\ context' = [context EXCEPT ![c].stored = TRUE]
             /\ down' = [down EXCEPT ![s] = IF stream[s] = "open" THEN @ \cup {c} ELSE @]
             /\ CallerGoes(c, IF c \in Sync THEN "wait" ELSE "done")
      PROVE  Inv'
  <2>1. PICK pc \in {"wait", "done"} : CallerGoes(c, pc)
    BY <1>2
  <2>2. /\ caller' \in [Commands -> Caller]
        /\ caller'[c].pc \in {"wait", "done"} /\ caller'[c].answer = "none"
        /\ \A d \in Commands \ {c} : caller'[d] = caller[d]
    BY <1>0, <2>1, CallerGoesTo DEF Inv
  <2>3. /\ context' \in [Commands -> CommandContext]
        /\ \A d \in Commands : context'[d].last = context[d].last
        /\ \A d \in Commands : context'[d].result = context[d].result
    BY <1>2, StoredOrNot DEF Inv
  <2>4. /\ down' \in [Streams -> SUBSET Commands]
        /\ \A t \in Streams : \A d \in Commands :
              d \in down'[t] => d \in down[t] \/ (d = c /\ t = s)
    BY <1>0, <1>2 DEF Inv, TypeOK
  <2>5. TypeOK'
    BY <2>2, <2>3, <2>4 DEF Send, Inv, TypeOK
  <2>6. Once'
    <3>1. UNCHANGED <<work, agent>>
      BY DEF Send
    <3>2. ASSUME NEW d \in Commands
          PROVE  /\ caller'[d].pc \in Unsent \/ caller'[d].answer = "refused" => Unseen(d)'
                 /\ caller'[d].pc \notin {"record", "done"} => caller'[d].answer = "none"
                 /\ caller'[d].pc = "send" => caller'[d].stream \in Streams
                 /\ work'[d] # "none" => agent'[d].stream \in Streams
      <4>1. CASE d = c
        BY <1>0, <2>2, <3>1, <4>1 DEF Inv, Once, Unsent, Unseen
      <4>2. CASE d # c
        BY <2>2, <2>4, <3>1, <4>2 DEF Inv, Once, Unsent, Unseen
      <4> QED
        BY <4>1, <4>2
    <3>3. \A t, u \in Streams : \A d \in Commands :
             /\ d \in down'[t] => work'[d] = "none"
             /\ d \in down'[t] /\ d \in down'[u] => t = u
      BY <1>0, <2>4, <3>1 DEF Inv, Once, Unseen
    <3> QED
      BY <3>2, <3>3 DEF Once
  <2>7. Honest'
    <3>1. \A d \in Commands : caller'[d].answer = caller[d].answer
      BY <1>0, <2>2
    <3> QED
      BY <2>3, <3>1, HonestStep DEF Send, Inv, Honest, Told
  <2> QED
    BY <2>5, <2>6, <2>7 DEF Inv
<1> QED
  BY <1>1, <1>2 DEF Send

\* The caller is told something, and nothing else happens to what the agent knows.
LEMMA CallerTold ==
    ASSUME Inv, NEW c \in Commands, NEW pc \in {"record", "done"},
           NEW answer \in {"none", "refused", "success", "error"}, NEW cancelled \in BOOLEAN,
           caller' = [caller EXCEPT ![c] =
                         [caller[c] EXCEPT !.pc = pc, !.answer = answer, !.cancelled = cancelled]],
           UNCHANGED <<down, work, agent>>,
           answer = "refused" => caller[c].pc \in Unsent \/ caller[c].answer = "refused"
    PROVE  /\ caller' \in [Commands -> Caller]
           /\ Once'
           /\ caller'[c].answer = answer
           /\ \A d \in Commands \ {c} : caller'[d] = caller[d]
<1>1. caller[c] \in Caller
  BY DEF Inv, TypeOK
<1>2. [caller[c] EXCEPT !.pc = pc, !.answer = answer, !.cancelled = cancelled] \in Caller
  BY <1>1 DEF Caller
<1>3. /\ caller' \in [Commands -> Caller]
      /\ \A d \in Commands \ {c} : caller'[d] = caller[d]
      /\ caller'[c].pc = pc /\ caller'[c].answer = answer
  BY <1>1, <1>2 DEF Inv, TypeOK, Caller
<1>4. Once'
  BY <1>3, OnceCaller DEF Inv, Unsent
<1> QED
  BY <1>3, <1>4

LEMMA RefuseInv == ASSUME Inv, NEW c \in Commands, Refuse(c) PROVE Inv'
<1>1. caller[c].cancelled \in BOOLEAN
  BY DEF Inv, TypeOK, Caller
<1>2. caller' = [caller EXCEPT ![c] = [caller[c] EXCEPT !.pc = "done", !.answer = "refused",
                                                        !.cancelled = caller[c].cancelled]]
  BY DEF Refuse, Inv, TypeOK, Caller
<1>3. UNCHANGED <<conn, stream, down, up, server, context, agent, work>>
  BY DEF Refuse
<1>4. /\ caller' \in [Commands -> Caller]
      /\ Once'
      /\ caller'[c].answer = "refused"
      /\ \A d \in Commands \ {c} : caller'[d] = caller[d]
  BY <1>1, <1>2, <1>3, CallerTold DEF Refuse, Unsent
<1>5. /\ log' \in [Commands -> Statuses \cup {"absent", "pending"}]
      /\ \A d \in Commands : log'[d] = "success" => log[d] = "success"
  BY DEF Refuse, Inv, TypeOK, Statuses, Replies
<1>6. TypeOK'
  BY <1>3, <1>4, <1>5 DEF Inv, TypeOK
<1>7. Honest'
  BY <1>3, <1>4, <1>5, HonestStep DEF Inv, Honest, Told
<1> QED
  BY <1>4, <1>6, <1>7 DEF Inv

LEMMA GetResultInv == ASSUME Inv, NEW c \in Commands, GetResult(c) PROVE Inv'
<1> DEFINE answer == IF context[c].result = "success" THEN "success" ELSE "error"
<1>1. PICK cancelled \in BOOLEAN :
         caller' = [caller EXCEPT ![c].pc = "record", ![c].cancelled = cancelled,
                                  ![c].answer = answer]
  BY DEF GetResult
<1>2. caller' = [caller EXCEPT ![c] = [caller[c] EXCEPT !.pc = "record", !.answer = answer,
                                                        !.cancelled = cancelled]]
  BY <1>1 DEF Inv, TypeOK, Caller
<1>3. UNCHANGED <<conn, stream, down, up, server, log, agent, work>>
  BY DEF GetResult
<1>4. answer \in {"success", "error"} /\ (answer = "success" => Told(c))
  BY DEF Told
<1> HIDE DEF answer
<1>5. /\ caller' \in [Commands -> Caller]
      /\ Once'
      /\ caller'[c].answer = answer
      /\ \A d \in Commands \ {c} : caller'[d] = caller[d]
  BY <1>2, <1>3, <1>4, CallerTold
<1>6. /\ context' \in [Commands -> CommandContext]
      /\ \A d \in Commands : context'[d].last = context[d].last
      /\ \A d \in Commands : context'[d].result = context[d].result
  <2>1. context' = [context EXCEPT ![c].stored = FALSE]
    BY DEF GetResult
  <2> QED
    BY <2>1, StoredOrNot DEF Inv
<1>7. TypeOK'
  BY <1>3, <1>5, <1>6 DEF Inv, TypeOK
<1>8. Honest'
  BY <1>3, <1>5, <1>6, <1>4, HonestStep DEF Inv, Honest, Told
<1> QED
  BY <1>5, <1>7, <1>8 DEF Inv

LEMMA GiveUpInv == ASSUME Inv, NEW c \in Commands, GiveUp(c) PROVE Inv'
<1>1. PICK cancelled \in BOOLEAN :
         caller' = [caller EXCEPT ![c].pc = "record", ![c].answer = "error",
                                  ![c].cancelled = cancelled]
  BY DEF GiveUp
<1>2. caller' = [caller EXCEPT ![c] = [caller[c] EXCEPT !.pc = "record", !.answer = "error",
                                                        !.cancelled = cancelled]]
  BY <1>1 DEF Inv, TypeOK, Caller
<1>3. UNCHANGED <<conn, stream, down, up, server, log, agent, work>>
  BY DEF GiveUp
<1>4. /\ caller' \in [Commands -> Caller]
      /\ Once'
      /\ caller'[c].answer = "error"
      /\ \A d \in Commands \ {c} : caller'[d] = caller[d]
  BY <1>2, <1>3, CallerTold
<1>5. /\ context' \in [Commands -> CommandContext]
      /\ \A d \in Commands : context'[d].last = context[d].last
      /\ \A d \in Commands : context'[d].result = context[d].result
  <2>1. context[c] \in CommandContext
    BY DEF Inv, TypeOK
  <2>2. /\ [context[c] EXCEPT !.stored = FALSE, !.done = TRUE] \in CommandContext
        /\ context' = [context EXCEPT ![c] = [context[c] EXCEPT !.stored = FALSE, !.done = TRUE]]
    BY <2>1 DEF GiveUp, Inv, TypeOK, CommandContext
  <2> QED
    BY <2>1, <2>2 DEF Inv, TypeOK, CommandContext
<1>6. TypeOK'
  BY <1>3, <1>4, <1>5 DEF Inv, TypeOK
<1>7. Honest'
  BY <1>3, <1>4, <1>5, HonestStep DEF Inv, Honest, Told
<1> QED
  BY <1>4, <1>6, <1>7 DEF Inv

LEMMA RecordInv == ASSUME Inv, NEW c \in Commands, Record(c) PROVE Inv'
<1>1. CallerGoes(c, "done")
  BY DEF Record
<1>2. /\ log' \in [Commands -> Statuses \cup {"absent", "pending"}]
      /\ \A d \in Commands : log'[d] = "success" => log[d] = "success" \/ caller[d].answer = "success"
  BY DEF Record, Inv, TypeOK, Statuses, Replies
<1>3. TypeOK'
  BY <1>1, <1>2, CallerGoesTo DEF Record, Inv, TypeOK
<1>4. Once'
  BY <1>1, CallerGoesTo, OnceCaller DEF Record, Inv, Once, Unsent
<1>5. Honest'
  BY <1>1, <1>2, CallerGoesTo, HonestStep DEF Record, Inv, Honest, Told
<1> QED
  BY <1>3, <1>4, <1>5 DEF Inv

LEMMA CallerInv == ASSUME Inv, NEW c \in Commands, CallerStep(c) PROVE Inv'
BY BeginInv, CheckStatusInv, WaitForStreamInv, SendInv, RefuseInv, GetResultInv, GiveUpInv,
   RecordInv DEF CallerStep

-----------------------------------------------------------------------------
(* The goroutine that serves a stream.                                     *)

\* A step that tells no caller and does not touch the agent.
LEMMA OnceKept ==
    ASSUME Once, UNCHANGED <<caller, down, agent, work>>
    PROVE  Once'
BY DEF Once, Unseen

LEMMA ServerGoesTo ==
    ASSUME TypeOK, NEW s \in Streams, NEW pc \in {"recv", "apply", "wake", "log"},
           ServerGoes(s, pc)
    PROVE  /\ server' \in [Streams -> Server]
           /\ server'[s].pc = pc
           /\ \A t \in Streams : server'[t].msg = server[t].msg
           /\ \A t \in Streams \ {s} : server'[t] = server[t]
<1>1. server \in [Streams -> Server] /\ server[s] \in Server
  BY DEF TypeOK
<1>2. server' = [server EXCEPT ![s] = [server[s] EXCEPT !.pc = pc]]
  BY <1>1 DEF ServerGoes
<1>3. /\ [server[s] EXCEPT !.pc = pc] \in Server
      /\ [server[s] EXCEPT !.pc = pc].pc = pc /\ [server[s] EXCEPT !.pc = pc].msg = server[s].msg
  BY <1>1 DEF Server
<1>4. server'[s] = [server[s] EXCEPT !.pc = pc] /\ \A t \in Streams \ {s} : server'[t] = server[t]
  BY <1>1, <1>2
<1>5. server' \in [Streams -> Server]
  BY <1>1, <1>2, <1>3
<1> QED
  BY <1>3, <1>4, <1>5

\* A step of a server while neither the agent nor the caller takes one: the messages
\* it leaves are the ones it found.
LEMMA HonestServer ==
    ASSUME TypeOK, Honest, NEW s \in Streams, UNCHANGED <<caller, work>>,
           \A t \in Streams \ {s} : server'[t] = server[t] /\ up'[t] = up[t],
           \A i \in 1 .. Len(up'[s]) : Faithful(up'[s][i]),
           server'[s].pc # "recv" => server'[s].msg \in Message /\ Faithful(server'[s].msg),
           server'[s].pc = "wake" => server'[s].msg.status \in Replies,
           \A c \in Commands : Told(c)' => work[c] = "success"
    PROVE  Honest'
BY DEF Honest, Faithful

LEMMA ReceiveInv == ASSUME Inv, NEW s \in Streams, Receive(s) PROVE Inv'
<1> DEFINE msg == Head(up[s])
<1>1. /\ up[s] \in Seq(Message) /\ up[s] # <<>>
      /\ \A i \in 1 .. Len(up[s]) : Faithful(up[s][i])
  BY DEF Receive, Inv, TypeOK, Honest
<1>2. msg \in Message /\ Faithful(msg)
  BY <1>1
<1>3. /\ Tail(up[s]) \in Seq(Message)
      /\ \A i \in 1 .. Len(Tail(up[s])) : Faithful(Tail(up[s])[i])
  BY <1>1, HeadTailProperties
<1>4. /\ up' \in [Streams -> Seq(Message)]
      /\ up'[s] = Tail(up[s])
      /\ \A t \in Streams \ {s} : up'[t] = up[t]
  BY <1>3 DEF Receive, Inv, TypeOK
<1>5. PICK pc \in {"apply", "log"} : server' = [server EXCEPT ![s] = [pc |-> pc, msg |-> msg]]
  BY DEF Receive
<1>6. /\ server' \in [Streams -> Server]
      /\ server'[s] = [pc |-> pc, msg |-> msg]
      /\ \A t \in Streams \ {s} : server'[t] = server[t]
  BY <1>2, <1>5 DEF Inv, TypeOK, Server
<1>7. UNCHANGED <<conn, stream, down, caller, context, log, agent, work>>
  BY DEF Receive
<1>8. TypeOK'
  BY <1>4, <1>6, <1>7 DEF Inv, TypeOK
<1>9. Once'
  BY <1>7, OnceKept DEF Inv
<1>10. \A c \in Commands : Told(c)' => work[c] = "success"
  BY <1>7 DEF Inv, Honest, Told
<1>11. server'[s].pc # "wake" /\ server'[s].msg = msg
  BY <1>6
<1>12. Honest'
  <2> HIDE DEF msg
  <2> QED
    BY <1>2, <1>3, <1>4, <1>6, <1>7, <1>10, <1>11, HonestServer DEF Inv
<1> QED
  BY <1>8, <1>9, <1>12 DEF Inv

LEMMA ApplyInv == ASSUME Inv, NEW s \in Streams, Apply(s) PROVE Inv'
<1> DEFINE msg == server[s].msg
<1>1. msg \in Message /\ Faithful(msg)
  BY DEF Apply, Inv, Honest
<1>2. /\ context' \in [Commands -> CommandContext]
      /\ \A c \in Commands : context'[c].result = context[c].result
      /\ \A c \in Commands :
            context'[c].last = "success" => context[c].last = "success" \/ work[c] = "success"
  <2>1. context' = [context EXCEPT ![msg.cmd].last = msg.status]
    BY DEF Apply
  <2>2. msg.cmd \in Commands /\ msg.status \in Statuses
    BY <1>1 DEF Message
  <2>3. msg.status = "success" => work[msg.cmd] = "success"
    BY <1>1 DEF Faithful
  <2> HIDE DEF msg
  <2>4. context[msg.cmd] \in CommandContext
    BY <2>2 DEF Inv, TypeOK
  <2>5. [context[msg.cmd] EXCEPT !.last = msg.status] \in CommandContext
    BY <2>2, <2>4 DEF CommandContext
  <2>6. context' = [context EXCEPT ![msg.cmd] = [context[msg.cmd] EXCEPT !.last = msg.status]]
    BY <2>1, <2>2 DEF Inv, TypeOK
  <2>7. context' \in [Commands -> CommandContext]
    BY <2>2, <2>5, <2>6 DEF Inv, TypeOK
  <2>8. \A c \in Commands : context'[c].result = context[c].result
    BY <2>2, <2>4, <2>6 DEF Inv, TypeOK, CommandContext
  <2>9. \A c \in Commands :
           context'[c].last = "success" => context[c].last = "success" \/ work[c] = "success"
    BY <2>2, <2>3, <2>4, <2>6 DEF Inv, TypeOK, CommandContext
  <2> QED
    BY <2>7, <2>8, <2>9
<1>3. PICK pc \in {"wake", "log"} : ServerGoes(s, pc) /\ (pc = "wake" => msg.status \in Replies)
  BY DEF Apply
<1>4. /\ server' \in [Streams -> Server]
      /\ server'[s].pc = pc /\ server'[s].msg = msg
      /\ \A t \in Streams \ {s} : server'[t] = server[t]
  BY <1>3, ServerGoesTo DEF Inv
<1>5. UNCHANGED <<conn, stream, down, up, caller, log, agent, work>>
  BY DEF Apply
<1>6. TypeOK'
  BY <1>2, <1>4, <1>5 DEF Inv, TypeOK
<1>7. Once'
  BY <1>5, OnceKept DEF Inv
<1>8. \A c \in Commands : Told(c)' => work[c] = "success"
  BY <1>2, <1>5 DEF Inv, Honest, Told
<1>9. \A i \in 1 .. Len(up'[s]) : Faithful(up'[s][i])
  BY <1>5 DEF Inv, Honest
<1>10. Honest'
  <2> HIDE DEF msg
  <2> QED
    BY <1>1, <1>3, <1>4, <1>5, <1>8, <1>9, HonestServer DEF Inv
<1> QED
  BY <1>6, <1>7, <1>10 DEF Inv

LEMMA WakeInv == ASSUME Inv, NEW s \in Streams, Wake(s) PROVE Inv'
<1> DEFINE msg == server[s].msg
           result == IF msg.cmd \in Sync /\ context[msg.cmd].result = "none"
                     THEN msg.status ELSE context[msg.cmd].result
<1>1. msg \in Message /\ Faithful(msg) /\ msg.status \in Replies
  BY DEF Wake, Inv, Honest
<1>2. msg.cmd \in Commands /\ context[msg.cmd] \in CommandContext
  BY <1>1 DEF Inv, TypeOK, Message
<1>3. result \in Replies \cup {"none"} /\ (result = "success" => work[msg.cmd] = "success")
  BY <1>1, <1>2 DEF Inv, Honest, Told, CommandContext, Faithful
<1>4. context' = [context EXCEPT ![msg.cmd] = [context[msg.cmd] EXCEPT !.done = TRUE, !.result = result]]
  BY <1>1, <1>2 DEF Wake, Inv, TypeOK, CommandContext
<1>5. ServerGoes(s, "log")
  BY DEF Wake
<1>6. UNCHANGED <<conn, stream, down, up, caller, log, agent, work>>
  BY DEF Wake
<1>7. /\ server' \in [Streams -> Server]
      /\ server'[s].pc = "log" /\ server'[s].msg = msg
      /\ \A t \in Streams \ {s} : server'[t] = server[t]
  BY <1>5, ServerGoesTo DEF Inv
<1> HIDE DEF msg, result
<1>8. [context[msg.cmd] EXCEPT !.done = TRUE, !.result = result] \in CommandContext
  BY <1>2, <1>3 DEF CommandContext
<1>9. /\ context' \in [Commands -> CommandContext]
      /\ \A c \in Commands : context'[c].last = context[c].last
      /\ \A c \in Commands :
            context'[c].result = "success" => context[c].result = "success" \/ work[c] = "success"
  BY <1>2, <1>3, <1>4, <1>8 DEF Inv, TypeOK, CommandContext
<1>10. TypeOK'
  BY <1>6, <1>7, <1>9 DEF Inv, TypeOK
<1>11. Once'
  BY <1>6, OnceKept DEF Inv
<1>12. \A c \in Commands : Told(c)' => work[c] = "success"
  BY <1>6, <1>9 DEF Inv, Honest, Told
<1>13. \A i \in 1 .. Len(up'[s]) : Faithful(up'[s][i])
  BY <1>6 DEF Inv, Honest
<1>14. Honest'
  BY <1>1, <1>6, <1>7, <1>12, <1>13, HonestServer DEF Inv
<1> QED
  BY <1>10, <1>11, <1>14 DEF Inv

LEMMA UpdateLogInv == ASSUME Inv, NEW s \in Streams, UpdateLog(s) PROVE Inv'
<1> DEFINE msg == server[s].msg
<1>1. msg \in Message /\ Faithful(msg)
  BY DEF UpdateLog, Inv, Honest
<1>2. /\ log' \in [Commands -> Statuses \cup {"absent", "pending"}]
      /\ \A c \in Commands : log'[c] = "success" => log[c] = "success" \/ work[c] = "success"
  BY <1>1 DEF UpdateLog, Inv, TypeOK, Message, Faithful
<1>3. /\ server' \in [Streams -> Server]
      /\ server'[s].pc = "recv"
      /\ \A t \in Streams \ {s} : server'[t] = server[t]
  BY DEF UpdateLog, Inv, TypeOK, Server
<1>4. UNCHANGED <<conn, stream, down, up, caller, context, agent, work>>
  BY DEF UpdateLog
<1>5. TypeOK'
  BY <1>2, <1>3, <1>4 DEF Inv, TypeOK
<1>6. Once'
  BY <1>4, OnceKept DEF Inv
<1>7. \A c \in Commands : Told(c)' => work[c] = "success"
  BY <1>2, <1>4 DEF Inv, Honest, Told
<1>8. \A i \in 1 .. Len(up'[s]) : Faithful(up'[s][i])
  BY <1>4 DEF Inv, Honest
<1>9. Honest'
  BY <1>3, <1>4, <1>7, <1>8, HonestServer DEF Inv
<1> QED
  BY <1>5, <1>6, <1>9 DEF Inv

LEMMA StreamEndsInv == ASSUME Inv, NEW s \in Streams, StreamEnds(s) PROVE Inv'
<1>1. UNCHANGED <<down, up, server, caller, context, log, agent, work>>
  BY DEF StreamEnds
<1>2. TypeOK'
  BY DEF StreamEnds, Inv, TypeOK, Connection
<1>3. Once'
  BY <1>1, OnceKept DEF Inv
<1>4. Honest'
  BY <1>1, HonestStep DEF Inv, Honest, Told
<1> QED
  BY <1>2, <1>3, <1>4 DEF Inv

LEMMA ServerInv == ASSUME Inv, NEW s \in Streams, ServerStep(s) PROVE Inv'
BY ReceiveInv, ApplyInv, WakeInv, UpdateLogInv, StreamEndsInv DEF ServerStep

LEMMA ForgetInv == ASSUME Inv, NEW c \in Commands, Forget(c) PROVE Inv'
<1>1. UNCHANGED <<conn, stream, down, up, server, caller, log, agent, work>>
  BY DEF Forget
<1>2. /\ context' \in [Commands -> CommandContext]
      /\ \A d \in Commands : context'[d].last = context[d].last
      /\ \A d \in Commands : context'[d].result = context[d].result
  <2>1. PICK k \in CommandContext : k = context[c]
    BY DEF Inv, TypeOK
  <2>2. /\ [k EXCEPT !.stored = FALSE] \in CommandContext
        /\ [k EXCEPT !.stored = FALSE].last = k.last /\ [k EXCEPT !.stored = FALSE].result = k.result
    BY DEF CommandContext
  <2>3. context \in [Commands -> CommandContext] /\ context' = [context EXCEPT ![c] = [k EXCEPT !.stored = FALSE]]
    BY <2>1 DEF Forget, Inv, TypeOK
  <2> QED
    BY <2>1, <2>2, <2>3
<1>3. TypeOK'
  BY <1>1, <1>2 DEF Inv, TypeOK
<1>4. Once'
  BY <1>1, OnceKept DEF Inv
<1>5. Honest'
  BY <1>1, <1>2, HonestStep DEF Inv, Honest, Told
<1> QED
  BY <1>3, <1>4, <1>5 DEF Inv

-----------------------------------------------------------------------------
(* The agent and the connection.                                           *)

\* What is put on a stream.
LEMMA PutMessage ==
    ASSUME TypeOK, NEW s \in Streams, NEW c \in Commands, NEW status \in Statuses,
           Put(s, c, status)
    PROVE  /\ up' \in [Streams -> Seq(Message)]
           /\ \A t \in Streams \ {s} : up'[t] = up[t]
           /\ \A i \in 1 .. Len(up'[s]) :
                 up'[s][i] = [cmd |-> c, status |-> status] \/ (i \in 1 .. Len(up[s]) /\ up'[s][i] = up[s][i])
<1> DEFINE msg == [cmd |-> c, status |-> status]
<1>1. msg \in Message /\ up[s] \in Seq(Message)
  BY DEF TypeOK, Message
<1>2. up' = [up EXCEPT ![s] = IF stream[s] = "open" THEN Append(up[s], msg) ELSE up[s]]
  BY DEF Put, TypeOK
<1> HIDE DEF msg
<1>3. /\ Append(up[s], msg) \in Seq(Message)
      /\ Len(Append(up[s], msg)) = Len(up[s]) + 1
      /\ \A i \in 1 .. Len(up[s]) : Append(up[s], msg)[i] = up[s][i]
      /\ Append(up[s], msg)[Len(up[s]) + 1] = msg
  BY <1>1, AppendProperties
<1>4. /\ up' \in [Streams -> Seq(Message)]
      /\ \A t \in Streams \ {s} : up'[t] = up[t]
      /\ up'[s] = IF stream[s] = "open" THEN Append(up[s], msg) ELSE up[s]
  BY <1>1, <1>2, <1>3 DEF TypeOK
<1>5. \A i \in 1 .. Len(up'[s]) : up'[s][i] = msg \/ (i \in 1 .. Len(up[s]) /\ up'[s][i] = up[s][i])
  <2>1. Len(up[s]) \in Nat
    BY <1>1
  <2>2. \A i \in 1 .. Len(up[s]) + 1 : i = Len(up[s]) + 1 \/ i \in 1 .. Len(up[s])
    BY <2>1
  <2> QED
    BY <1>1, <1>3, <1>4, <2>1, <2>2
<1> QED
  BY <1>4, <1>5 DEF msg

\* A faithful message is put on a stream, nothing else changes but the agent's own record.
LEMMA PutInv ==
    ASSUME Inv, NEW s \in Streams, NEW c \in Commands, NEW status \in Statuses,
           Put(s, c, status), status = "success" => work[c] = "success",
           NEW e \in Executor, agent' = [agent EXCEPT ![c] = e], e.stream = agent[c].stream,
           UNCHANGED <<conn, stream, down, server, caller, context, log, work>>
    PROVE  Inv'
<1>1. agent' \in [Commands -> Executor] /\ \A d \in Commands : agent'[d].stream = agent[d].stream
  BY DEF Inv, TypeOK
<1>2. TypeOK'
  BY <1>1, PutMessage DEF Inv, TypeOK
<1>3. Once'
  BY <1>1 DEF Inv, Once, Unseen
<1>4. \A t \in Streams : \A i \in 1 .. Len(up'[t]) : Faithful(up'[t][i])
  <2>1. /\ \A t \in Streams \ {s} : up'[t] = up[t]
        /\ \A i \in 1 .. Len(up'[s]) :
              up'[s][i] = [cmd |-> c, status |-> status] \/ (i \in 1 .. Len(up[s]) /\ up'[s][i] = up[s][i])
    BY PutMessage DEF Inv
  <2>2. Faithful([cmd |-> c, status |-> status])
    BY DEF Faithful
  <2>3. \A t \in Streams : \A i \in 1 .. Len(up[t]) : Faithful(up[t][i])
    BY DEF Inv, Honest
  <2>4. \A i \in 1 .. Len(up'[s]) : Faithful(up'[s][i])
    BY <2>1, <2>2, <2>3
  <2> QED
    BY <2>1, <2>3, <2>4
<1>5. Honest'
  BY <1>4 DEF Inv, Honest, Faithful, Told
<1> QED
  BY <1>2, <1>3, <1>5 DEF Inv

LEMMA ReportInv == ASSUME Inv, NEW c \in Commands, Report(c) PROVE Inv'
<1>1. PICK s \in Streams : Put(s, c, "running")
  BY DEF Report
<1> DEFINE e == [agent[c] EXCEPT !.reports = @ + 1]
<1>2. e \in Executor /\ e.stream = agent[c].stream
  <2>1. agent[c] \in Executor /\ agent[c].reports < MaxReports
    BY DEF Report, Inv, TypeOK
  <2>2. agent[c].reports + 1 \in 0 .. MaxReports
    BY <2>1, ReportsAssumption DEF Executor
  <2> QED
    BY <2>1, <2>2 DEF Executor
<1>3. agent' = [agent EXCEPT ![c] = e]
  BY DEF Report, Inv, TypeOK
<1>4. UNCHANGED <<conn, stream, down, server, caller, context, log, work>>
  BY DEF Report
<1> HIDE DEF e
<1> QED
  BY <1>1, <1>2, <1>3, <1>4, PutInv DEF Statuses

LEMMA FinishInv == ASSUME Inv, NEW c \in Commands, Finish(c) PROVE Inv'
<1>1. UNCHANGED <<conn, stream, down, up, server, caller, context, log, agent>>
  BY DEF Finish
<1>2. /\ work' \in [Commands -> {"none", "running"} \cup Replies]
      /\ \A d \in Commands : work[d] = "success" => work'[d] = "success"
      /\ \A d \in Commands : work[d] = "none" <=> work'[d] = "none"
  BY DEF Finish, Inv, TypeOK, Replies
<1>3. TypeOK'
  BY <1>1, <1>2 DEF Inv, TypeOK
<1>4. Once'
  BY <1>1, <1>2 DEF Inv, Once, Unseen
<1>5. Honest'
  BY <1>1, <1>2, HonestStep DEF Inv, Honest, Told
<1> QED
  BY <1>3, <1>4, <1>5 DEF Inv

LEMMA ReplyInv == ASSUME Inv, NEW c \in Commands, Reply(c) PROVE Inv'
<1>1. agent[c].stream \in Streams
  BY DEF Reply, Inv, Once
<1>2. PICK r \in {"failed"} \cup ({work[c]} \cap Replies) : Put(agent[c].stream, c, r)
  BY DEF Reply
<1> DEFINE e == [agent[c] EXCEPT !.replied = TRUE]
<1>3. e \in Executor /\ e.stream = agent[c].stream
  BY DEF Inv, TypeOK, Executor
<1>4. agent' = [agent EXCEPT ![c] = e]
  BY DEF Reply, Inv, TypeOK
<1>5. UNCHANGED <<conn, stream, down, server, caller, context, log, work>>
  BY DEF Reply
<1>6. r \in Statuses /\ (r = "success" => work[c] = "success")
  BY <1>2 DEF Statuses, Replies
<1> HIDE DEF e
<1> QED
  BY <1>1, <1>2, <1>3, <1>4, <1>5, <1>6, PutInv

LEMMA AgentInv == ASSUME Inv, NEW c \in Commands, AgentStep(c) PROVE Inv'
BY ReportInv, FinishInv, ReplyInv DEF AgentStep

LEMMA AcceptInv == ASSUME Inv, NEW s \in Streams, NEW c \in Commands, Accept(s, c) PROVE Inv'
<1>1. UNCHANGED <<conn, stream, up, server, caller, context, log>>
  BY DEF Accept
<1>2. c \in down[s] /\ work[c] = "none"
  BY DEF Accept, Inv, Once
<1>3. /\ caller[c].pc \notin Unsent /\ caller[c].answer # "refused"
      /\ \A t \in Streams \ {s} : c \notin down[t]
  BY <1>2 DEF Inv, Once, Unseen
<1>4. /\ down' \in [Streams -> SUBSET Commands]
      /\ \A t \in Streams : down'[t] \subseteq down[t]
      /\ c \notin down'[s]
  BY DEF Accept, Inv, TypeOK
<1>5. /\ work' \in [Commands -> {"none", "running"} \cup Replies]
      /\ work'[c] = "running"
      /\ \A d \in Commands \ {c} : work'[d] = work[d]
  BY DEF Accept, Inv, TypeOK
<1>6. /\ agent' \in [Commands -> Executor]
      /\ agent'[c].stream = s
      /\ \A d \in Commands \ {c} : agent'[d] = agent[d]
  BY DEF Accept, Inv, TypeOK, Executor
<1>7. TypeOK'
  BY <1>1, <1>4, <1>5, <1>6 DEF Inv, TypeOK
<1>8. Once'
  <2>1. ASSUME NEW d \in Commands
        PROVE  /\ caller'[d].pc \in Unsent \/ caller'[d].answer = "refused" => Unseen(d)'
               /\ caller'[d].pc \notin {"record", "done"} => caller'[d].answer = "none"
               /\ caller'[d].pc = "send" => caller'[d].stream \in Streams
               /\ work'[d] # "none" => agent'[d].stream \in Streams
    <3>1. CASE d = c
      BY <1>1, <1>3, <1>6, <3>1 DEF Inv, Once
    <3>2. CASE d # c
      BY <1>1, <1>4, <1>5, <1>6, <3>2 DEF Inv, Once, Unseen
    <3> QED
      BY <3>1, <3>2
  <2>2. \A t, u \in Streams : \A d \in Commands :
           /\ d \in down'[t] => work'[d] = "none"
           /\ d \in down'[t] /\ d \in down'[u] => t = u
    BY <1>3, <1>4, <1>5 DEF Inv, Once
  <2> QED
    BY <2>1, <2>2 DEF Once
<1>9. Honest'
  BY <1>1, <1>2, <1>5, HonestStep DEF Inv, Honest, Told
<1> QED
  BY <1>7, <1>8, <1>9 DEF Inv

LEMMA OpenStreamInv == ASSUME Inv, NEW s \in Streams, OpenStream(s) PROVE Inv'
<1>1. UNCHANGED <<down, up, server, caller, context, log, agent, work>>
  BY DEF OpenStream
<1>2. TypeOK'
  BY DEF OpenStream, Inv, TypeOK, Connection
<1>3. Once'
  BY <1>1, OnceKept DEF Inv
<1>4. Honest'
  BY <1>1, HonestStep DEF Inv, Honest, Told
<1> QED
  BY <1>2, <1>3, <1>4 DEF Inv

LEMMA BreakInv == ASSUME Inv, NEW s \in Streams, Break(s) PROVE Inv'
<1>1. UNCHANGED <<conn, server, caller, context, log, agent, work>>
  BY DEF Break
<1>2. PICK n \in 0 .. Len(up[s]) : up' = [up EXCEPT ![s] = SubSeq(up[s], 1, n)]
  BY DEF Break, Inv, TypeOK
<1>3. up[s] \in Seq(Message) /\ \A i \in 1 .. Len(up[s]) : Faithful(up[s][i])
  BY DEF Inv, TypeOK, Honest
<1>4. /\ SubSeq(up[s], 1, n) \in Seq(Message)
      /\ \A i \in 1 .. Len(SubSeq(up[s], 1, n)) : Faithful(SubSeq(up[s], 1, n)[i])
  BY <1>3, SubSeqProperties
<1>5. /\ up' \in [Streams -> Seq(Message)]
      /\ up'[s] = SubSeq(up[s], 1, n)
      /\ \A t \in Streams \ {s} : up'[t] = up[t]
  BY <1>2, <1>4 DEF Inv, TypeOK
<1>6. /\ down' \in [Streams -> SUBSET Commands]
      /\ \A t \in Streams : down'[t] \subseteq down[t]
      /\ stream' \in [Streams -> {"unopened", "open", "broken", "closed"}]
  BY DEF Break, Inv, TypeOK
<1>7. TypeOK'
  BY <1>1, <1>5, <1>6 DEF Inv, TypeOK
<1>8. Once'
  BY <1>1, <1>6 DEF Inv, Once, Unseen
<1>9. \A c \in Commands : Told(c)' => work[c] = "success"
  BY <1>1 DEF Inv, Honest, Told
<1>10. Honest'
  BY <1>1, <1>4, <1>5, <1>9, HonestServer DEF Inv, Honest
<1> QED
  BY <1>7, <1>8, <1>10 DEF Inv

LEMMA AgentDiesInv == ASSUME Inv, AgentDies PROVE Inv'
<1>1. UNCHANGED <<conn, stream, down, up, server, caller, context, log>>
  BY DEF AgentDies
<1>2. /\ work' \in [Commands -> {"none", "running"} \cup Replies]
      /\ \A c \in Commands : work[c] = "success" => work'[c] = "success"
      /\ \A c \in Commands : work[c] = "none" <=> work'[c] = "none"
  BY DEF AgentDies, Inv, TypeOK, Replies
<1>3. ASSUME NEW c \in Commands
      PROVE  agent'[c] \in Executor /\ agent'[c].stream = agent[c].stream
  <2>1. agent'[c] = agent[c] \/ agent'[c] = [agent[c] EXCEPT !.replied = TRUE]
    BY DEF AgentDies
  <2>2. agent[c] \in Executor
    BY DEF Inv, TypeOK
  <2> QED
    BY <2>1, <2>2 DEF Executor
<1>4. agent' \in [Commands -> Executor]
  BY <1>3 DEF AgentDies
<1>5. TypeOK'
  BY <1>1, <1>2, <1>4 DEF Inv, TypeOK
<1>6. Once'
  BY <1>1, <1>2, <1>3 DEF Inv, Once, Unseen
<1>7. Honest'
  BY <1>1, <1>2, HonestStep DEF Inv, Honest, Told
<1> QED
  BY <1>5, <1>6, <1>7 DEF Inv

LEMMA HeartbeatStatusInv == ASSUME Inv, HeartbeatStatus PROVE Inv'
<1>1. UNCHANGED <<down, up, server, caller, context, log, agent, work>>
  BY DEF HeartbeatStatus
<1>2. TypeOK'
  BY DEF HeartbeatStatus, Inv, TypeOK, Connection
<1>3. Once'
  BY <1>1, OnceKept DEF Inv
<1>4. Honest'
  BY <1>1, HonestStep DEF Inv, Honest, Told
<1> QED
  BY <1>2, <1>3, <1>4 DEF Inv

LEMMA InvNext == Inv /\ [Next]_vars => Inv'
<1> SUFFICES ASSUME Inv, [Next]_vars PROVE Inv'
  OBVIOUS
<1>1. CASE UNCHANGED vars
  BY <1>1 DEF vars, Inv, TypeOK, Once, Unseen, Honest, Faithful, Told
<1>2. CASE Next
  BY <1>2, CallerInv, ForgetInv, AgentInv, ServerInv, OpenStreamInv, BreakInv, AcceptInv,
     AgentDiesInv, HeartbeatStatusInv DEF Next
<1> QED
  BY <1>1, <1>2

-----------------------------------------------------------------------------
(* The theorems.                                                           *)

LEMMA Invariance == Spec => []Inv
BY InvInit, InvNext, PTL DEF Spec

\* The state of the command channel has its type: the connection, the streams and
\* what is on them, callers, contexts, audit rows and the agent's executor.
THEOREM TypeCorrect == Spec => []TypeOK
<1>1. Inv => TypeOK
  BY DEF Inv
<1> QED
  BY <1>1, Invariance, PTL

\* SendCommandWithID, HandleCommandResponse, updateCommandLog and the executor:
\* nobody is told of a success, by return value, polled status or audit row, that
\* the handler on the agent has not had.
THEOREM SuccessIsTrue == Spec => []NoFalseSuccess
<1>1. Inv => NoFalseSuccess
  BY DEF Inv, Honest, Told, NoFalseSuccess
<1> QED
  BY <1>1, Invariance, PTL

-----------------------------------------------------------------------------
(* The refinement of CommandOutcome.                                       *)

Answer == [c \in Commands |-> caller[c].answer]

LEMMA AnswersKept ==
    ASSUME \A c \in Commands : caller'[c].answer = caller[c].answer
    PROVE  Answer' = Answer
BY DEF Answer

\* The abstract Tell, by what happens to the caller.
LEMMA Tells ==
    ASSUME NEW c \in Commands, UNCHANGED work,
           caller[c].answer = "none",
           \A d \in Commands \ {c} : caller'[d].answer = caller[d].answer,
           NEW a \in {"refused", "success", "error"}, caller'[c].answer = a,
           a = "success" => work[c] = "success",
           a = "refused" => work[c] = "none"
    PROVE  Outcome!Next
<1>1. Answer' = [Answer EXCEPT ![c] = a]
  BY DEF Answer
<1>2. Answer[c] = "none"
  BY DEF Answer
<1>3. Outcome!Tell(c)
  BY <1>1, <1>2 DEF Outcome!Tell, Outcome!Answers, Answer
<1> QED
  BY <1>3 DEF Outcome!Next

LEMMA CallerRefines ==
    ASSUME Inv, NEW c \in Commands, CallerStep(c)
    PROVE  [Outcome!Next]_<<work, Answer>>
<1>1. UNCHANGED work
  BY DEF CallerStep, Begin, CheckStatus, WaitForStream, Send, Refuse, GetResult, GiveUp, Record
<1>2. CASE \/ Begin(c) \/ CheckStatus(c) \/ WaitForStream(c) \/ Send(c) \/ Record(c)
  <2>1. CASE \E pc \in Unsent \cup {"wait", "record", "done"} : CallerGoes(c, pc)
    BY <1>1, <2>1, CallerGoesTo, AnswersKept DEF Inv
  <2>2. CASE caller' = [caller EXCEPT ![c].pc = "send", ![c].stream = conn.stream]
    <3>1. \A d \in Commands : caller'[d].answer = caller[d].answer
      BY <2>2 DEF Inv, TypeOK, Caller
    <3> QED
      BY <1>1, <3>1, AnswersKept
  <2> QED
    BY <1>2, <2>1, <2>2 DEF Begin, CheckStatus, WaitForStream, Send, Record, Unsent
<1>3. ASSUME \/ Refuse(c) \/ GetResult(c) \/ GiveUp(c)
      PROVE  Outcome!Next
  <2>1. \A d \in Commands \ {c} : caller'[d].answer = caller[d].answer
    BY <1>3 DEF Refuse, GetResult, GiveUp, Inv, TypeOK, Caller
  <2>2. caller[c].answer = "none"
    BY <1>3 DEF Refuse, GetResult, GiveUp, Inv, Once
  <2>3. CASE Refuse(c)
    <3>1. caller'[c].answer = "refused" /\ work[c] = "none"
      BY <2>3 DEF Refuse, Inv, TypeOK, Caller, Once, Unsent, Unseen
    <3> QED
      BY <1>1, <2>1, <2>2, <3>1, Tells
  <2>4. CASE GetResult(c)
    <3>1. \/ caller'[c].answer = "success" /\ context[c].result = "success"
          \/ caller'[c].answer = "error"
      BY <2>4 DEF GetResult, Inv, TypeOK, Caller
    <3>2. context[c].result = "success" => work[c] = "success"
      BY DEF Inv, Honest, Told
    <3> QED
      BY <1>1, <2>1, <2>2, <3>1, <3>2, Tells
  <2>5. CASE GiveUp(c)
    <3>1. caller'[c].answer = "error"
      BY <2>5 DEF GiveUp, Inv, TypeOK, Caller
    <3> QED
      BY <1>1, <2>1, <2>2, <3>1, Tells
  <2> QED
    BY <1>3, <2>3, <2>4, <2>5
<1> QED
  BY <1>2, <1>3 DEF CallerStep

LEMMA StepRefines == Inv /\ [Next]_vars => [Outcome!Next]_<<work, Answer>>
<1> SUFFICES ASSUME Inv, [Next]_vars PROVE [Outcome!Next]_<<work, Answer>>
  OBVIOUS
<1>1. ASSUME UNCHANGED <<work, caller>>
      PROVE  UNCHANGED <<work, Answer>>
  BY <1>1 DEF Answer
<1>2. CASE UNCHANGED vars
  BY <1>1, <1>2 DEF vars
<1>3. ASSUME NEW c \in Commands, CallerStep(c)
      PROVE  [Outcome!Next]_<<work, Answer>>
  BY <1>3, CallerRefines
<1>4. ASSUME NEW c \in Commands, Forget(c) \/ Report(c) \/ Reply(c)
      PROVE  UNCHANGED <<work, Answer>>
  BY <1>1, <1>4 DEF Forget, Report, Reply
<1>5. ASSUME NEW c \in Commands, Finish(c)
      PROVE  Outcome!Next
  <2>1. Answer' = Answer
    BY <1>5 DEF Finish, Answer
  <2> QED
    BY <1>5, <2>1 DEF Finish, Replies, Outcome!Next, Outcome!End, Answer
<1>6. ASSUME NEW s \in Streams, ServerStep(s) \/ OpenStream(s) \/ Break(s)
      PROVE  UNCHANGED <<work, Answer>>
  BY <1>1, <1>6 DEF ServerStep, Receive, Apply, Wake, UpdateLog, StreamEnds, OpenStream, Break
<1>7. ASSUME NEW s \in Streams, NEW c \in Commands, Accept(s, c)
      PROVE  Outcome!Next
  <2>1. Answer' = Answer
    BY <1>7 DEF Accept, Answer
  <2>2. work[c] = "none" /\ Answer[c] # "refused"
    BY <1>7 DEF Accept, Inv, Once, Unseen, Answer
  <2> QED
    BY <1>7, <2>1, <2>2 DEF Accept, Outcome!Next, Outcome!Begin, Answer
<1>8. ASSUME AgentDies
      PROVE  Outcome!Next
  <2>1. Answer' = Answer
    BY <1>8 DEF AgentDies, Answer
  <2> QED
    BY <1>8, <2>1 DEF AgentDies, Outcome!Next, Outcome!Interrupt, Answer
<1>9. ASSUME HeartbeatStatus
      PROVE  UNCHANGED <<work, Answer>>
  BY <1>1, <1>9 DEF HeartbeatStatus
<1> QED
  BY <1>2, <1>3, <1>4, <1>5, <1>6, <1>7, <1>8, <1>9 DEF Next, AgentStep

\* The command channel of manager.go, handlers.go and the agent's executor keeps the
\* promise of CommandOutcome: at most one execution, one answer, no false success,
\* and a refused command is never carried out.
THEOREM OutcomeKept == Spec => KeepsOutcome
<1>1. Init => Outcome!Init
  BY DEF Init, Outcome!Init
<1>2. Inv /\ [Next]_vars => [Outcome!Next]_<<work, [c \in Commands |-> caller[c].answer]>>
  BY StepRefines DEF Answer
<1> QED
  BY <1>1, <1>2, Invariance, PTL DEF Spec, KeepsOutcome, Outcome!Spec

-----------------------------------------------------------------------------
(* The audit row keeps a success: it is the last thing said of a command.  *)

\* A message about c is on stream t, or in the hands of the goroutine that serves t.
OnStream(c, t) == \E i \in 1 .. Len(up[t]) : up[t][i].cmd = c
InHand(c, t)   == server[t].pc # "recv" /\ server[t].msg.cmd = c

\* Only the stream opened last may be open.
LastIsOpen ==
    /\ \A s, t \in Streams : stream[s] = "open" /\ s < t => stream[t] = "unopened"
    /\ \A c \in Commands : work[c] # "none" => stream[agent[c].stream] # "unopened"

\* Before the agent has replied, everything it has said is progress, and while the
\* stream of the request is open everything is on that stream.
BeforeReply ==
    \A c \in Commands :
        /\ work[c] = "none" => ~agent[c].replied /\ \A t \in Streams : ~OnStream(c, t) /\ ~InHand(c, t)
        /\ ~agent[c].replied =>
              /\ \A t \in Streams : \A i \in 1 .. Len(up[t]) :
                    up[t][i].cmd = c => up[t][i].status # "success"
              /\ \A t \in Streams : InHand(c, t) => server[t].msg.status # "success"
              /\ context[c].result # "success"
        /\ work[c] # "none" /\ stream[agent[c].stream] = "open" =>
              \A t \in Streams : OnStream(c, t) \/ InHand(c, t) => t = agent[c].stream

\* A success is the last thing said about its command: nothing is behind it on its
\* stream, and nothing on the others.
LastWord ==
    /\ \A s \in Streams : \A i \in 1 .. Len(up[s]) : \A c \in Commands :
          up[s][i].cmd = c /\ up[s][i].status = "success" =>
              /\ \A t \in Streams : \A j \in 1 .. Len(up[t]) : up[t][j].cmd = c => t = s /\ j <= i
              /\ \A t \in Streams : InHand(c, t) => t = s /\ server[t].msg.status # "success"
              /\ context[c].result # "success"
    /\ \A s \in Streams : \A c \in Commands :
          InHand(c, s) /\ server[s].msg.status = "success" =>
              \A t \in Streams : ~OnStream(c, t) /\ (InHand(c, t) => t = s)
    /\ \A c \in Commands : context[c].result = "success" =>
          \A t \in Streams : ~OnStream(c, t) /\ (InHand(c, t) => server[t].msg.status = "success")

Ordered == LastIsOpen /\ BeforeReply /\ LastWord

Logged ==
    \A c \in Commands :
        /\ caller[c].answer = "success" => context[c].result = "success"
        /\ caller[c].pc = "done" /\ caller[c].answer = "success" /\ ~caller[c].cancelled
              => log[c] = "success"

LogInv == Inv /\ Ordered /\ Logged

LEMMA LogInvInit == Init => LogInv
<1> SUFFICES ASSUME Init PROVE Ordered /\ Logged
  BY InvInit DEF LogInv
<1>1. \A t \in Streams : \A c \in Commands : ~OnStream(c, t) /\ ~InHand(c, t)
  BY DEF Init, OnStream, InHand
<1>2. \A t \in Streams : Len(up[t]) = 0
  BY DEF Init
<1> QED
  BY <1>1, <1>2 DEF Init, Ordered, LastIsOpen, BeforeReply, LastWord, Logged

-----------------------------------------------------------------------------
(* Steps that say nothing.                                                 *)

LEMMA MessageType ==
    ASSUME TypeOK, NEW s \in Streams, NEW i \in 1 .. Len(up[s])
    PROVE  up[s][i] \in Message /\ up[s][i].cmd \in Commands
<1>1. up[s][i] \in Message
  BY DEF TypeOK
<1> QED
  BY <1>1 DEF Message

\* Steps by which messages may get lost or leave a goroutine's hands, work may end and
\* streams may break.
LEMMA OrderedShrinks ==
    ASSUME TypeOK, Ordered,
           \A t \in Streams : \A i \in 1 .. Len(up'[t]) :
              i \in 1 .. Len(up[t]) /\ up'[t][i] = up[t][i],
           \A t \in Streams : server'[t].pc # "recv" =>
              server[t].pc # "recv" /\ server'[t].msg = server[t].msg,
           \A c \in Commands : context'[c].result = context[c].result,
           \A t \in Streams : stream'[t] = "open" => stream[t] = "open",
           \A t \in Streams : stream'[t] = "unopened" <=> stream[t] = "unopened",
           \A c \in Commands : work'[c] = "none" <=> work[c] = "none",
           \A c \in Commands : agent'[c].stream = agent[c].stream,
           \A c \in Commands : agent'[c].replied = agent[c].replied \/ (agent'[c].replied /\ work[c] # "none"),
           \A c \in Commands : work[c] # "none" => agent[c].stream \in Streams
    PROVE  Ordered'
<1>1. LastIsOpen'
  BY DEF Ordered, LastIsOpen
<1>2. \A c \in Commands : \A t \in Streams :
         /\ OnStream(c, t)' => OnStream(c, t)
         /\ InHand(c, t)' => InHand(c, t) /\ server'[t].msg = server[t].msg
  BY DEF OnStream, InHand
<1>3. BeforeReply'
  <2> SUFFICES ASSUME NEW c \in Commands
               PROVE  /\ work'[c] = "none" => ~agent'[c].replied /\ \A t \in Streams : ~OnStream(c, t)' /\ ~InHand(c, t)'
                      /\ ~agent'[c].replied =>
                            /\ \A t \in Streams : \A i \in 1 .. Len(up'[t]) :
                                  up'[t][i].cmd = c => up'[t][i].status # "success"
                            /\ \A t \in Streams : InHand(c, t)' => server'[t].msg.status # "success"
                            /\ context'[c].result # "success"
                      /\ work'[c] # "none" /\ stream'[agent'[c].stream] = "open" =>
                            \A t \in Streams : OnStream(c, t)' \/ InHand(c, t)' => t = agent'[c].stream
    BY DEF BeforeReply
  <2>1. work'[c] = "none" => ~agent'[c].replied /\ \A t \in Streams : ~OnStream(c, t)' /\ ~InHand(c, t)'
    BY <1>2 DEF Ordered, BeforeReply
  <2>2. ASSUME ~agent'[c].replied
        PROVE  /\ \A t \in Streams : \A i \in 1 .. Len(up'[t]) :
                     up'[t][i].cmd = c => up'[t][i].status # "success"
               /\ \A t \in Streams : InHand(c, t)' => server'[t].msg.status # "success"
               /\ context'[c].result # "success"
    <3>1. ~agent[c].replied
      BY <2>2
    <3> QED
      BY <1>2, <3>1 DEF Ordered, BeforeReply
  <2>3. ASSUME work'[c] # "none", stream'[agent'[c].stream] = "open"
        PROVE  \A t \in Streams : OnStream(c, t)' \/ InHand(c, t)' => t = agent'[c].stream
    BY <1>2, <2>3 DEF Ordered, BeforeReply
  <2> QED
    BY <2>1, <2>2, <2>3
<1>4. LastWord'
  <2>1. ASSUME NEW s \in Streams, NEW i \in 1 .. Len(up'[s]), NEW c \in Commands,
               up'[s][i].cmd = c, up'[s][i].status = "success"
        PROVE  /\ \A t \in Streams : \A j \in 1 .. Len(up'[t]) : up'[t][j].cmd = c => t = s /\ j <= i
               /\ \A t \in Streams : InHand(c, t)' => t = s /\ server'[t].msg.status # "success"
               /\ context'[c].result # "success"
    <3>1. i \in 1 .. Len(up[s]) /\ up'[s][i] = up[s][i]
      OBVIOUS
    <3>2. /\ \A t \in Streams : \A j \in 1 .. Len(up[t]) : up[t][j].cmd = c => t = s /\ j <= i
          /\ \A t \in Streams : InHand(c, t) => t = s /\ server[t].msg.status # "success"
          /\ context[c].result # "success"
      BY <2>1, <3>1 DEF Ordered, LastWord
    <3>3. ASSUME NEW t \in Streams, NEW j \in 1 .. Len(up'[t]), up'[t][j].cmd = c
          PROVE  t = s /\ j <= i
      <4>1. j \in 1 .. Len(up[t]) /\ up'[t][j] = up[t][j]
        OBVIOUS
      <4> QED
        BY <3>2, <3>3, <4>1
    <3> QED
      BY <1>2, <3>2, <3>3
  <2>2. ASSUME NEW s \in Streams, NEW c \in Commands, InHand(c, s)', server'[s].msg.status = "success"
        PROVE  \A t \in Streams : ~OnStream(c, t)' /\ (InHand(c, t)' => t = s)
    BY <1>2, <2>2 DEF Ordered, LastWord
  <2>3. ASSUME NEW c \in Commands, context'[c].result = "success"
        PROVE  \A t \in Streams : ~OnStream(c, t)' /\ (InHand(c, t)' => server'[t].msg.status = "success")
    BY <1>2, <2>3 DEF Ordered, LastWord
  <2> QED
    BY <2>1, <2>2, <2>3 DEF LastWord
<1> QED
  BY <1>1, <1>3, <1>4 DEF Ordered

\* Steps that leave messages, streams and the agent alone.
LEMMA OrderedKept ==
    ASSUME Inv, Ordered, UNCHANGED <<stream, up, server, agent, work>>,
           \A c \in Commands : context'[c].result = context[c].result
    PROVE  Ordered'
BY OrderedShrinks DEF Inv, Once

\* Steps that tell no caller and do not touch the row, but may wake a caller.
LEMMA LoggedKept ==
    ASSUME Logged, UNCHANGED <<caller, log>>,
           \A c \in Commands : context[c].result = "success" => context'[c].result = "success"
    PROVE  Logged'
BY DEF Logged

-----------------------------------------------------------------------------
(* The caller.                                                             *)

LEMMA CallerLog ==
    ASSUME LogInv, NEW c \in Commands, CallerStep(c)
    PROVE  Ordered' /\ Logged'
<1>1. UNCHANGED <<stream, up, server, agent, work>>
  BY DEF CallerStep, Begin, CheckStatus, WaitForStream, Send, Refuse, GetResult, GiveUp, Record
<1>2. \A d \in Commands : context'[d].result = context[d].result
  <2>1. CASE \/ Begin(c) \/ CheckStatus(c) \/ WaitForStream(c) \/ Refuse(c) \/ Record(c)
    BY <2>1 DEF Begin, CheckStatus, WaitForStream, Refuse, Record
  <2>2. CASE Send(c)
    BY <2>2 DEF Send, LogInv, Inv, TypeOK, CommandContext
  <2>3. CASE GetResult(c)
    <3>1. context' = [context EXCEPT ![c].stored = FALSE]
      BY <2>3 DEF GetResult
    <3> QED
      BY <3>1 DEF LogInv, Inv, TypeOK, CommandContext
  <2>4. CASE GiveUp(c)
    <3>1. context' = [context EXCEPT ![c].stored = FALSE, ![c].done = TRUE]
      BY <2>4 DEF GiveUp
    <3> QED
      BY <3>1 DEF LogInv, Inv, TypeOK, CommandContext
  <2> QED
    BY <2>1, <2>2, <2>3, <2>4 DEF CallerStep
<1>3. Ordered'
  BY <1>1, <1>2, OrderedKept DEF LogInv
<1>4. Logged'
  <2>1. \A d \in Commands \ {c} : caller'[d] = caller[d] /\ log'[d] = log[d]
    <3>1. \A d \in Commands \ {c} : log'[d] = log[d]
      BY DEF CallerStep, Begin, CheckStatus, WaitForStream, Send, Refuse, GetResult, GiveUp, Record, LogInv, Inv, TypeOK
    <3>2. \A d \in Commands \ {c} : caller'[d] = caller[d]
      BY DEF CallerStep, Begin, CheckStatus, WaitForStream, Send, Refuse, GetResult, GiveUp, Record, CallerGoes, LogInv, Inv, TypeOK
    <3> QED
      BY <3>1, <3>2
  <2>2. /\ caller'[c].answer = "success" => context[c].result = "success"
        /\ caller'[c].pc = "done" /\ caller'[c].answer = "success" /\ ~caller'[c].cancelled
              => log'[c] = "success"
    <3>1. CASE \/ Begin(c) \/ CheckStatus(c) \/ WaitForStream(c) \/ Send(c)
      <4>1. caller[c].answer = "none"
        BY <3>1 DEF Begin, CheckStatus, WaitForStream, Send, LogInv, Inv, Once
      <4>2. CASE \E pc \in Unsent \cup {"wait", "record", "done"} : CallerGoes(c, pc)
        BY <4>1, <4>2, CallerGoesTo DEF LogInv, Inv
      <4>3. CASE caller' = [caller EXCEPT ![c].pc = "send", ![c].stream = conn.stream]
        <5>1. caller'[c].answer = caller[c].answer
          BY <4>3 DEF LogInv, Inv, TypeOK, Caller
        <5> QED
          BY <4>1, <5>1
      <4> QED
        BY <3>1, <4>2, <4>3 DEF Begin, CheckStatus, WaitForStream, Send, Unsent
    <3>2. CASE Refuse(c)
      <4>1. caller'[c].answer = "refused"
        BY <3>2 DEF Refuse, LogInv, Inv, TypeOK, Caller
      <4> QED
        BY <4>1
    <3>3. CASE GetResult(c)
      <4>1. PICK cancelled \in BOOLEAN :
               caller' = [caller EXCEPT ![c].pc = "record", ![c].cancelled = cancelled,
                                        ![c].answer = IF context[c].result = "success"
                                                      THEN "success" ELSE "error"]
        BY <3>3 DEF GetResult
      <4>2. caller'[c].pc = "record" /\ (caller'[c].answer = "success" => context[c].result = "success")
        BY <4>1 DEF LogInv, Inv, TypeOK, Caller
      <4> QED
        BY <4>2
    <3>4. CASE GiveUp(c)
      <4>1. caller'[c].answer = "error"
        BY <3>4 DEF GiveUp, LogInv, Inv, TypeOK, Caller
      <4> QED
        BY <4>1
    <3>5. CASE Record(c)
      <4>1. CallerGoes(c, "done")
        BY <3>5 DEF Record
      <4>2. caller'[c].answer = caller[c].answer /\ caller'[c].cancelled = caller[c].cancelled
        BY <4>1 DEF CallerGoes, LogInv, Inv, TypeOK, Caller
      <4>3. caller[c].answer = "success" /\ ~caller[c].cancelled => log'[c] = "success"
        BY <3>5 DEF Record, LogInv, Inv, TypeOK
      <4> QED
        BY <4>2, <4>3 DEF LogInv, Logged
    <3> QED
      BY <3>1, <3>2, <3>3, <3>4, <3>5 DEF CallerStep
  <2> QED
    BY <1>2, <2>1, <2>2 DEF LogInv, Logged
<1> QED
  BY <1>3, <1>4

-----------------------------------------------------------------------------
(* The goroutine that serves a stream.                                     *)

\* The head of a stream is taken: what is about to be said about its command is still
\* in order, and a success has nothing behind it.
LEMMA ReceiveOrdered ==
    ASSUME Inv, Ordered, NEW s \in Streams, Receive(s)
    PROVE  Ordered'
<1> DEFINE msg == Head(up[s])
<1>1. /\ up[s] \in Seq(Message) /\ up[s] # <<>>
      /\ Len(up[s]) \in Nat /\ Len(up[s]) >= 1
      /\ msg = up[s][1] /\ msg \in Message
  BY DEF Receive, Inv, TypeOK
<1>2. /\ Len(Tail(up[s])) = Len(up[s]) - 1
      /\ \A i \in 1 .. Len(Tail(up[s])) : Tail(up[s])[i] = up[s][i + 1]
  BY <1>1, HeadTailProperties
<1>3. /\ up'[s] = Tail(up[s])
      /\ \A t \in Streams \ {s} : up'[t] = up[t]
  BY DEF Receive, Inv, TypeOK
<1>4. /\ \A i \in 1 .. Len(up'[s]) : i + 1 \in 1 .. Len(up[s]) /\ up'[s][i] = up[s][i + 1]
      /\ 1 \in 1 .. Len(up[s])
  BY <1>1, <1>2, <1>3
<1>5. /\ server[s].pc = "recv"
      /\ server'[s].pc # "recv" /\ server'[s].msg = msg
      /\ \A t \in Streams \ {s} : server'[t] = server[t]
  BY DEF Receive, Inv, TypeOK
<1>6. UNCHANGED <<stream, context, agent, work>>
  BY DEF Receive
<1> HIDE DEF msg
<1>7. \A c \in Commands : \A t \in Streams :
         /\ OnStream(c, t)' => OnStream(c, t)
         /\ InHand(c, t)' <=> IF t = s THEN msg.cmd = c ELSE InHand(c, t)
         /\ t # s => server'[t].msg = server[t].msg
  <2>1. \A c \in Commands : OnStream(c, s)' => OnStream(c, s)
    BY <1>4 DEF OnStream
  <2>2. \A c \in Commands : \A t \in Streams \ {s} : OnStream(c, t)' => OnStream(c, t)
    BY <1>3 DEF OnStream
  <2>3. \A c \in Commands : \A t \in Streams :
           InHand(c, t)' <=> IF t = s THEN msg.cmd = c ELSE InHand(c, t)
    BY <1>5 DEF InHand
  <2> QED
    BY <1>5, <2>1, <2>2, <2>3
<1>8. OnStream(msg.cmd, s) /\ \A t \in Streams : InHand(msg.cmd, t) => t # s
  BY <1>1, <1>4, <1>5 DEF OnStream, InHand
<1>9. LastIsOpen'
  BY <1>6 DEF Ordered, LastIsOpen
<1>10. BeforeReply'
  <2>1. ASSUME NEW c \in Commands, work[c] = "none"
        PROVE  ~agent[c].replied /\ \A t \in Streams : ~OnStream(c, t)' /\ ~InHand(c, t)'
    BY <1>7, <1>8, <2>1 DEF Ordered, BeforeReply
  <2>2. ASSUME NEW c \in Commands, ~agent[c].replied
        PROVE  /\ \A t \in Streams : \A i \in 1 .. Len(up'[t]) :
                     up'[t][i].cmd = c => up'[t][i].status # "success"
               /\ \A t \in Streams : InHand(c, t)' => server'[t].msg.status # "success"
               /\ context[c].result # "success"
    <3>1. /\ \A t \in Streams : \A i \in 1 .. Len(up[t]) :
                up[t][i].cmd = c => up[t][i].status # "success"
          /\ \A t \in Streams : InHand(c, t) => server[t].msg.status # "success"
          /\ context[c].result # "success"
      BY <2>2 DEF Ordered, BeforeReply
    <3>2. \A i \in 1 .. Len(up'[s]) : up'[s][i].cmd = c => up'[s][i].status # "success"
      BY <1>4, <3>1
    <3>3. msg.cmd = c => msg.status # "success"
      BY <1>1, <1>4, <3>1
    <3>4. \A t \in Streams \ {s} : \A i \in 1 .. Len(up'[t]) :
             up'[t][i].cmd = c => up'[t][i].status # "success"
      BY <1>3, <3>1
    <3>5. \A t \in Streams : InHand(c, t)' => server'[t].msg.status # "success"
      BY <1>5, <1>7, <3>1, <3>3
    <3> QED
      BY <3>1, <3>2, <3>4, <3>5
  <2>3. ASSUME NEW c \in Commands, work[c] # "none", stream[agent[c].stream] = "open"
        PROVE  \A t \in Streams : OnStream(c, t)' \/ InHand(c, t)' => t = agent[c].stream
    BY <1>7, <1>8, <2>3 DEF Ordered, BeforeReply
  <2> QED
    BY <1>6, <2>1, <2>2, <2>3 DEF BeforeReply
<1>11. LastWord'
  <2>1. ASSUME NEW t \in Streams, NEW i \in 1 .. Len(up'[t]), NEW c \in Commands,
               up'[t][i].cmd = c, up'[t][i].status = "success"
        PROVE  /\ \A u \in Streams : \A j \in 1 .. Len(up'[u]) : up'[u][j].cmd = c => u = t /\ j <= i
               /\ \A u \in Streams : InHand(c, u)' => u = t /\ server'[u].msg.status # "success"
               /\ context[c].result # "success"
    <3>1. PICK k \in 1 .. Len(up[t]) : /\ up[t][k] = up'[t][i]
                                       /\ k = IF t = s THEN i + 1 ELSE i
      <4>1. CASE t = s
        BY <1>4, <4>1
      <4>2. CASE t # s
        BY <1>3, <4>2
      <4> QED
        BY <4>1, <4>2
    <3>2. /\ \A u \in Streams : \A j \in 1 .. Len(up[u]) : up[u][j].cmd = c => u = t /\ j <= k
          /\ \A u \in Streams : InHand(c, u) => u = t /\ server[u].msg.status # "success"
          /\ context[c].result # "success"
      <4>1. t \in Streams /\ k \in 1 .. Len(up[t]) /\ up[t][k].cmd = c /\ up[t][k].status = "success"
        BY <2>1, <3>1
      <4> QED
        BY <4>1 DEF Ordered, LastWord
    <3>3. ASSUME NEW u \in Streams, NEW j \in 1 .. Len(up'[u]), up'[u][j].cmd = c
          PROVE  u = t /\ j <= i
      <4>1. CASE u = s
        <5>1. j + 1 \in 1 .. Len(up[s]) /\ up[s][j + 1].cmd = c
          BY <1>1, <1>4, <3>3, <4>1
        <5>2. u = t /\ j + 1 <= k
          BY <3>2, <4>1, <5>1
        <5> QED
          BY <3>1, <4>1, <5>2
      <4>2. CASE u # s
        BY <1>3, <3>1, <3>2, <3>3, <4>2
      <4> QED
        BY <4>1, <4>2
    <3>4. ASSUME NEW u \in Streams, InHand(c, u)'
          PROVE  u = t /\ server'[u].msg.status # "success"
      <4>1. CASE u = s
        <5>1. up[s][1].cmd = c
          BY <1>1, <1>7, <3>4, <4>1
        <5>2. s = t /\ 1 <= k
          BY <1>4, <3>2, <5>1
        <5>3. msg.status # "success"
          <6>1. SUFFICES ASSUME msg.status = "success" PROVE FALSE
            OBVIOUS
          <6>2. \A v \in Streams : \A j \in 1 .. Len(up[v]) : up[v][j].cmd = c => v = s /\ j <= 1
            <7>1. LastWord /\ 1 \in 1 .. Len(up[s])
              BY <1>1, <1>4 DEF Ordered
            <7>2. up[s][1].cmd = c /\ up[s][1].status = "success"
              BY <1>1, <1>4, <5>1, <6>1
            <7> QED
              BY <7>1, <7>2 DEF LastWord
          <6>3. k <= 1
            BY <2>1, <3>1, <6>2
          <6> QED
            BY <3>1, <5>2, <6>3
        <5> QED
          BY <1>5, <4>1, <5>2, <5>3
      <4>2. CASE u # s
        BY <1>7, <3>2, <3>4, <4>2
      <4> QED
        BY <4>1, <4>2
    <3> QED
      BY <3>2, <3>3, <3>4
  <2>2. ASSUME NEW t \in Streams, NEW c \in Commands, InHand(c, t)', server'[t].msg.status = "success"
        PROVE  \A u \in Streams : ~OnStream(c, u)' /\ (InHand(c, u)' => u = t)
    <3>1. CASE t = s
      <4>1. msg.cmd = c /\ msg.status = "success"
        BY <1>5, <1>7, <2>2, <3>1
      <4>2. /\ \A u \in Streams : \A j \in 1 .. Len(up[u]) : up[u][j].cmd = c => u = s /\ j <= 1
            /\ \A u \in Streams : InHand(c, u) => u = s
        BY <1>1, <1>4, <4>1 DEF Ordered, LastWord
      <4>3. \A u \in Streams : ~OnStream(c, u)'
        <5>1. \A u \in Streams \ {s} : \A j \in 1 .. Len(up'[u]) : up'[u][j].cmd # c
          BY <1>3, <4>2
        <5>2. \A j \in 1 .. Len(up'[s]) : up'[s][j].cmd # c
          BY <1>1, <1>4, <4>2
        <5> QED
          BY <5>1, <5>2 DEF OnStream
      <4> QED
        BY <1>7, <3>1, <4>2, <4>3
    <3>2. CASE t # s
      <4>1. /\ \A u \in Streams : ~OnStream(c, u) /\ (InHand(c, u) => u = t)
        BY <1>7, <2>2, <3>2 DEF Ordered, LastWord
      <4> QED
        BY <1>7, <1>8, <4>1
    <3> QED
      BY <3>1, <3>2
  <2>3. ASSUME NEW c \in Commands, context[c].result = "success"
        PROVE  \A t \in Streams : ~OnStream(c, t)' /\ (InHand(c, t)' => server'[t].msg.status = "success")
    <3>1. \A t \in Streams : ~OnStream(c, t) /\ (InHand(c, t) => server[t].msg.status = "success")
      BY <2>3 DEF Ordered, LastWord
    <3> QED
      BY <1>7, <1>8, <3>1
  <2> QED
    BY <1>6, <2>1, <2>2, <2>3 DEF LastWord
<1> QED
  BY <1>9, <1>10, <1>11 DEF Ordered

\* A caller is woken with a success only by the last message about its command.
LEMMA WakeOrdered ==
    ASSUME Inv, Ordered, NEW s \in Streams, Wake(s)
    PROVE  /\ Ordered'
           /\ \A c \in Commands : context[c].result = "success" => context'[c].result = "success"
<1> DEFINE msg == server[s].msg
<1>1. msg \in Message /\ msg.cmd \in Commands /\ InHand(msg.cmd, s)
  BY DEF Wake, Inv, Honest, Message, InHand
<1>2. /\ \A c \in Commands : context[c].result = "success" => context'[c].result = "success"
      /\ \A c \in Commands : context'[c].result = "success" =>
            context[c].result = "success" \/ (c = msg.cmd /\ msg.status = "success")
  <2>1. context' = [context EXCEPT ![msg.cmd].done = TRUE,
                                   ![msg.cmd].result = IF msg.cmd \in Sync /\ @ = "none"
                                                       THEN msg.status ELSE @]
    BY DEF Wake
  <2> HIDE DEF msg
  <2> QED
    BY <1>1, <2>1 DEF Inv, TypeOK, CommandContext
<1>3. /\ server[s].pc = "wake"
      /\ server'[s].pc = "log" /\ server'[s].msg = msg
      /\ \A t \in Streams \ {s} : server'[t] = server[t]
  BY DEF Wake, ServerGoes, Inv, TypeOK, Server
<1>4. UNCHANGED <<stream, up, agent, work>>
  BY DEF Wake
<1>5. \A c \in Commands : \A t \in Streams :
         /\ OnStream(c, t)' <=> OnStream(c, t)
         /\ InHand(c, t)' <=> InHand(c, t)
         /\ server'[t].msg = server[t].msg
  BY <1>3, <1>4 DEF OnStream, InHand
<1> HIDE DEF msg
<1>6. msg = server[s].msg
  BY DEF msg
<1>7. LastIsOpen'
  BY <1>4 DEF Ordered, LastIsOpen
<1>8. BeforeReply'
  <2>1. ASSUME NEW c \in Commands, ~agent[c].replied
        PROVE  context'[c].result # "success"
    BY <1>1, <1>2, <1>6, <2>1 DEF Ordered, BeforeReply
  <2> QED
    BY <1>4, <1>5, <2>1 DEF Ordered, BeforeReply
<1>9. LastWord'
  <2>1. ASSUME NEW t \in Streams, NEW i \in 1 .. Len(up[t]), NEW c \in Commands,
               up[t][i].cmd = c, up[t][i].status = "success"
        PROVE  context'[c].result # "success"
    BY <1>1, <1>2, <1>6, <2>1 DEF Ordered, LastWord
  <2>2. ASSUME NEW c \in Commands, context'[c].result = "success"
        PROVE  \A t \in Streams : ~OnStream(c, t) /\ (InHand(c, t) => server[t].msg.status = "success")
    <3>1. CASE context[c].result = "success"
      BY <3>1 DEF Ordered, LastWord
    <3>2. CASE c = msg.cmd /\ msg.status = "success"
      BY <1>1, <1>6, <3>2 DEF Ordered, LastWord
    <3> QED
      BY <1>2, <2>2, <3>1, <3>2
  <2> QED
    BY <1>4, <1>5, <2>1, <2>2 DEF Ordered, LastWord
<1> QED
  BY <1>2, <1>7, <1>8, <1>9 DEF Ordered

LEMMA ServerLog ==
    ASSUME LogInv, NEW s \in Streams, ServerStep(s)
    PROVE  Ordered' /\ Logged'
<1>1. CASE Receive(s)
  BY <1>1, ReceiveOrdered, LoggedKept DEF Receive, LogInv
<1>2. CASE Wake(s)
  BY <1>2, WakeOrdered, LoggedKept DEF Wake, LogInv
<1>3. CASE Apply(s)
  <2>1. \A c \in Commands : context'[c].result = context[c].result
    <3>1. server[s].msg \in Message
      BY <1>3 DEF Apply, LogInv, Inv, Honest
    <3> QED
      BY <1>3, <3>1 DEF Apply, Message, LogInv, Inv, TypeOK, CommandContext
  <2>2. \A t \in Streams : server'[t].pc # "recv" => server[t].pc # "recv" /\ server'[t].msg = server[t].msg
    BY <1>3 DEF Apply, ServerGoes, LogInv, Inv, TypeOK, Server
  <2>3. UNCHANGED <<stream, up, agent, work, caller, log>>
    BY <1>3 DEF Apply
  <2>4. Ordered'
    BY <2>1, <2>2, <2>3, OrderedShrinks DEF LogInv, Inv, Once
  <2>5. Logged'
    BY <2>1, <2>3, LoggedKept DEF LogInv
  <2> QED
    BY <2>4, <2>5
<1>4. CASE UpdateLog(s)
  <2>1. \A t \in Streams : server'[t].pc # "recv" => server[t].pc # "recv" /\ server'[t].msg = server[t].msg
    BY <1>4 DEF UpdateLog, LogInv, Inv, TypeOK, Server
  <2>2. UNCHANGED <<stream, up, agent, work, caller, context>>
    BY <1>4 DEF UpdateLog
  <2>3. Ordered'
    BY <2>1, <2>2, OrderedShrinks DEF LogInv, Inv, Once
  <2>4. \A c \in Commands : log'[c] = log[c] \/ (InHand(c, s) /\ log'[c] = server[s].msg.status)
    BY <1>4 DEF UpdateLog, InHand, LogInv, Inv, TypeOK
  <2>5. \A c \in Commands : context[c].result = "success" /\ log[c] = "success" => log'[c] = "success"
    BY <2>4 DEF LogInv, Ordered, LastWord
  <2>6. Logged'
    BY <2>2, <2>5 DEF LogInv, Logged
  <2> QED
    BY <2>3, <2>6
<1>5. CASE StreamEnds(s)
  <2>1. /\ \A t \in Streams : stream'[t] = "open" => stream[t] = "open"
        /\ \A t \in Streams : stream'[t] = "unopened" <=> stream[t] = "unopened"
    BY <1>5 DEF StreamEnds, LogInv, Inv, TypeOK
  <2>2. UNCHANGED <<up, server, agent, work, caller, context, log>>
    BY <1>5 DEF StreamEnds
  <2>3. Ordered'
    BY <2>1, <2>2, OrderedShrinks DEF LogInv, Inv, Once
  <2>4. Logged'
    BY <2>2, LoggedKept DEF LogInv
  <2> QED
    BY <2>3, <2>4
<1> QED
  BY <1>1, <1>2, <1>3, <1>4, <1>5 DEF ServerStep

LEMMA ForgetLog ==
    ASSUME LogInv, NEW c \in Commands, Forget(c)
    PROVE  Ordered' /\ Logged'
<1>1. \A d \in Commands : context'[d].result = context[d].result
  BY DEF Forget, LogInv, Inv, TypeOK, CommandContext
<1>2. UNCHANGED <<stream, up, server, agent, work, caller, log>>
  BY DEF Forget
<1> QED
  BY <1>1, <1>2, OrderedKept, LoggedKept DEF LogInv

-----------------------------------------------------------------------------
(* The agent and the connection.                                           *)

\* Something is said about c on stream s: progress, or the reply on the stream the
\* request came on.
LEMMA PutOrdered ==
    ASSUME Inv, Ordered, NEW s \in Streams, NEW c \in Commands, NEW status \in Statuses,
           Put(s, c, status), work[c] # "none",
           stream[s] = "open" /\ stream[agent[c].stream] = "open" => s = agent[c].stream,
           status = "success" => s = agent[c].stream /\ ~agent[c].replied /\ agent'[c].replied,
           status # "success" => work[c] # "success" \/ ~agent[c].replied,
           UNCHANGED <<stream, server, context, work>>,
           \A d \in Commands : agent'[d].stream = agent[d].stream,
           \A d \in Commands \ {c} : agent'[d] = agent[d],
           agent'[c].replied = agent[c].replied \/ agent'[c].replied = TRUE,
           agent[c].replied => agent'[c].replied
    PROVE  Ordered'
<1>1. CASE stream[s] # "open"
  <2>1. up' = up
    BY <1>1 DEF Put, Inv, TypeOK
  <2>2. \A d \in Commands :
           agent'[d].replied = agent[d].replied \/ (agent'[d].replied /\ work[d] # "none")
    OBVIOUS
  <2>3. /\ \A t \in Streams : \A i \in 1 .. Len(up'[t]) :
              i \in 1 .. Len(up[t]) /\ up'[t][i] = up[t][i]
        /\ \A d \in Commands : work[d] # "none" => agent[d].stream \in Streams
    BY <2>1 DEF Inv, Once
  <2> QED
    BY <2>1, <2>2, <2>3, OrderedShrinks DEF Inv
<1>2. CASE stream[s] = "open"
  <2> DEFINE n == Len(up[s]) + 1
             msg == [cmd |-> c, status |-> status]
  <2>1. /\ msg \in Message /\ msg.cmd = c /\ msg.status = status
        /\ up[s] \in Seq(Message) /\ Len(up[s]) \in Nat
    <3>1. up[s] \in Seq(Message)
      BY DEF Inv, TypeOK
    <3>2. Len(up[s]) \in Nat
      BY <3>1, LenProperties
    <3>3. msg \in Message /\ msg.cmd = c /\ msg.status = status
      BY DEF Message
    <3> QED
      BY <3>1, <3>2, <3>3
  <2>2. up' = [up EXCEPT ![s] = Append(up[s], msg)]
    BY <1>2 DEF Put, Inv, TypeOK
  <2> HIDE DEF msg
  <2>3. /\ Len(up'[s]) = n
        /\ \A i \in 1 .. Len(up[s]) : up'[s][i] = up[s][i]
        /\ up'[s][n] = msg
        /\ \A t \in Streams \ {s} : up'[t] = up[t]
    BY <2>1, <2>2, AppendProperties DEF Inv, TypeOK
  <2>4. /\ n \in 1 .. Len(up'[s])
        /\ \A i \in 1 .. Len(up'[s]) : i <= n /\ (i = n \/ i \in 1 .. Len(up[s]))
    BY <2>1, <2>3
  <2> HIDE DEF n
  <2>5. \A d \in Commands : \A t \in Streams :
           /\ OnStream(d, t)' => OnStream(d, t) \/ (d = c /\ t = s)
           /\ InHand(d, t)' <=> InHand(d, t)
    <3>1. \A d \in Commands : OnStream(d, s)' => OnStream(d, s) \/ d = c
      BY <2>1, <2>3, <2>4 DEF OnStream
    <3>2. \A d \in Commands : \A t \in Streams \ {s} : OnStream(d, t)' => OnStream(d, t)
      BY <2>3 DEF OnStream
    <3> QED
      BY <3>1, <3>2 DEF InHand
  <2>6. \A d \in Commands : \A t \in Streams : \A i \in 1 .. Len(up'[t]) :
           \/ i \in 1 .. Len(up[t]) /\ up'[t][i] = up[t][i]
           \/ t = s /\ i = n /\ up'[t][i] = msg
    <3>1. \A i \in 1 .. Len(up'[s]) : (i \in 1 .. Len(up[s]) /\ up'[s][i] = up[s][i]) \/ (i = n /\ up'[s][i] = msg)
      BY <2>3, <2>4
    <3> QED
      BY <2>3, <3>1
  <2>7. LastIsOpen'
    BY DEF Ordered, LastIsOpen
  <2>8. BeforeReply'
    <3>1. ASSUME NEW d \in Commands, work[d] = "none"
          PROVE  ~agent'[d].replied /\ \A t \in Streams : ~OnStream(d, t)' /\ ~InHand(d, t)'
      BY <2>5, <3>1 DEF Ordered, BeforeReply
    <3>2. ASSUME NEW d \in Commands, ~agent'[d].replied
          PROVE  /\ \A t \in Streams : \A i \in 1 .. Len(up'[t]) :
                       up'[t][i].cmd = d => up'[t][i].status # "success"
                 /\ \A t \in Streams : InHand(d, t)' => server[t].msg.status # "success"
                 /\ context[d].result # "success"
      <4>1. ~agent[d].replied /\ (d = c => status # "success")
        BY <3>2
      <4>2. /\ \A t \in Streams : \A i \in 1 .. Len(up[t]) :
                  up[t][i].cmd = d => up[t][i].status # "success"
            /\ \A t \in Streams : InHand(d, t) => server[t].msg.status # "success"
            /\ context[d].result # "success"
        BY <4>1 DEF Ordered, BeforeReply
      <4> QED
        BY <2>1, <2>5, <2>6, <4>1, <4>2
    <3>3. ASSUME NEW d \in Commands, work[d] # "none", stream[agent[d].stream] = "open"
          PROVE  \A t \in Streams : OnStream(d, t)' \/ InHand(d, t)' => t = agent[d].stream
      BY <1>2, <2>5, <3>3 DEF Ordered, BeforeReply
    <3> QED
      BY <3>1, <3>2, <3>3 DEF BeforeReply
  <2>9. context[c].result # "success" /\ (status # "success" =>
           /\ \A t \in Streams : \A i \in 1 .. Len(up[t]) : up[t][i].cmd = c => up[t][i].status # "success"
           /\ \A t \in Streams : InHand(c, t) => server[t].msg.status # "success")
    <3>1. CASE ~agent[c].replied
      BY <3>1 DEF Ordered, BeforeReply
    <3>2. CASE work[c] # "success" /\ status # "success"
      BY <3>2 DEF Inv, Honest, Told, Faithful, InHand
    <3> QED
      BY <3>1, <3>2
  <2>10. LastWord'
    <3>1. ASSUME NEW t \in Streams, NEW i \in 1 .. Len(up'[t]), NEW d \in Commands,
                 up'[t][i].cmd = d, up'[t][i].status = "success"
          PROVE  /\ \A u \in Streams : \A j \in 1 .. Len(up'[u]) : up'[u][j].cmd = d => u = t /\ j <= i
                 /\ \A u \in Streams : InHand(d, u)' => u = t /\ server[u].msg.status # "success"
                 /\ context[d].result # "success"
      <4>1. CASE d = c
        <5>1. status = "success"
          BY <2>1, <2>6, <2>9, <3>1, <4>1
        <5>2. /\ s = agent[c].stream /\ ~agent[c].replied
              /\ \A u \in Streams : OnStream(c, u) \/ InHand(c, u) => u = s
              /\ \A u \in Streams : InHand(c, u) => server[u].msg.status # "success"
              /\ \A u \in Streams : \A j \in 1 .. Len(up[u]) : up[u][j].cmd = c => up[u][j].status # "success"
          BY <1>2, <5>1 DEF Ordered, BeforeReply
        <5>3. t = s /\ i = n
          BY <2>6, <3>1, <4>1, <5>2
        <5>4. \A u \in Streams : \A j \in 1 .. Len(up'[u]) : up'[u][j].cmd = c => u = s
          BY <2>6, <5>2 DEF OnStream
        <5>5. \A u \in Streams : \A j \in 1 .. Len(up'[u]) : up'[u][j].cmd = d => u = t /\ j <= i
          BY <2>4, <4>1, <5>3, <5>4
        <5>6. \A u \in Streams : InHand(d, u)' => u = t /\ server[u].msg.status # "success"
          BY <2>5, <4>1, <5>2, <5>3
        <5> QED
          BY <2>9, <4>1, <5>5, <5>6
      <4>2. CASE d # c
        <5>1. i \in 1 .. Len(up[t]) /\ up'[t][i] = up[t][i]
          BY <2>1, <2>6, <3>1, <4>2
        <5>2. /\ \A u \in Streams : \A j \in 1 .. Len(up[u]) : up[u][j].cmd = d => u = t /\ j <= i
              /\ \A u \in Streams : InHand(d, u) => u = t /\ server[u].msg.status # "success"
              /\ context[d].result # "success"
          BY <3>1, <5>1 DEF Ordered, LastWord
        <5>3. \A u \in Streams : \A j \in 1 .. Len(up'[u]) : up'[u][j].cmd = d => u = t /\ j <= i
          BY <2>1, <2>6, <4>2, <5>2
        <5> QED
          BY <2>5, <5>2, <5>3
      <4> QED
        BY <4>1, <4>2
    <3>2. ASSUME NEW t \in Streams, NEW d \in Commands, InHand(d, t), server[t].msg.status = "success"
          PROVE  \A u \in Streams : ~OnStream(d, u)' /\ (InHand(d, u) => u = t)
      <4>1. /\ d # c
        <5>1. SUFFICES ASSUME d = c PROVE FALSE
          OBVIOUS
        <5>2. work[c] = "success"
          BY <3>2, <5>1 DEF Inv, Honest, Faithful, InHand
        <5> QED
          BY <3>2, <5>1, <5>2 DEF Ordered, BeforeReply
      <4> QED
        BY <2>5, <3>2, <4>1 DEF Ordered, LastWord
    <3>3. ASSUME NEW d \in Commands, context[d].result = "success"
          PROVE  \A t \in Streams : ~OnStream(d, t)' /\ (InHand(d, t) => server[t].msg.status = "success")
      BY <2>5, <2>9, <3>3 DEF Ordered, LastWord
    <3> QED
      BY <2>5, <3>1, <3>2, <3>3 DEF LastWord
  <2> QED
    BY <2>7, <2>8, <2>10 DEF Ordered
<1> QED
  BY <1>1, <1>2

LEMMA AgentLog ==
    ASSUME LogInv, NEW c \in Commands, AgentStep(c)
    PROVE  Ordered' /\ Logged'
<1>1. CASE Report(c)
  <2>1. PICK s \in Streams : Current(s) /\ Put(s, c, "running")
    BY <1>1 DEF Report
  <2>2. stream[s] = "open" /\ stream[agent[c].stream] = "open" => s = agent[c].stream
    <3>1. agent[c].stream \in Streams
      BY <1>1 DEF Report, LogInv, Inv, Once
    <3>2. stream[agent[c].stream] = "open" => agent[c].stream <= s
      BY <2>1, <3>1 DEF Current
    <3>3. stream[agent[c].stream] = "open" /\ agent[c].stream < s => stream[s] = "unopened"
      BY <3>1 DEF LogInv, Ordered, LastIsOpen
    <3> QED
      BY <3>1, <3>2, <3>3, StreamsAssumption DEF Streams
  <2>3. agent' = [agent EXCEPT ![c].reports = @ + 1]
    BY <1>1 DEF Report
  <2>4. /\ \A d \in Commands : agent'[d].stream = agent[d].stream /\ agent'[d].replied = agent[d].replied
        /\ \A d \in Commands \ {c} : agent'[d] = agent[d]
    BY <2>3 DEF LogInv, Inv, TypeOK, Executor
  <2>5. UNCHANGED <<stream, server, context, work, caller, log>> /\ work[c] = "running"
    BY <1>1 DEF Report
  <2>6. Ordered'
    BY <2>1, <2>2, <2>4, <2>5, PutOrdered DEF LogInv, Statuses
  <2> QED
    BY <2>5, <2>6, LoggedKept DEF LogInv
<1>2. CASE Finish(c)
  <2>1. \A d \in Commands : work'[d] = "none" <=> work[d] = "none"
    BY <1>2 DEF Finish, Replies, LogInv, Inv, TypeOK
  <2>2. UNCHANGED <<stream, up, server, context, agent, caller, log>>
    BY <1>2 DEF Finish
  <2>3. Ordered'
    BY <2>1, <2>2, OrderedShrinks DEF LogInv, Inv, Once
  <2> QED
    BY <2>2, <2>3, LoggedKept DEF LogInv
<1>3. CASE Reply(c)
  <2>1. PICK r \in {"failed"} \cup ({work[c]} \cap Replies) : Put(agent[c].stream, c, r)
    BY <1>3 DEF Reply
  <2>2. agent' = [agent EXCEPT ![c].replied = TRUE]
    BY <1>3 DEF Reply
  <2>3. /\ \A d \in Commands : agent'[d].stream = agent[d].stream
        /\ \A d \in Commands \ {c} : agent'[d] = agent[d]
        /\ agent'[c].replied = TRUE
    BY <2>2 DEF LogInv, Inv, TypeOK, Executor
  <2>4. /\ UNCHANGED <<stream, server, context, work, caller, log>>
        /\ work[c] # "none" /\ ~agent[c].replied
    BY <1>3 DEF Reply
  <2>5. agent[c].stream \in Streams /\ r \in Statuses
    BY <2>1, <2>4 DEF LogInv, Inv, Once, Statuses, Replies
  <2>6. Ordered'
    BY <2>1, <2>3, <2>4, <2>5, PutOrdered DEF LogInv
  <2> QED
    BY <2>4, <2>6, LoggedKept DEF LogInv
<1> QED
  BY <1>1, <1>2, <1>3 DEF AgentStep

\* A request that is accepted is the first the agent sees of its command: nothing has
\* been said about it.
LEMMA AcceptLog ==
    ASSUME LogInv, NEW s \in Streams, NEW c \in Commands, Accept(s, c)
    PROVE  Ordered' /\ Logged'
<1>1. UNCHANGED <<stream, up, server, caller, context, log>> /\ stream[s] = "open"
  BY DEF Accept
<1>2. work[c] = "none"
  BY DEF Accept, LogInv, Inv, Once
<1>3. work'[c] = "running" /\ \A d \in Commands \ {c} : work'[d] = work[d]
  BY DEF Accept, LogInv, Inv, TypeOK
<1>4. /\ agent'[c].stream = s /\ agent'[c].replied = agent[c].replied
      /\ \A d \in Commands \ {c} : agent'[d] = agent[d]
  <2>1. agent' = [agent EXCEPT ![c].stream = s]
    BY DEF Accept
  <2> QED
    BY <2>1 DEF LogInv, Inv, TypeOK, Executor
<1>5. \A d \in Commands : \A t \in Streams :
         (OnStream(d, t)' <=> OnStream(d, t)) /\ (InHand(d, t)' <=> InHand(d, t))
  BY <1>1 DEF OnStream, InHand
<1>6. ~agent[c].replied /\ \A t \in Streams : ~OnStream(c, t) /\ ~InHand(c, t)
  BY <1>2 DEF LogInv, Ordered, BeforeReply
<1>7. LastIsOpen'
  <2>1. \A d \in Commands : work'[d] # "none" => stream[agent'[d].stream] # "unopened"
    BY <1>1, <1>3, <1>4 DEF LogInv, Ordered, LastIsOpen
  <2> QED
    BY <1>1, <2>1 DEF LogInv, Ordered, LastIsOpen
<1>8. BeforeReply'
  <2>1. ASSUME NEW d \in Commands, work'[d] = "none"
        PROVE  ~agent'[d].replied /\ \A t \in Streams : ~OnStream(d, t) /\ ~InHand(d, t)
    BY <1>3, <1>4, <2>1 DEF LogInv, Ordered, BeforeReply
  <2>2. ASSUME NEW d \in Commands, ~agent'[d].replied
        PROVE  ~agent[d].replied
    BY <1>4, <1>6, <2>2
  <2>3. ASSUME NEW d \in Commands, work'[d] # "none", stream[agent'[d].stream] = "open"
        PROVE  \A t \in Streams : OnStream(d, t) \/ InHand(d, t) => t = agent'[d].stream
    BY <1>3, <1>4, <1>6, <2>3 DEF LogInv, Ordered, BeforeReply
  <2> QED
    BY <1>1, <1>5, <2>1, <2>2, <2>3 DEF LogInv, Ordered, BeforeReply
<1>9. LastWord'
  BY <1>1, <1>5 DEF LogInv, Ordered, LastWord
<1>10. Logged'
  BY <1>1 DEF LogInv, Logged
<1> QED
  BY <1>7, <1>8, <1>9, <1>10 DEF Ordered

\* A new stream is not the stream of a request the agent has already seen.
LEMMA OpenStreamLog ==
    ASSUME LogInv, NEW s \in Streams, OpenStream(s)
    PROVE  Ordered' /\ Logged'
<1>1. UNCHANGED <<up, server, caller, context, log, agent, work>>
  BY DEF OpenStream
<1>2. /\ stream[s] = "unopened" /\ stream'[s] = "open"
      /\ \A t \in Streams \ {s} : stream'[t] = stream[t]
      /\ \A t \in Streams : t < s => stream[t] \in {"broken", "closed"}
      /\ \A t \in Streams : ~(t < s) => stream[t] = "unopened"
  BY DEF OpenStream, LogInv, Inv, TypeOK
<1>3. \A c \in Commands : work[c] # "none" =>
         /\ agent[c].stream \in Streams \ {s}
         /\ stream[agent[c].stream] # "unopened"
  BY <1>2 DEF LogInv, Inv, Once, Ordered, LastIsOpen
<1>4. \A d \in Commands : \A t \in Streams :
         (OnStream(d, t)' <=> OnStream(d, t)) /\ (InHand(d, t)' <=> InHand(d, t))
  BY <1>1 DEF OnStream, InHand
<1>5. LastIsOpen'
  <2>1. ASSUME NEW t \in Streams, NEW u \in Streams, stream'[t] = "open", t < u
        PROVE  stream'[u] = "unopened"
    <3>1. t = s
      BY <1>2, <2>1
    <3>2. ~(u < s) /\ u # s
      BY <2>1, <3>1, StreamsAssumption DEF Streams
    <3> QED
      BY <1>2, <3>2
  <2>2. \A c \in Commands : work'[c] # "none" => stream'[agent'[c].stream] # "unopened"
    BY <1>1, <1>2, <1>3
  <2> QED
    BY <2>1, <2>2 DEF LastIsOpen
<1>6. BeforeReply'
  BY <1>1, <1>2, <1>3, <1>4 DEF LogInv, Ordered, BeforeReply
<1>7. LastWord'
  BY <1>1, <1>4 DEF LogInv, Ordered, LastWord
<1>8. Logged'
  BY <1>1 DEF LogInv, Logged
<1> QED
  BY <1>5, <1>6, <1>7, <1>8 DEF Ordered

LEMMA BreakLog ==
    ASSUME LogInv, NEW s \in Streams, Break(s)
    PROVE  Ordered' /\ Logged'
<1>1. UNCHANGED <<server, caller, context, log, agent, work>>
  BY DEF Break
<1>2. /\ \A t \in Streams : stream'[t] = "open" => stream[t] = "open"
      /\ \A t \in Streams : stream'[t] = "unopened" <=> stream[t] = "unopened"
  BY DEF Break, LogInv, Inv, TypeOK
<1>3. PICK n \in 0 .. Len(up[s]) : up' = [up EXCEPT ![s] = SubSeq(up[s], 1, n)]
  BY DEF Break
<1>4. up[s] \in Seq(Message) /\ Len(up[s]) \in Nat
  <2>1. up[s] \in Seq(Message)
    BY DEF LogInv, Inv, TypeOK
  <2> QED
    BY <2>1, LenProperties
<1>5. Len(SubSeq(up[s], 1, n)) = n /\ \A i \in 1 .. n : SubSeq(up[s], 1, n)[i] = up[s][i]
  BY <1>3, <1>4
<1>6. \A t \in Streams : \A i \in 1 .. Len(up'[t]) : i \in 1 .. Len(up[t]) /\ up'[t][i] = up[t][i]
  <2>1. up'[s] = SubSeq(up[s], 1, n) /\ \A t \in Streams \ {s} : up'[t] = up[t]
    BY <1>3 DEF LogInv, Inv, TypeOK
  <2>2. \A i \in 1 .. Len(up'[s]) : i \in 1 .. Len(up[s]) /\ up'[s][i] = up[s][i]
    BY <1>3, <1>4, <1>5, <2>1
  <2> QED
    BY <2>1, <2>2
<1>7. Ordered'
  BY <1>1, <1>2, <1>6, OrderedShrinks DEF LogInv, Inv, Once
<1> QED
  BY <1>1, <1>7, LoggedKept DEF LogInv

LEMMA AgentDiesLog == ASSUME LogInv, AgentDies PROVE Ordered' /\ Logged'
<1>1. UNCHANGED <<stream, up, server, caller, context, log>>
  BY DEF AgentDies
<1>2. \A c \in Commands : work'[c] = "none" <=> work[c] = "none"
  BY DEF AgentDies
<1>3. \A c \in Commands : agent'[c].stream = agent[c].stream
  BY DEF AgentDies, LogInv, Inv, TypeOK, Executor
<1>4. \A c \in Commands :
         agent'[c].replied = agent[c].replied \/ (agent'[c].replied /\ work[c] # "none")
  <2>1. ASSUME NEW c \in Commands, work[c] = "none" PROVE agent'[c] = agent[c]
    BY <2>1 DEF AgentDies
  <2>2. ASSUME NEW c \in Commands, work[c] # "none" PROVE agent'[c].replied = TRUE
    <3>1. agent'[c] = [agent[c] EXCEPT !.replied = TRUE]
      BY <2>2 DEF AgentDies
    <3>2. agent[c] \in Executor
      BY DEF LogInv, Inv, TypeOK
    <3> QED
      BY <3>1, <3>2 DEF Executor
  <2> QED
    BY <2>1, <2>2
<1>5. Ordered'
  BY <1>1, <1>2, <1>3, <1>4, OrderedShrinks DEF LogInv, Inv, Once
<1> QED
  BY <1>1, <1>5, LoggedKept DEF LogInv

LEMMA HeartbeatStatusLog == ASSUME LogInv, HeartbeatStatus PROVE Ordered' /\ Logged'
<1>1. UNCHANGED <<stream, up, server, caller, context, log, agent, work>>
  BY DEF HeartbeatStatus
<1> QED
  BY <1>1, OrderedKept, LoggedKept DEF LogInv

-----------------------------------------------------------------------------

LEMMA LogInvNext == LogInv /\ [Next]_vars => LogInv'
<1> SUFFICES ASSUME LogInv, [Next]_vars PROVE LogInv'
  OBVIOUS
<1>1. Inv'
  BY InvNext DEF LogInv
<1>2. Ordered' /\ Logged'
  <2>1. CASE Next
    BY <2>1, CallerLog, ForgetLog, AgentLog, ServerLog, OpenStreamLog, BreakLog,
       AcceptLog, AgentDiesLog, HeartbeatStatusLog DEF Next
  <2>2. CASE UNCHANGED vars
    <3>1. UNCHANGED <<stream, up, server, caller, context, log, agent, work>>
      BY <2>2 DEF vars
    <3> QED
      BY <3>1, OrderedKept, LoggedKept DEF LogInv
  <2> QED
    BY <2>1, <2>2
<1> QED
  BY <1>1, <1>2 DEF LogInv

\* Once a caller has been told of success and has written its row (recordCommandLog),
\* no update of the row that the stream handler makes (updateCommandLog) undoes it:
\* a success is the last thing the agent says about a command.
THEOREM SuccessLogged == Spec => []SuccessIsLogged
<1>1. LogInv => SuccessIsLogged
  BY DEF LogInv, Logged, SuccessIsLogged, Commands
<1> QED
  BY <1>1, LogInvInit, LogInvNext, PTL DEF Spec

-----------------------------------------------------------------------------
(* The reply to an asynchronous command is on its way as long as its       *)
(* stream holds: what AsyncSettles asks of the state.                      *)

\* A reply about c is on stream s; a message about c is about to be stored, or about
\* to wake the caller.
ReplyOnStream(c, s) == \E i \in 1 .. Len(up[s]) : up[s][i].cmd = c /\ up[s][i].status \in Replies
Applying(c, s)      == server[s].pc = "apply" /\ server[s].msg.cmd = c
Waking(c, s)        == server[s].pc = "wake" /\ server[s].msg.cmd = c
ReplyInHand(c, s)   == InHand(c, s) /\ server[s].msg.status \in Replies

Heard(c) == context[c].last \in Replies

\* The status of c is polled, and its stream holds.
Polled(c) ==
    /\ caller[c].pc = "done" /\ caller[c].answer = "none"
    /\ stream[caller[c].stream] = "open"

\* The request is on its way, the agent has yet to answer it, the answer is on the
\* stream and will be stored, is about to be stored, or has been.
AnswerIsComing ==
    \A c \in Async : Polled(c) =>
        LET s == caller[c].stream IN
        \/ c \in down[s]
        \/ work[c] # "none" /\ ~agent[c].replied /\ agent[c].stream = s
        \/ ReplyOnStream(c, s) /\ context[c].stored /\ ~context[c].done
        \/ Applying(c, s) /\ ReplyInHand(c, s)
        \/ Heard(c)

\* How the answer to the request that went out on s comes: before the reply nothing
\* looks like one, and the reply is not lost from sight before it is stored.
Coming(c, s) ==
    /\ \A t \in Streams : c \in down[t] => t = s
    /\ c \notin down[s] => work[c] # "none"
    /\ work[c] # "none" => agent[c].stream = s
    /\ context[c].stored \/ context[c].done
    /\ context[c].done => Heard(c) /\ ~Applying(c, s)
    /\ Waking(c, s) => Heard(c)
    /\ ~agent[c].replied => ~context[c].done /\ ~ReplyOnStream(c, s) /\ ~ReplyInHand(c, s)
    /\ agent[c].replied =>
          \/ ~context[c].done /\ (ReplyOnStream(c, s) \/ (Applying(c, s) /\ ReplyInHand(c, s)))
          \/ Heard(c) /\ (context[c].done \/ Waking(c, s))

\* An asynchronous caller only sends, and what it keeps of a stream is its own.
Sends(c) ==
    /\ caller[c].pc \in Unsent \cup {"done"}
    /\ caller[c].pc \in Unsent => ~context[c].done
    /\ caller[c].pc = "done" /\ caller[c].answer = "none" => caller[c].stream \in Streams
    /\ Polled(c) => Coming(c, caller[c].stream)

\* Whoever has found a stream has found one that was opened.
Opened ==
    /\ conn.stream # NoStream => stream[conn.stream] # "unopened"
    /\ \A c \in Commands : caller[c].stream # NoStream => stream[caller[c].stream] # "unopened"

AnswerInv == LogInv /\ Opened /\ \A c \in Async : Sends(c)

LEMMA AnswerInvInit == Init => AnswerInv
BY LogInvInit DEF Init, AnswerInv, Opened, Sends, Polled, Unsent, Commands

LEMMA AnswerInvComing == AnswerInv => AnswerIsComing
<1> SUFFICES ASSUME AnswerInv, NEW c \in Async, Polled(c)
             PROVE  LET s == caller[c].stream IN
                    \/ c \in down[s]
                    \/ work[c] # "none" /\ ~agent[c].replied /\ agent[c].stream = s
                    \/ ReplyOnStream(c, s) /\ context[c].stored /\ ~context[c].done
                    \/ Applying(c, s) /\ ReplyInHand(c, s)
                    \/ Heard(c)
  BY DEF AnswerIsComing
<1>1. Coming(c, caller[c].stream)
  BY DEF AnswerInv, Sends
<1> QED
  BY <1>1 DEF Coming

\* A command whose caller, context, agent and stream rest waits as before.
LEMMA SendsKept ==
    ASSUME NEW c \in Async, Sends(c), UNCHANGED <<caller[c], context[c], agent[c], work[c]>>,
           \A t \in Streams : c \in down'[t] <=> c \in down[t],
           \A s \in Streams : caller[c].stream = s /\ stream'[s] = "open" =>
              stream[s] = "open" /\ up'[s] = up[s] /\ server'[s] = server[s]
    PROVE  Sends(c)'
<1>1. /\ caller'[c].pc \in Unsent \cup {"done"}
      /\ caller'[c].pc \in Unsent => ~context'[c].done
      /\ caller'[c].pc = "done" /\ caller'[c].answer = "none" => caller'[c].stream \in Streams
  BY DEF Sends
<1>2. ASSUME Polled(c)' PROVE Coming(c, caller[c].stream)'
  <2>1. PICK s \in Streams : s = caller[c].stream
    BY <1>2 DEF Polled, Sends
  <2>2. stream[s] = "open" /\ up'[s] = up[s] /\ server'[s] = server[s]
    BY <1>2, <2>1 DEF Polled
  <2>3. Coming(c, s)
    BY <1>2, <2>1, <2>2 DEF Polled, Sends
  <2>4. Coming(c, s)'
    BY <2>2, <2>3 DEF Coming, Heard, Applying, Waking, ReplyInHand, InHand, ReplyOnStream
  <2> QED
    BY <2>1, <2>4
<1> QED
  BY <1>1, <1>2 DEF Sends

\* A step that leaves what was open as it is, or closes it.
LEMMA OpenedKept ==
    ASSUME TypeOK, Opened, UNCHANGED caller, conn'.stream \in {conn.stream, NoStream},
           \A t \in Streams : stream[t] # "unopened" => stream'[t] # "unopened"
    PROVE  Opened'
<1>1. conn.stream \in Streams \cup {NoStream} /\ \A c \in Commands : caller[c].stream \in Streams \cup {NoStream}
  BY DEF TypeOK, Connection, Caller
<1> QED
  BY <1>1 DEF Opened

-----------------------------------------------------------------------------
(* The caller sends and leaves.                                            *)

LEMMA CallerAnswer ==
    ASSUME AnswerInv, NEW d \in Commands, CallerStep(d)
    PROVE  Opened' /\ \A c \in Async : Sends(c)'
<1>1. caller \in [Commands -> Caller] /\ context \in [Commands -> CommandContext] /\ caller[d] \in Caller
  BY DEF AnswerInv, LogInv, Inv, TypeOK
<1>2. UNCHANGED <<conn, stream, up, server, agent, work>>
  BY DEF CallerStep, Begin, CheckStatus, WaitForStream, Send, Refuse, GetResult, GiveUp, Record
<1>3. \A c \in Commands \ {d} : caller'[c] = caller[c] /\ context'[c] = context[c]
  <2>1. \A c \in Commands \ {d} : caller'[c] = caller[c]
    BY <1>1 DEF CallerStep, Begin, CheckStatus, WaitForStream, Send, Refuse, GetResult, GiveUp, Record, CallerGoes
  <2>2. \A c \in Commands \ {d} : context'[c] = context[c]
    BY <1>1 DEF CallerStep, Begin, CheckStatus, WaitForStream, Send, Refuse, GetResult, GiveUp, Record
  <2> QED
    BY <2>1, <2>2
<1>4. \A c \in Commands \ {d} : \A t \in Streams : c \in down'[t] <=> c \in down[t]
  <2>1. CASE UNCHANGED down
    BY <2>1
  <2>2. CASE Send(d)
    BY <2>2 DEF Send, AnswerInv, LogInv, Inv, TypeOK
  <2> QED
    BY <2>1, <2>2 DEF CallerStep, Begin, CheckStatus, WaitForStream, Refuse, GetResult, GiveUp, Record
<1>5. caller'[d].stream \in {caller[d].stream, conn.stream}
  <2>1. CASE Begin(d) \/ CheckStatus(d) \/ Send(d) \/ Record(d)
    BY <1>1, <2>1 DEF Begin, CheckStatus, Send, Record, CallerGoes, Caller
  <2>2. CASE WaitForStream(d)
    BY <1>1, <2>2 DEF WaitForStream, CallerGoes, Caller
  <2>3. CASE Refuse(d)
    BY <1>1, <2>3 DEF Refuse, Caller
  <2>4. CASE GetResult(d)
    BY <1>1, <2>4 DEF GetResult, Caller
  <2>5. CASE GiveUp(d)
    BY <1>1, <2>5 DEF GiveUp, Caller
  <2> QED
    BY <2>1, <2>2, <2>3, <2>4, <2>5 DEF CallerStep
<1>6. Opened'
  BY <1>2, <1>3, <1>5 DEF AnswerInv, Opened
<1>7. ASSUME NEW c \in Async, c # d PROVE Sends(c)'
  <2>1. c \in Commands \ {d}
    BY <1>7 DEF Commands
  <2> QED
    BY <1>2, <1>3, <1>4, <2>1, SendsKept DEF AnswerInv
<1>8. ASSUME d \in Async PROVE Sends(d)'
  <2>1. Sends(d) /\ caller[d].pc \in Unsent \cup {"done"}
    BY <1>8 DEF AnswerInv, Sends
  <2>2. CASE Begin(d) \/ CheckStatus(d) \/ WaitForStream(d)
    <3>1. caller[d].pc \in Unsent /\ context' = context
      BY <2>2 DEF Begin, CheckStatus, WaitForStream, Unsent
    <3>2. caller'[d].pc \in {"check", "stream", "send", "refuse"}
      BY <1>1, <2>2 DEF Begin, CheckStatus, WaitForStream, CallerGoes, Caller
    <3> QED
      BY <2>1, <3>1, <3>2 DEF Sends, Polled, Unsent
  <2>3. CASE Refuse(d)
    <3>1. caller'[d].pc = "done" /\ caller'[d].answer = "refused"
      BY <1>1, <2>3 DEF Refuse, Caller
    <3> QED
      BY <3>1 DEF Sends, Polled, Unsent
  <2>4. CASE Send(d)
    <3>1. PICK s \in Streams : s = caller[d].stream
      BY <2>4 DEF Send, AnswerInv, LogInv, Inv, Once
    <3>2. /\ caller[d].pc = "send" /\ Unseen(d) /\ ~context[d].done
      BY <2>1, <2>4 DEF Send, Sends, Unsent, AnswerInv, LogInv, Inv, Once
    <3>3. CASE CallerGoes(d, "refuse") /\ UNCHANGED context
      <4>1. caller'[d].pc = "refuse"
        BY <1>1, <3>3 DEF CallerGoes, Caller
      <4> QED
        BY <3>2, <3>3, <4>1 DEF Sends, Polled, Unsent
    <3>4. CASE /\ context' = [context EXCEPT ![d].stored = TRUE]
               /\ down' = [down EXCEPT ![s] = IF stream[s] = "open" THEN @ \cup {d} ELSE @]
               /\ CallerGoes(d, "done")
      <4>1. caller'[d].pc = "done" /\ caller'[d].stream = s
        BY <1>1, <3>1, <3>4 DEF CallerGoes, Caller
      <4>2. context'[d].stored /\ ~context'[d].done
        BY <1>1, <3>2, <3>4 DEF CommandContext
      <4>3. /\ work[d] = "none" /\ ~agent[d].replied
            /\ \A t \in Streams : ~OnStream(d, t) /\ ~InHand(d, t)
        BY <3>2 DEF Unseen, AnswerInv, LogInv, Ordered, BeforeReply
      <4>4. ASSUME stream[s] = "open" PROVE Coming(d, s)'
        <5>1. \A t \in Streams : d \in down'[t] <=> t = s
          BY <3>2, <3>4, <4>4 DEF Unseen, AnswerInv, LogInv, Inv, TypeOK
        <5>2. /\ ~Waking(d, s)' /\ ~Applying(d, s)' /\ ~ReplyInHand(d, s)' /\ ~ReplyOnStream(d, s)'
          BY <1>2, <4>3 DEF Waking, Applying, ReplyInHand, ReplyOnStream, InHand, OnStream
        <5> QED
          BY <1>2, <4>2, <4>3, <5>1, <5>2 DEF Coming
      <4> QED
        BY <1>2, <4>1, <4>4 DEF Sends, Polled, Unsent
    <3> QED
      BY <1>8, <2>4, <3>1, <3>3, <3>4, KindsAssumption DEF Send
  <2>5. CASE GetResult(d) \/ GiveUp(d) \/ Record(d)
    BY <2>1, <2>5 DEF GetResult, GiveUp, Record, Unsent
  <2> QED
    BY <2>2, <2>3, <2>4, <2>5 DEF CallerStep
<1> QED
  BY <1>6, <1>7, <1>8

-----------------------------------------------------------------------------
(* The stream's goroutine stores what it receives.                         *)

\* As long as the stream of c holds, only its goroutine has messages about c.
LEMMA InItsHands ==
    ASSUME AnswerInv, NEW c \in Async, Polled(c), NEW t \in Streams, InHand(c, t)
    PROVE  t = caller[c].stream
<1>1. Coming(c, caller[c].stream) /\ c \in Commands /\ stream[caller[c].stream] = "open"
  BY DEF AnswerInv, Sends, Polled, Commands
<1>2. work[c] # "none"
  BY <1>1 DEF AnswerInv, LogInv, Ordered, BeforeReply
<1>3. agent[c].stream = caller[c].stream
  BY <1>1, <1>2 DEF Coming
<1> QED
  BY <1>1, <1>2, <1>3 DEF AnswerInv, LogInv, Ordered, BeforeReply

\* A step that concerns only what a command that is polled waits for.
LEMMA PolledKept ==
    ASSUME NEW c \in Async, Sends(c), UNCHANGED <<caller, stream>>,
           caller[c].pc \in Unsent => ~context'[c].done,
           ASSUME Polled(c), caller[c].stream \in Streams, Coming(c, caller[c].stream)
           PROVE  Coming(c, caller[c].stream)'
    PROVE  Sends(c)'
BY DEF Sends, Polled, Unsent

LEMMA ReceiveAnswer ==
    ASSUME AnswerInv, NEW s \in Streams, Receive(s), NEW c \in Async
    PROVE  Sends(c)'
<1> DEFINE msg == Head(up[s])
<1>1. /\ up[s] \in Seq(Message) /\ up[s] # <<>>
      /\ Len(up[s]) \in Nat /\ Len(up[s]) >= 1
      /\ msg = up[s][1] /\ msg \in Message
  BY DEF Receive, AnswerInv, LogInv, Inv, TypeOK
<1>2. /\ Len(Tail(up[s])) = Len(up[s]) - 1
      /\ \A i \in 1 .. Len(Tail(up[s])) : Tail(up[s])[i] = up[s][i + 1]
  BY <1>1, HeadTailProperties
<1>3. /\ up'[s] = Tail(up[s])
      /\ \A t \in Streams \ {s} : up'[t] = up[t] /\ server'[t] = server[t]
  BY DEF Receive, AnswerInv, LogInv, Inv, TypeOK
<1>4. /\ server[s].pc = "recv" /\ server'[s].msg = msg
      /\ server'[s].pc = IF context[msg.cmd].stored /\ ~context[msg.cmd].done THEN "apply" ELSE "log"
  BY DEF Receive, AnswerInv, LogInv, Inv, TypeOK
<1>5. UNCHANGED <<stream, down, caller, context, agent, work>>
  BY DEF Receive
<1> HIDE DEF msg
<1>6. Sends(c)
  BY DEF AnswerInv
<1>7. CASE caller[c].stream # s
  BY <1>3, <1>5, <1>6, <1>7, SendsKept
<1>8. CASE caller[c].stream = s
  <2>1. ReplyOnStream(c, s) <=> (msg.cmd = c /\ msg.status \in Replies) \/ ReplyOnStream(c, s)'
    <3>1. ASSUME NEW i \in 1 .. Len(up[s]) PROVE i = 1 \/ i - 1 \in 1 .. Len(up'[s])
      BY <1>1, <1>2, <1>3
    <3>2. ASSUME NEW i \in 1 .. Len(up'[s]) PROVE i + 1 \in 1 .. Len(up[s]) /\ up'[s][i] = up[s][i + 1]
      BY <1>1, <1>2, <1>3
    <3>3. ASSUME NEW i \in 1 .. Len(up[s]), i # 1 PROVE up'[s][i - 1] = up[s][i]
      BY <1>1, <3>1, <3>2, <3>3
    <3>4. 1 \in 1 .. Len(up[s])
      BY <1>1
    <3> QED
      BY <1>1, <3>1, <3>2, <3>3, <3>4 DEF ReplyOnStream
  <2>2. /\ ~Waking(c, s) /\ ~Applying(c, s) /\ ~ReplyInHand(c, s) /\ ~Waking(c, s)'
        /\ Applying(c, s)' <=> msg.cmd = c /\ context[c].stored /\ ~context[c].done
        /\ ReplyInHand(c, s)' <=> msg.cmd = c /\ msg.status \in Replies
    BY <1>4 DEF Waking, Applying, ReplyInHand, InHand
  <2>3. ASSUME Coming(c, s) PROVE Coming(c, s)'
    BY <1>5, <2>1, <2>2, <2>3 DEF Coming, Heard
  <2>4. caller[c].pc \in Unsent => ~context'[c].done
    BY <1>5, <1>6 DEF Sends
  <2> QED
    BY <1>5, <1>6, <1>8, <2>3, <2>4, PolledKept
<1> QED
  BY <1>7, <1>8

\* The context of another command is not touched.
LEMMA OtherMessage ==
    ASSUME AnswerInv, NEW s \in Streams, NEW c \in Async, UNCHANGED <<stream, down, up, caller, agent, work>>,
           context'[c] = context[c], server[s].msg.cmd # c, server'[s].msg.cmd # c \/ server'[s].pc = "recv",
           \A t \in Streams \ {s} : server'[t] = server[t]
    PROVE  Sends(c)'
<1>1. Sends(c)
  BY DEF AnswerInv
<1>2. CASE caller[c].stream # s
  BY <1>1, <1>2, SendsKept
<1>3. CASE caller[c].stream = s
  <2>1. /\ ~Waking(c, s) /\ ~Applying(c, s) /\ ~ReplyInHand(c, s)
        /\ ~Waking(c, s)' /\ ~Applying(c, s)' /\ ~ReplyInHand(c, s)'
    BY DEF Waking, Applying, ReplyInHand, InHand
  <2>2. ASSUME Coming(c, s) PROVE Coming(c, s)'
    BY <2>1, <2>2 DEF Coming, Heard, ReplyOnStream
  <2> QED
    BY <1>1, <1>3, <2>2, PolledKept DEF Sends
<1> QED
  BY <1>2, <1>3

LEMMA ApplyAnswer ==
    ASSUME AnswerInv, NEW s \in Streams, Apply(s), NEW c \in Async
    PROVE  Sends(c)'
<1>1. PICK msg : msg = server[s].msg
  OBVIOUS
<1>2. /\ server[s].pc = "apply" /\ msg \in Message
      /\ UNCHANGED <<stream, down, up, caller, agent, work>>
  BY <1>1 DEF Apply, AnswerInv, LogInv, Inv, Honest
<1>3. /\ server'[s].pc = IF msg.status \in Replies THEN "wake" ELSE "log"
      /\ server'[s].msg = msg
      /\ \A t \in Streams \ {s} : server'[t] = server[t]
  BY <1>1, ServerGoesTo DEF Apply, AnswerInv, LogInv, Inv
<1>4. /\ context'[msg.cmd] = [context[msg.cmd] EXCEPT !.last = msg.status]
      /\ \A d \in Commands \ {msg.cmd} : context'[d] = context[d]
      /\ context[msg.cmd] \in CommandContext
  BY <1>1, <1>2 DEF Apply, AnswerInv, LogInv, Inv, TypeOK, Message
<1>5. CASE msg.cmd # c
  BY <1>1, <1>2, <1>3, <1>4, <1>5, OtherMessage DEF Commands
<1>6. CASE msg.cmd = c
  <2>1. /\ context'[c].last = msg.status
        /\ context'[c].done = context[c].done /\ context'[c].stored = context[c].stored
    BY <1>4, <1>6 DEF CommandContext
  <2>2. InHand(c, s) /\ Applying(c, s) /\ ~Waking(c, s)
    BY <1>1, <1>2, <1>6 DEF InHand, Applying, Waking
  <2>3. /\ ~Applying(c, s)' /\ (Waking(c, s)' <=> msg.status \in Replies)
        /\ ReplyInHand(c, s) <=> msg.status \in Replies
        /\ ReplyInHand(c, s)' <=> msg.status \in Replies
        /\ Heard(c)' <=> msg.status \in Replies
        /\ ReplyOnStream(c, s)' <=> ReplyOnStream(c, s)
    BY <1>1, <1>2, <1>3, <1>6, <2>1 DEF Applying, Waking, ReplyInHand, InHand, Heard, ReplyOnStream
  <2>4. ASSUME Coming(c, s) PROVE Coming(c, s)'
    BY <1>2, <2>1, <2>2, <2>3, <2>4 DEF Coming
  <2>5. Polled(c) => caller[c].stream = s
    BY <2>2, InItsHands
  <2>6. Sends(c) /\ (caller[c].pc \in Unsent => ~context'[c].done)
    BY <2>1 DEF AnswerInv, Sends
  <2> QED
    BY <1>2, <2>4, <2>5, <2>6, PolledKept
<1> QED
  BY <1>5, <1>6

LEMMA WakeAnswer ==
    ASSUME AnswerInv, NEW s \in Streams, Wake(s), NEW c \in Async
    PROVE  Sends(c)'
<1>1. PICK msg : msg = server[s].msg
  OBVIOUS
<1>2. /\ server[s].pc = "wake" /\ msg \in Message
      /\ UNCHANGED <<stream, down, up, caller, agent, work>>
  BY <1>1 DEF Wake, AnswerInv, LogInv, Inv, Honest
<1>3. /\ server'[s].pc = "log" /\ server'[s].msg = msg
      /\ \A t \in Streams \ {s} : server'[t] = server[t]
  BY <1>1, ServerGoesTo DEF Wake, AnswerInv, LogInv, Inv
<1>4. /\ context[msg.cmd] \in CommandContext
      /\ context'[msg.cmd].done /\ context'[msg.cmd].last = context[msg.cmd].last
      /\ \A d \in Commands \ {msg.cmd} : context'[d] = context[d]
  <2>1. PICK result : context' = [context EXCEPT ![msg.cmd].done = TRUE, ![msg.cmd].result = result]
    BY <1>1 DEF Wake
  <2>2. msg.cmd \in Commands /\ context \in [Commands -> CommandContext]
    BY <1>2 DEF Message, AnswerInv, LogInv, Inv, TypeOK
  <2> QED
    BY <2>1, <2>2 DEF CommandContext
<1>5. CASE msg.cmd # c
  BY <1>1, <1>2, <1>3, <1>4, <1>5, OtherMessage DEF Commands
<1>6. CASE msg.cmd = c
  <2>1. InHand(c, s) /\ Waking(c, s)
    BY <1>1, <1>2, <1>6 DEF InHand, Waking
  <2>2. /\ ~Applying(c, s)' /\ ~Waking(c, s)' /\ (Heard(c)' <=> Heard(c))
        /\ ReplyInHand(c, s)' <=> ReplyInHand(c, s)
        /\ ReplyOnStream(c, s)' <=> ReplyOnStream(c, s)
    BY <1>1, <1>2, <1>3, <1>4, <1>6 DEF Applying, Waking, ReplyInHand, InHand, Heard, ReplyOnStream
  <2>3. ReplyInHand(c, s)
    BY <1>1, <1>2, <2>1 DEF ReplyInHand, AnswerInv, LogInv, Inv, Honest
  <2>4. ASSUME Coming(c, s) PROVE Coming(c, s)'
    BY <1>2, <1>4, <1>6, <2>1, <2>2, <2>3, <2>4 DEF Coming
  <2>5. Polled(c) => caller[c].stream = s
    BY <2>1, InItsHands
  <2>6. Sends(c) /\ c \in Commands
    BY DEF AnswerInv, Commands
  <2>7. caller[c].pc \notin Unsent
    BY <2>1, <2>6 DEF AnswerInv, LogInv, Inv, Once, Unseen, Ordered, BeforeReply
  <2> QED
    BY <1>2, <2>4, <2>5, <2>6, <2>7, PolledKept
<1> QED
  BY <1>5, <1>6

LEMMA UpdateLogAnswer ==
    ASSUME AnswerInv, NEW s \in Streams, UpdateLog(s), NEW c \in Async
    PROVE  Sends(c)'
<1>1. /\ server[s].pc = "log" /\ server'[s].pc = "recv"
      /\ \A t \in Streams \ {s} : server'[t] = server[t]
      /\ UNCHANGED <<stream, down, up, caller, context, agent, work>>
  BY DEF UpdateLog, AnswerInv, LogInv, Inv, TypeOK
<1>2. Sends(c)
  BY DEF AnswerInv
<1>3. CASE caller[c].stream # s
  BY <1>1, <1>2, <1>3, SendsKept
<1>4. CASE caller[c].stream = s
  <2>1. /\ ~Waking(c, s) /\ ~Applying(c, s)
        /\ ~Waking(c, s)' /\ ~Applying(c, s)' /\ ~ReplyInHand(c, s)'
    BY <1>1 DEF Waking, Applying, ReplyInHand, InHand
  <2>2. ASSUME Coming(c, s) PROVE Coming(c, s)'
    BY <1>1, <2>1, <2>2 DEF Coming, Heard, ReplyOnStream
  <2> QED
    BY <1>1, <1>2, <1>4, <2>2, PolledKept DEF Sends
<1> QED
  BY <1>3, <1>4

LEMMA ServerAnswer ==
    ASSUME AnswerInv, NEW s \in Streams, ServerStep(s)
    PROVE  Opened' /\ \A c \in Async : Sends(c)'
<1>1. TypeOK /\ UNCHANGED caller
  BY DEF AnswerInv, LogInv, Inv, ServerStep, Receive, Apply, Wake, UpdateLog, StreamEnds
<1>2. CASE StreamEnds(s)
  <2>1. /\ stream[s] = "broken" /\ stream'[s] = "closed"
        /\ \A t \in Streams \ {s} : stream'[t] = stream[t]
        /\ conn'.stream \in {conn.stream, NoStream}
        /\ UNCHANGED <<down, up, server, context, agent, work>>
    BY <1>1, <1>2 DEF StreamEnds, TypeOK
  <2>2. Opened'
    BY <1>1, <2>1, OpenedKept DEF AnswerInv
  <2>3. \A c \in Async : Sends(c)'
    BY <1>1, <2>1, SendsKept DEF AnswerInv
  <2> QED
    BY <2>2, <2>3
<1>3. CASE Receive(s) \/ Apply(s) \/ Wake(s) \/ UpdateLog(s)
  <2>1. UNCHANGED <<conn, stream>>
    BY <1>3 DEF Receive, Apply, Wake, UpdateLog
  <2> QED
    BY <1>1, <1>3, <2>1, OpenedKept, ReceiveAnswer, ApplyAnswer, WakeAnswer, UpdateLogAnswer DEF AnswerInv
<1> QED
  BY <1>2, <1>3 DEF ServerStep

-----------------------------------------------------------------------------
(* The agent answers, streams come and go.                                 *)

\* A step that does not change what the caller, the agent and the messages say of c.
LEMMA SameSends ==
    ASSUME NEW c \in Async, Sends(c), UNCHANGED <<caller, stream, down, server>>,
           UNCHANGED <<context[c].done, context[c].last, agent[c].stream, agent[c].replied>>,
           context'[c].stored = context[c].stored \/ context[c].done,
           work'[c] = "none" <=> work[c] = "none",
           \A t \in Streams : ReplyOnStream(c, t)' <=> ReplyOnStream(c, t)
    PROVE  Sends(c)'
<1>1. ASSUME NEW s \in Streams, Coming(c, s) PROVE Coming(c, s)'
  <2>1. /\ Applying(c, s)' <=> Applying(c, s)
        /\ Waking(c, s)' <=> Waking(c, s)
        /\ ReplyInHand(c, s)' <=> ReplyInHand(c, s)
        /\ Heard(c)' <=> Heard(c)
    BY DEF Applying, Waking, ReplyInHand, InHand, Heard
  <2> QED
    BY <1>1, <2>1 DEF Coming
<1> QED
  BY <1>1, PolledKept DEF Sends

LEMMA ForgetAnswer ==
    ASSUME AnswerInv, NEW d \in Commands, Forget(d)
    PROVE  Opened' /\ \A c \in Async : Sends(c)'
<1>1. /\ context[d].done /\ context' = [context EXCEPT ![d].stored = FALSE]
      /\ UNCHANGED <<conn, stream, down, up, server, caller, agent, work>>
  BY DEF Forget
<1>2. \A c \in Commands : /\ context'[c].done = context[c].done /\ context'[c].last = context[c].last
                          /\ context'[c].stored = context[c].stored \/ context[c].done
  BY <1>1 DEF AnswerInv, LogInv, Inv, TypeOK, CommandContext
<1>3. ASSUME NEW c \in Async PROVE Sends(c)'
  BY <1>1, <1>2, SameSends DEF AnswerInv, ReplyOnStream, Commands
<1> QED
  BY <1>1, <1>3 DEF AnswerInv, Opened

\* Which replies are on a stream after something was said.
LEMMA PutReplies ==
    ASSUME TypeOK, NEW s \in Streams, NEW d \in Commands, NEW status \in Statuses, Put(s, d, status),
           NEW c \in Commands, NEW t \in Streams
    PROVE  ReplyOnStream(c, t)' <=>
              ReplyOnStream(c, t) \/ (t = s /\ c = d /\ status \in Replies /\ stream[s] = "open")
<1> DEFINE msg == [cmd |-> d, status |-> status]
<1>1. msg \in Message /\ up[s] \in Seq(Message) /\ msg.cmd = d /\ msg.status = status
  BY DEF TypeOK, Message
<1>2. up' = [up EXCEPT ![s] = IF stream[s] = "open" THEN Append(up[s], msg) ELSE up[s]]
  BY DEF Put, TypeOK
<1> HIDE DEF msg
<1>3. /\ Len(up[s]) \in Nat
      /\ Len(Append(up[s], msg)) = Len(up[s]) + 1
      /\ \A i \in 1 .. Len(up[s]) : Append(up[s], msg)[i] = up[s][i]
      /\ Append(up[s], msg)[Len(up[s]) + 1] = msg
  BY <1>1, AppendProperties, LenProperties
<1>4. CASE t # s \/ stream[s] # "open"
  <2>1. up'[t] = up[t]
    BY <1>2, <1>4 DEF TypeOK
  <2> QED
    BY <1>4, <2>1 DEF ReplyOnStream
<1>5. CASE t = s /\ stream[s] = "open"
  <2>1. up'[s] = Append(up[s], msg)
    BY <1>2, <1>5 DEF TypeOK
  <2>2. Len(up[s]) + 1 \in 1 .. Len(up'[s])
    BY <1>3, <2>1
  <2>3. \A i \in 1 .. Len(up[s]) : i \in 1 .. Len(up'[s])
    BY <1>3, <2>1
  <2>4. \A i \in 1 .. Len(up'[s]) : i \in 1 .. Len(up[s]) \/ i = Len(up[s]) + 1
    BY <1>3, <2>1
  <2> QED
    BY <1>1, <1>3, <1>5, <2>1, <2>2, <2>3, <2>4 DEF ReplyOnStream
<1> QED
  BY <1>4, <1>5

\* Progress is no reply; the reply takes the place of the handler that owed it.
LEMMA AgentAnswer ==
    ASSUME AnswerInv, NEW d \in Commands, AgentStep(d)
    PROVE  Opened' /\ \A c \in Async : Sends(c)'
<1>1. TypeOK /\ UNCHANGED <<conn, stream, down, server, caller, context>>
  BY DEF AnswerInv, LogInv, Inv, AgentStep, Report, Finish, Reply
<1>2. ASSUME Report(d), NEW c \in Async PROVE Sends(c)'
  <2>1. PICK s \in Streams : Put(s, d, "running")
    BY <1>2 DEF Report
  <2>2. \A t \in Streams : ReplyOnStream(c, t)' <=> ReplyOnStream(c, t)
    <3>1. "running" \in Statuses \ Replies /\ c \in Commands
      BY DEF Statuses, Replies, Commands
    <3> QED
      BY <1>1, <2>1, <3>1, PutReplies
  <2>3. agent'[c].stream = agent[c].stream /\ agent'[c].replied = agent[c].replied
    <3>1. agent' = [agent EXCEPT ![d].reports = @ + 1] /\ c \in Commands /\ agent[d] \in Executor
      BY <1>1, <1>2 DEF Report, Commands, TypeOK
    <3> QED
      BY <1>1, <3>1 DEF TypeOK, Executor
  <2> QED
    BY <1>1, <1>2, <2>2, <2>3, SameSends DEF Report, AnswerInv
<1>3. ASSUME Finish(d), NEW c \in Async PROVE Sends(c)'
  <2>1. UNCHANGED <<up, agent>> /\ (work'[c] = "none" <=> work[c] = "none")
    BY <1>1, <1>3 DEF Finish, TypeOK, Replies, Commands
  <2> QED
    BY <1>1, <2>1, SameSends DEF ReplyOnStream, AnswerInv
<1>4. ASSUME Reply(d), NEW c \in Async PROVE Sends(c)'
  <2>1. /\ work[d] # "none" /\ ~agent[d].replied /\ UNCHANGED work
        /\ agent[d].stream \in Streams /\ agent[d] \in Executor /\ c \in Commands
    BY <1>1, <1>4 DEF Reply, AnswerInv, LogInv, Inv, Once, TypeOK, Commands
  <2>2. PICK r \in Replies : Put(agent[d].stream, d, r)
    BY <1>4 DEF Reply, Replies
  <2>3. /\ agent'[d].replied /\ agent'[d].stream = agent[d].stream
        /\ \A e \in Commands \ {d} : agent'[e] = agent[e]
    <3>1. agent' = [agent EXCEPT ![d].replied = TRUE]
      BY <1>4 DEF Reply
    <3> QED
      BY <1>1, <2>1, <3>1 DEF TypeOK, Executor
  <2>4. \A t \in Streams : ReplyOnStream(c, t)' <=>
           ReplyOnStream(c, t) \/ (t = agent[d].stream /\ c = d /\ stream[t] = "open")
    BY <1>1, <2>1, <2>2, PutReplies DEF Statuses
  <2>5. CASE c # d
    BY <1>1, <2>1, <2>3, <2>4, <2>5, SameSends DEF AnswerInv
  <2>6. CASE c = d
    <3>1. ASSUME Polled(c), caller[c].stream \in Streams, Coming(c, caller[c].stream)
          PROVE  Coming(c, caller[c].stream)'
      <4>1. PICK s \in Streams : s = caller[c].stream
        BY <3>1
      <4>2. agent[c].stream = s /\ stream[s] = "open" /\ Coming(c, s)
        BY <2>1, <2>6, <3>1, <4>1 DEF Coming, Polled
      <4>3. ReplyOnStream(c, s)' /\ agent'[c].stream = s /\ agent'[c].replied
        BY <2>3, <2>4, <2>6, <4>2
      <4>4. ~context'[c].done
        BY <1>1, <2>1, <2>6, <4>2 DEF Coming
      <4>5. /\ Waking(c, s)' <=> Waking(c, s)
            /\ Heard(c)' <=> Heard(c)
        BY <1>1 DEF Waking, Heard
      <4>6. Coming(c, s)'
        BY <1>1, <2>1, <4>2, <4>3, <4>4, <4>5 DEF Coming
      <4> QED
        BY <1>1, <4>1, <4>6
    <3>2. Sends(c)
      BY DEF AnswerInv
    <3> QED
      BY <1>1, <3>1, <3>2, PolledKept DEF Sends
  <2> QED
    BY <2>5, <2>6
<1>5. Opened'
  BY <1>1 DEF AnswerInv, Opened
<1> QED
  BY <1>2, <1>3, <1>4, <1>5 DEF AgentStep

LEMMA AcceptAnswer ==
    ASSUME AnswerInv, NEW s \in Streams, NEW d \in Commands, Accept(s, d)
    PROVE  Opened' /\ \A c \in Async : Sends(c)'
<1>1. UNCHANGED <<conn, stream, up, server, caller, context>> /\ stream[s] = "open" /\ d \in down[s]
  BY DEF Accept
<1>2. work[d] = "none" /\ ~agent[d].replied /\ \A t \in Streams : ~OnStream(d, t) /\ ~InHand(d, t)
  BY <1>1 DEF AnswerInv, LogInv, Inv, Once, Ordered, BeforeReply
<1>3. work'[d] = "running" /\ \A c \in Commands \ {d} : work'[c] = work[c]
  BY DEF Accept, AnswerInv, LogInv, Inv, TypeOK
<1>4. /\ agent'[d].stream = s /\ agent'[d].replied = agent[d].replied
      /\ \A c \in Commands \ {d} : agent'[c] = agent[c]
  <2>1. agent' = [agent EXCEPT ![d].stream = s]
    BY DEF Accept
  <2> QED
    BY <2>1 DEF AnswerInv, LogInv, Inv, TypeOK, Executor
<1>5. \A t \in Streams : down'[t] = IF t = s THEN down[t] \ {d} ELSE down[t]
  BY DEF Accept, AnswerInv, LogInv, Inv, TypeOK
<1>6. ASSUME NEW c \in Async PROVE Sends(c)'
  <2>1. Sends(c) /\ c \in Commands
    BY DEF AnswerInv, Commands
  <2>2. CASE c # d
    BY <1>1, <1>3, <1>4, <1>5, <2>1, <2>2, SendsKept
  <2>3. CASE c = d
    <3>1. ASSUME NEW u \in Streams, Coming(c, u) PROVE Coming(c, u)'
      <4>1. u = s
        BY <1>1, <2>3, <3>1 DEF Coming
      <4>2. /\ ~Waking(c, u) /\ ~Applying(c, u) /\ ~ReplyInHand(c, u) /\ ~ReplyOnStream(c, u)
            /\ ~Waking(c, u)' /\ ~Applying(c, u)' /\ ~ReplyInHand(c, u)' /\ ~ReplyOnStream(c, u)'
        BY <1>1, <1>2, <2>3 DEF Waking, Applying, ReplyInHand, ReplyOnStream, InHand, OnStream
      <4>3. \A t \in Streams : c \notin down'[t]
        BY <1>5, <2>3, <3>1, <4>1 DEF Coming
      <4> QED
        BY <1>1, <1>2, <1>3, <1>4, <2>3, <3>1, <4>1, <4>2, <4>3 DEF Coming
    <3> QED
      BY <1>1, <2>1, <3>1, PolledKept DEF Sends
  <2> QED
    BY <2>2, <2>3
<1> QED
  BY <1>1, <1>6 DEF AnswerInv, Opened

\* Nobody waits on a stream that has yet to be opened,
LEMMA OpenStreamAnswer ==
    ASSUME AnswerInv, NEW s \in Streams, OpenStream(s)
    PROVE  Opened' /\ \A c \in Async : Sends(c)'
<1>1. UNCHANGED <<down, up, server, caller, context, agent, work>>
  BY DEF OpenStream
<1>2. /\ stream[s] = "unopened" /\ stream'[s] = "open" /\ conn'.stream = s
      /\ \A t \in Streams \ {s} : stream'[t] = stream[t]
  BY DEF OpenStream, AnswerInv, LogInv, Inv, TypeOK
<1>3. \A c \in Commands : caller[c].stream \in Streams \cup {NoStream} /\ caller[c].stream # s
  <2>1. \A c \in Commands : caller[c].stream \in Streams \cup {NoStream}
    BY DEF AnswerInv, LogInv, Inv, TypeOK, Caller
  <2>2. s # NoStream
    BY StreamsAssumption DEF Streams, NoStream
  <2> QED
    BY <1>2, <2>1, <2>2 DEF AnswerInv, Opened
<1>4. Opened'
  BY <1>1, <1>2, <1>3 DEF AnswerInv, Opened
<1>5. ASSUME NEW c \in Async PROVE Sends(c)'
  BY <1>1, <1>2, <1>3, SendsKept DEF AnswerInv, Commands
<1> QED
  BY <1>4, <1>5

\* where a stream is open no other can break,
LEMMA BreakAnswer ==
    ASSUME AnswerInv, NEW s \in Streams, Break(s)
    PROVE  Opened' /\ \A c \in Async : Sends(c)'
<1>1. UNCHANGED <<conn, server, caller, context, agent, work>>
  BY DEF Break
<1>2. /\ stream[s] = "open" /\ stream'[s] = "broken"
      /\ \A t \in Streams \ {s} : stream'[t] = stream[t]
  BY DEF Break, AnswerInv, LogInv, Inv, TypeOK
<1>3. \A t \in Streams : stream'[t] # "open"
  <2>1. ASSUME NEW t \in Streams, stream[t] = "open", t # s PROVE FALSE
    <3>1. t < s \/ s < t
      BY <2>1, StreamsAssumption DEF Streams
    <3> QED
      BY <1>2, <2>1, <3>1 DEF AnswerInv, LogInv, Ordered, LastIsOpen
  <2> QED
    BY <1>2, <2>1
<1>4. Opened'
  BY <1>1, <1>2, OpenedKept DEF AnswerInv, LogInv, Inv
<1>5. ASSUME NEW c \in Async PROVE Sends(c)'
  BY <1>1, <1>3 DEF AnswerInv, Sends, Polled
<1> QED
  BY <1>4, <1>5

\* and the agent does not die.
LEMMA AgentDiesAnswer == ASSUME AnswerInv, AgentDies PROVE Opened' /\ \A c \in Async : Sends(c)'
<1>1. UNCHANGED <<conn, stream, caller, context>> /\ \A s \in Streams : stream[s] # "open"
  BY DEF AgentDies
<1> QED
  BY <1>1 DEF AnswerInv, Opened, Sends, Polled

LEMMA AnswerInvNext == AnswerInv /\ [Next]_vars => AnswerInv'
<1> SUFFICES ASSUME AnswerInv, [Next]_vars PROVE AnswerInv'
  OBVIOUS
<1>1. LogInv'
  BY LogInvNext DEF AnswerInv
<1>2. CASE HeartbeatStatus \/ UNCHANGED vars
  <2>1. /\ UNCHANGED <<stream, down, up, server, caller, context, agent, work>>
        /\ conn'.stream = conn.stream
    BY <1>2 DEF HeartbeatStatus, vars, AnswerInv, LogInv, Inv, TypeOK, Connection
  <2>2. Opened'
    BY <2>1 DEF AnswerInv, Opened
  <2>3. \A c \in Async : Sends(c)'
    BY <2>1, SendsKept DEF AnswerInv
  <2> QED
    BY <1>1, <2>2, <2>3 DEF AnswerInv
<1>3. CASE ~(HeartbeatStatus \/ UNCHANGED vars)
  BY <1>1, <1>3, CallerAnswer, ForgetAnswer, AgentAnswer, ServerAnswer, OpenStreamAnswer, BreakAnswer,
     AcceptAnswer, AgentDiesAnswer DEF Next, AnswerInv
<1> QED
  BY <1>2, <1>3

\* The status of an asynchronous command (SendCommandAsync, GetCommandStatus) is
\* terminal, or the next step on the way of its reply is due, as long as the stream of
\* the request holds: no report, no forgotten context, no other stream's goroutine
\* gets between.
THEOREM AnswerOnItsWay == Spec => []AnswerIsComing
BY AnswerInvInit, AnswerInvNext, AnswerInvComing, PTL DEF Spec
===============================================================================
