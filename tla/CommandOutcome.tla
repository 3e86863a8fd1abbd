---------------------------- MODULE CommandOutcome ----------------------------
(***************************************************************************)
(* What the command channel between the control plane and an agent         *)
(* promises the caller of a synchronous command, whatever happens to the   *)
(* connection:                                                             *)
(*   - the agent carries the command out at most once;                     *)
(*   - the caller is answered once;                                        *)
(*   - "success" means the agent's handler has succeeded;                  *)
(*   - "refused" means the agent has not seen the command and never will.  *)
(* An error (timeout, cancelled caller, failed response) promises nothing: *)
(* the handler may still run and may still succeed.                        *)
(***************************************************************************)
CONSTANTS Commands

VARIABLES
    work,    \* what the agent has done for a command
    answer   \* what the caller has been told

Works   == {"none", "running", "success", "failed"}
Answers == {"none", "refused", "success", "error"}

Init ==
    /\ work = [c \in Commands |-> "none"]
    /\ answer = [c \in Commands |-> "none"]

Begin(c) ==
    /\ work[c] = "none"
    /\ answer[c] # "refused"
    /\ work' = [work EXCEPT ![c] = "running"]
    /\ UNCHANGED answer

End(c) ==
    /\ work[c] = "running"
    /\ \E w \in {"success", "failed"} : work' = [work EXCEPT ![c] = w]
    /\ UNCHANGED answer

\* The agent process dies and takes its running commands with it.
Interrupt ==
    /\ work' = [c \in Commands |-> IF work[c] = "running" THEN "failed" ELSE work[c]]
    /\ UNCHANGED answer

Tell(c) ==
    /\ answer[c] = "none"
    /\ \E a \in Answers :
        /\ a = "success" => work[c] = "success"
        /\ a = "refused" => work[c] = "none"
        /\ answer' = [answer EXCEPT ![c] = a]
    /\ UNCHANGED work

Next ==
    \/ Interrupt
    \/ \E c \in Commands : Begin(c) \/ End(c) \/ Tell(c)

Spec == Init /\ [][Next]_<<work, answer>>
=============================================================================
