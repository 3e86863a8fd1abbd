----------------------------- MODULE ScaleOutcome -----------------------------
(***************************************************************************)
(* What the list of a cluster's scaling operations promises, whatever      *)
(* fails, restarts or is retried on the way:                               *)
(*   - at most one operation is under way;                                 *)
(*   - an operation carries out the plan it was submitted with;            *)
(*   - its steps are done one by one, and what is done stays done: a retry *)
(*     goes on after it;                                                   *)
(*   - it succeeds only when all its steps are done, and that is the end.  *)
(***************************************************************************)
EXTENDS Naturals

CONSTANT Ops

VARIABLES
    plan,    \* what each operation is to do
    size,    \* the number of its steps
    done,    \* how many of them are done
    status   \* none, running, succeeded or failed

Init ==
    /\ done = [o \in Ops |-> 0]
    /\ status = [o \in Ops |-> "none"]

Free        == \A o \in Ops : status[o] # "running"
OnlyPlan(o) == \A p \in Ops \ {o} : plan'[p] = plan[p] /\ size'[p] = size[p]

\* An operation is submitted with some plan; it may fail to start.
Submit(o) ==
    /\ status[o] = "none" /\ Free
    /\ OnlyPlan(o)
    /\ \E s \in {"running", "failed"} : status' = [status EXCEPT ![o] = s]
    /\ UNCHANGED done

Step(o) ==
    /\ status[o] = "running" /\ done[o] < size[o]
    /\ done' = [done EXCEPT ![o] = @ + 1]
    /\ UNCHANGED <<plan, size, status>>

End(o) ==
    /\ status[o] = "running"
    /\ \E s \in {"succeeded", "failed"} :
          /\ s = "succeeded" => done[o] = size[o]
          /\ status' = [status EXCEPT ![o] = s]
    /\ UNCHANGED <<plan, size, done>>

Retry(o) ==
    /\ status[o] = "failed" /\ Free
    /\ status' = [status EXCEPT ![o] = "running"]
    /\ UNCHANGED <<plan, size, done>>

Next == \E o \in Ops : Submit(o) \/ Step(o) \/ End(o) \/ Retry(o)

Spec == Init /\ [][Next]_<<plan, size, done, status>>
=============================================================================
