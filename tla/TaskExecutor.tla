----------------------------- MODULE TaskExecutor -----------------------------
(***************************************************************************)
(* What a thread pool promises to the threads that hand it work, with no   *)
(* word about threads, locks or condition variables:                       *)
(*                                                                         *)
(*   - a task is accepted once, and leaves the backlog once: either it is  *)
(*     started, in the order of acceptance, or the whole backlog is        *)
(*     discarded because the pool is closed;                               *)
(*   - at most Capacity tasks run at the same time;                        *)
(*   - a started task can only finish, never go back to the backlog.       *)
(*                                                                         *)
(* ThreadPool implements this specification.                               *)
(***************************************************************************)
EXTENDS Naturals, Sequences, FiniteSets

CONSTANTS Tasks,      \* the tasks that may be handed over
          Capacity    \* how many may run at the same time

VARIABLES backlog,    \* accepted and not yet started, oldest first
          status,     \* where each task is in its life
          open        \* FALSE once closing the pool has begun

vars == <<backlog, status, open>>

Running == {t \in Tasks : status[t] = "running"}

Init ==
    /\ backlog = <<>>
    /\ status = [t \in Tasks |-> "new"]
    /\ open = TRUE

\* The code accepts work at any time, even after it was closed.
Accept(t) ==
    /\ status[t] = "new"
    /\ backlog' = Append(backlog, t)
    /\ status' = [status EXCEPT ![t] = "queued"]
    /\ UNCHANGED open

Start ==
    /\ backlog # <<>>
    /\ Cardinality(Running) < Capacity
    /\ backlog' = Tail(backlog)
    /\ status' = [status EXCEPT ![Head(backlog)] = "running"]
    /\ UNCHANGED open

Finish(t) ==
    /\ status[t] = "running"
    /\ status' = [status EXCEPT ![t] = "done"]
    /\ UNCHANGED <<backlog, open>>

Close ==
    /\ open' = FALSE
    /\ UNCHANGED <<backlog, status>>

Discard ==
    /\ ~open
    /\ backlog' = <<>>
    /\ status' = [t \in Tasks |->
                    IF status[t] = "queued" THEN "dropped" ELSE status[t]]
    /\ UNCHANGED open

Next ==
    \/ \E t \in Tasks : Accept(t) \/ Finish(t)
    \/ Start
    \/ Close
    \/ Discard

Spec == Init /\ [][Next]_vars

===============================================================================
