---------------------------- MODULE TaskLifecycle ----------------------------
(***************************************************************************)
(* What the task engine promises about each task, without tables, tokens,  *)
(* leases, Workers or clocks: a task is attempted at most once at a time,  *)
(* a bounded number of failing attempts is spent on it, a cancellation     *)
(* that was accepted is honoured, and an end is final.                     *)
(***************************************************************************)
EXTENDS Naturals

CONSTANTS Tasks, MaxRetries

VARIABLES
  state,        \* where the task stands
  attempting,   \* an attempt is under way
  failures      \* attempts that failed or were lost

vars == <<state, attempting, failures>>

Ends == {"success", "failed", "cancelled"}
States == {"absent", "queued", "running", "blocked", "stopping"} \cup Ends

Init ==
  /\ state = [t \in Tasks |-> "absent"]
  /\ attempting = [t \in Tasks |-> FALSE]
  /\ failures = [t \in Tasks |-> 0]

Move(t, from, to) ==
  /\ state[t] \in from
  /\ state' = [state EXCEPT ![t] = to]

\* Without an attempt.
Submit(t) == Move(t, {"absent"}, "queued") /\ UNCHANGED <<attempting, failures>>
Unblock(t) == Move(t, {"blocked"}, "queued") /\ UNCHANGED <<attempting, failures>>
Withdraw(t) == Move(t, {"queued", "blocked"}, "cancelled") /\ UNCHANGED <<attempting, failures>>

\* A task asked to stop is attempted again, to settle what became of it.
Start(t) ==
  /\ ~attempting[t]
  /\ Move(t, {"queued"}, "running") \/ Move(t, {"stopping"}, "stopping")
  /\ attempting' = [attempting EXCEPT ![t] = TRUE]
  /\ UNCHANGED failures

AskToStop(t) ==
  /\ attempting[t]
  /\ Move(t, {"running"}, "stopping")
  /\ UNCHANGED <<attempting, failures>>

EndAttempt(t) ==
  /\ attempting[t]
  /\ attempting' = [attempting EXCEPT ![t] = FALSE]

Succeed(t) == EndAttempt(t) /\ Move(t, {"running", "stopping"}, "success") /\ UNCHANGED failures
Stop(t) == EndAttempt(t) /\ Move(t, {"stopping"}, "cancelled") /\ UNCHANGED failures
Yield(t) == EndAttempt(t) /\ Move(t, {"running"}, "queued") /\ UNCHANGED failures
Block(t) == EndAttempt(t) /\ Move(t, {"running"}, "blocked") /\ UNCHANGED failures

\* The attempt failed; it is repeated only within the budget.
Fail(t) ==
  /\ EndAttempt(t)
  /\ \/ Move(t, {"running"}, "failed")
     \/ failures[t] < MaxRetries /\ Move(t, {"running"}, "queued")
  /\ failures' = [failures EXCEPT ![t] = @ + 1]

\* Nobody knows how the attempt ended; the task itself fails only when the
\* budget is spent, and a task asked to stop stays so.
Lose(t) ==
  /\ EndAttempt(t)
  /\ \/ Move(t, {"running"}, IF failures[t] < MaxRetries THEN "queued" ELSE "failed")
     \/ Move(t, {"stopping"}, "stopping")
  /\ failures' = [failures EXCEPT ![t] = @ + 1]

Next ==
  \E t \in Tasks :
    \/ Submit(t) \/ Unblock(t) \/ Withdraw(t)
    \/ Start(t) \/ AskToStop(t)
    \/ Succeed(t) \/ Stop(t) \/ Yield(t) \/ Block(t) \/ Fail(t) \/ Lose(t)

Spec == Init /\ [][Next]_vars
=============================================================================
