---------------------------- MODULE RunLifecycle ----------------------------
(***************************************************************************)
(* What the durable runtime promises the clients of a run, without leases, *)
(* checkpoints, journals, crashes or store errors: the life of a run from  *)
(* its creation to an outcome, the attempts the retry policy allows it,    *)
(* and the dead letter queue an operator retries from.  DurableRuntime     *)
(* implements this specification when the calls on it do not overlap.      *)
(***************************************************************************)
EXTENDS Naturals

CONSTANTS
    Runs,        \* run identifiers
    MaxAttempts  \* retry_policy.max_attempts

VARIABLES
    state,       \* the label of each run's RunState, "absent" before it exists
    attempt,     \* the attempts counted against the retry policy
    dead         \* the runs in the dead letter queue

vars == <<state, attempt, dead>>

Live == {"pending", "running", "suspended"}

Becomes(r, s, n) ==
    /\ state' = [state EXCEPT ![r] = s]
    /\ attempt' = [attempt EXCEPT ![r] = n]
    /\ UNCHANGED dead

Init ==
    /\ state = [r \in Runs |-> "absent"]
    /\ attempt = [r \in Runs |-> 0]
    /\ dead = {}

\* A run is created for later, or created and started at once.
Create(r) == state[r] = "absent" /\ Becomes(r, "pending", 0)
Start(r)  == state[r] = "absent" /\ Becomes(r, "running", 1)

\* Every execution of a run that has no outcome is a new attempt.
Execute(r) == state[r] \in Live /\ Becomes(r, "running", attempt[r] + 1)

Complete(r) == state[r] = "running" /\ Becomes(r, "completed", attempt[r])
Fail(r)     == state[r] = "running" /\ Becomes(r, "failed", attempt[r])

\* Only a run that has attempts left waits for another one.
Suspend(r) ==
    state[r] = "running" /\ attempt[r] < MaxAttempts /\ Becomes(r, "suspended", attempt[r])
Requeue(r) ==
    state[r] \in Live /\ attempt[r] < MaxAttempts /\ Becomes(r, "pending", attempt[r])

Cancel(r) == state[r] \in Live /\ Becomes(r, "cancelled", attempt[r])

\* A run whose attempts are used up goes to the operators and fails.
Bury(r) ==
    /\ state[r] \in Live /\ attempt[r] >= MaxAttempts
    /\ dead' = dead \cup {r}
    /\ UNCHANGED <<state, attempt>>
GiveUp(r) == state[r] \in Live /\ r \in dead /\ Becomes(r, "failed", attempt[r])

\* The one way back from an outcome: an operator retries the run.
Revive(r)   == r \in dead /\ Becomes(r, "pending", attempt[r])
Unbury(r) ==
    /\ r \in dead /\ state[r] = "pending"
    /\ dead' = dead \ {r}
    /\ UNCHANGED <<state, attempt>>

Next ==
    \E r \in Runs :
        \/ Create(r) \/ Start(r) \/ Execute(r) \/ Complete(r) \/ Fail(r) \/ Suspend(r)
        \/ Requeue(r) \/ Cancel(r) \/ Bury(r) \/ GiveUp(r) \/ Revive(r) \/ Unbury(r)

Spec == Init /\ [][Next]_vars
=============================================================================
