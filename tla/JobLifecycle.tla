---------------------------- MODULE JobLifecycle ----------------------------
(***************************************************************************)
(* What the job queue promises, without workers, leases or versions: every *)
(* job is submitted once, runs at most MaxAttempts times, and ends either  *)
(* succeeded or failed.  One database transaction may move several jobs    *)
(* (the lease-expiry sweep does), so a step is any set of job transitions. *)
(*                                                                         *)
(* JobQueue implements this specification as long as no handler outlives   *)
(* its lease; BuildFarm is built on top of it.                             *)
(***************************************************************************)
EXTENDS Naturals

CONSTANTS
    Jobs,         \* rows of job_tasks
    MaxAttempts   \* MaxAttempts[j]: the max_attempts column of job j

VARIABLES
    st,           \* st[j]: the status column, "absent" before the insert
    tries         \* tries[j]: the attempts column

jobVars == <<st, tries>>

JobStatus == {"absent", "queued", "running", "success", "failed"}
Terminal == {"success", "failed"}

JobsAssumption == MaxAttempts \in [Jobs -> Nat \ {0}]

Init ==
    /\ st = [j \in Jobs |-> "absent"]
    /\ tries = [j \in Jobs |-> 0]

Stays(j) == st'[j] = st[j] /\ tries'[j] = tries[j]

\* JobBackend.enqueue
Submitted(j) == st[j] = "absent" /\ st'[j] = "queued" /\ tries'[j] = tries[j]

\* A claim: the only step that uses up an attempt.
Started(j) ==
    /\ st[j] = "queued"
    /\ tries[j] < MaxAttempts[j]
    /\ st'[j] = "running"
    /\ tries'[j] = tries[j] + 1

Finished(j) == st[j] = "running" /\ st'[j] \in Terminal /\ tries'[j] = tries[j]

\* A failed or abandoned attempt goes back to the queue while attempts remain.
Retried(j) ==
    /\ st[j] = "running"
    /\ tries[j] < MaxAttempts[j]
    /\ st'[j] = "queued"
    /\ tries'[j] = tries[j]

Move(j) == Submitted(j) \/ Started(j) \/ Finished(j) \/ Retried(j)

Next ==
    /\ st' \in [Jobs -> JobStatus]
    /\ tries' \in [Jobs -> Nat]
    /\ \A j \in Jobs : Move(j) \/ Stays(j)

Spec == Init /\ [][Next]_jobVars
=============================================================================
