------------------------------ MODULE JobQueue ------------------------------
(***************************************************************************)
(* The job queue of OSFabricum: the job_tasks table and the worker         *)
(* processes that poll it (osfabricum/queue/backend.py, queue/worker.py,   *)
(* apps/worker/main.py).                                                   *)
(*                                                                         *)
(* A worker repeats: expire leases, claim, run the handler, complete or    *)
(* fail.  Every database operation is a SELECT followed by an UPDATE and a *)
(* COMMIT; under the isolation the code runs with (READ COMMITTED, or      *)
(* SQLite without an open read transaction) rows may change between the    *)
(* two, so each operation is two actions, and the rows the SELECT returned *)
(* are kept in snap.  The UPDATEs of one transaction become visible        *)
(* together, at its COMMIT.                                                *)
(***************************************************************************)
EXTENDS Naturals, FiniteSets

CONSTANTS
    NJobs,        \* bound: number of jobs ever enqueued
    Workers,      \* worker processes, named by hostname
    NoWorker,     \* the NULL of leased_by
    MaxAttempts,  \* MaxAttempts[j]: max_attempts given to enqueue
    Manual,       \* jobs enqueued with retry_policy = "manual"
    Kind,         \* Kind[j]: the job's kind
    Tags,         \* Tags[j]: its osf_required_tags
    WKinds,       \* WKinds[w]: kinds the worker polls for
    WTags,        \* WTags[w]: the worker's routing tags
    Handled,      \* kinds a handler is registered for
    Overrun,      \* TRUE: a handler may still run when its lease ends
    MaxOutages    \* bound: crashes and shutdowns of workers, all together

\* Numbered by created_at: claiming orders by it, all priorities being equal.
Jobs == 1 .. NJobs

ASSUME QueueAssumption ==
    /\ NJobs \in Nat
    /\ MaxAttempts \in [Jobs -> Nat \ {0}]
    /\ Manual \subseteq Jobs
    /\ NoWorker \notin Workers
    /\ Overrun \in BOOLEAN
    /\ MaxOutages \in Nat

VARIABLES
    row,      \* row[j]: job j's row of job_tasks
    lapsed,   \* running jobs whose lease_until is in the past
    pc,       \* pc[w]: the statement worker w is at
    snap,     \* snap[w]: the rows w's last SELECT returned, by job
    view,     \* view[w]: the JobView w is processing
    outages   \* crashes and shutdowns so far

vars == <<row, lapsed, pc, snap, view, outages>>

JobStatus == {"absent", "queued", "running", "success", "failed"}
Terminal == {"success", "failed"}

Row == [status: JobStatus, attempts: Nat, version: Nat,
        leased_by: Workers \cup {NoWorker}]

PC == {"poll", "expire", "claim", "claimWrite", "run", "complete",
       "fail", "failWrite", "down"}

\* Between a successful claim and the end of complete or fail.
Busy == {"run", "complete", "fail", "failWrite"}

NoRows == [j \in {} |-> NoWorker]
NoView == [job |-> 0, attempt |-> 0]

Init ==
    /\ row = [j \in Jobs |-> [status |-> "absent", attempts |-> 0,
                              version |-> 0, leased_by |-> NoWorker]]
    /\ lapsed = {}
    /\ pc = [w \in Workers |-> "poll"]
    /\ snap = [w \in Workers |-> NoRows]
    /\ view = [w \in Workers |-> NoView]
    /\ outages = 0

(***************************************************************************)
(* What the UPDATE statements do to a row.                                 *)
(***************************************************************************)
Inserted(r) == [r EXCEPT !.status = "queued"]

\* Mutant: an UPDATE that leaves the version as it is.
NotBumped(r) == r

Bumped(r) == [r EXCEPT !.version = @ + 1]

Requeued(r) == [Bumped(r) EXCEPT !.status = "queued", !.leased_by = NoWorker]

Failed(r) == [Bumped(r) EXCEPT !.status = "failed"]

Claimed(r, w) == [Bumped(r) EXCEPT !.status = "running", !.leased_by = w,
                                   !.attempts = @ + 1]

\* SQLBackend.succeed(id, {}) of pyjobkit, called with no expected version.
Succeeded(r) == [Bumped(r) EXCEPT !.status = "success"]

\* Mutant: off by one.
MayRetryOnceMore(j, r) == r.attempts <= MaxAttempts[j] /\ j \notin Manual

\* fail() decides on the row it read, not on the row it overwrites.
MayRetry(j, r) == r.attempts < MaxAttempts[j] /\ j \notin Manual

AfterFail(j, seen, r) == IF MayRetry(j, seen) THEN Requeued(r) ELSE Failed(r)

\* Mutants: the sweep does not compare versions, or is off by one.
AfterExpiryBlind(j, seen, r) ==
    IF seen.attempts < MaxAttempts[j] THEN Requeued(r) ELSE Failed(r)

AfterExpiryOnceMore(j, seen, r) ==
    IF seen.version # r.version THEN r
    ELSE IF seen.attempts <= MaxAttempts[j] THEN Requeued(r) ELSE Failed(r)

\* The lease sweep's compare-and-set: a row that changed since is left alone.
AfterExpiry(j, seen, r) ==
    IF seen.version # r.version THEN r
    ELSE IF seen.attempts < MaxAttempts[j] THEN Requeued(r) ELSE Failed(r)

\* Mutant: LIMIT 1 before the tags are compared.
EligibleFirst(w, j) ==
    /\ row[j].status = "queued"
    /\ Kind[j] \in WKinds[w]
    /\ Tags[j] \subseteq WTags[w]
    /\ \A i \in 1 .. (j - 1) : row[i].status = "queued" => Kind[i] \notin WKinds[w]

\* Rows the claiming SELECT keeps for worker w.
Eligible(w, j) ==
    /\ row[j].status = "queued"
    /\ Kind[j] \in WKinds[w]
    /\ Tags[j] \subseteq WTags[w]

Active(w, j) == pc[w] \in Busy /\ view[w].job = j

Goto(w, label) == pc' = [pc EXCEPT ![w] = label]

Read(w, S) == snap' = [snap EXCEPT ![w] = [j \in S |-> row[j]]]

Forget(w) == snap' = [snap EXCEPT ![w] = NoRows]

\* Mutant: the sweep looks at lease_until without the status.
LapsedForGood == UNCHANGED lapsed

\* A lease only matters while the row is running.
StillLapsed == lapsed' = {j \in lapsed : row'[j].status = "running"}

(***************************************************************************)
(* The actions.                                                            *)
(***************************************************************************)
\* JobBackend.enqueue, by the API or the CLI.  created_at is fixed before
\* the commit, so jobs may appear in another order than their numbers.
Enqueue(j) ==
    /\ row[j].status = "absent"
    /\ row' = [row EXCEPT ![j] = Inserted(@)]
    /\ UNCHANGED <<lapsed, pc, snap, view, outages>>

\* The clock passes lease_until.  Nothing renews a lease: without Overrun
\* the handlers are assumed to be done within lease_ttl_s.
LeaseEnds(j) ==
    /\ row[j].status = "running"
    /\ j \notin lapsed
    /\ Overrun \/ \A w \in Workers : ~Active(w, j)
    /\ lapsed' = lapsed \cup {j}
    /\ UNCHANGED <<row, pc, snap, view, outages>>

\* _do_expire_leases: the SELECT.
ExpireSelect(w) ==
    /\ pc[w] = "poll"
    /\ Read(w, lapsed)
    /\ Goto(w, IF lapsed = {} THEN "claim" ELSE "expire")
    /\ UNCHANGED <<row, lapsed, view, outages>>

\* _do_expire_leases: one UPDATE per selected row, one COMMIT.
ExpireWrite(w) ==
    /\ pc[w] = "expire"
    /\ row' = [j \in Jobs |-> IF j \in DOMAIN snap[w]
                              THEN AfterExpiry(j, snap[w][j], row[j])
                              ELSE row[j]]
    /\ StillLapsed
    /\ Forget(w)
    /\ Goto(w, "claim")
    /\ UNCHANGED <<view, outages>>

\* _do_claim_next: the SELECT, and the oldest row the worker's tags cover.
ClaimSelect(w) ==
    /\ pc[w] = "claim"
    /\ \E j \in Jobs :
        /\ Eligible(w, j)
        /\ \A i \in 1 .. (j - 1) : ~Eligible(w, i)
        /\ Read(w, {j})
    /\ Goto(w, "claimWrite")
    /\ UNCHANGED <<row, lapsed, view, outages>>

\* _do_claim_next finds nothing: the loop sleeps and polls again.
NothingToClaim(w) ==
    /\ pc[w] = "claim"
    /\ \A j \in Jobs : ~Eligible(w, j)
    /\ Goto(w, "poll")
    /\ UNCHANGED <<row, lapsed, snap, view, outages>>

\* Mutant: the UPDATE names the row by its id alone.
ClaimWriteBlind(w) ==
    /\ pc[w] = "claimWrite"
    /\ \E j \in DOMAIN snap[w] :
        /\ row' = [row EXCEPT ![j] = Claimed(@, w)]
        /\ view' = [view EXCEPT ![w] = [job |-> j,
                                        attempt |-> snap[w][j].attempts + 1]]
        /\ Goto(w, IF Kind[j] \in Handled THEN "run" ELSE "fail")
    /\ Forget(w)
    /\ UNCHANGED <<lapsed, outages>>

\* _do_claim_next: the UPDATE matches the row read, and it is still queued.
\* A kind without a handler goes straight to _do_fail.
ClaimWrite(w) ==
    /\ pc[w] = "claimWrite"
    /\ \E j \in DOMAIN snap[w] :
        /\ row[j].version = snap[w][j].version
        /\ row[j].status = "queued"
        /\ row' = [row EXCEPT ![j] = Claimed(@, w)]
        /\ view' = [view EXCEPT ![w] = [job |-> j,
                                        attempt |-> snap[w][j].attempts + 1]]
        /\ Goto(w, IF Kind[j] \in Handled THEN "run" ELSE "fail")
    /\ Forget(w)
    /\ UNCHANGED <<lapsed, outages>>

\* _do_claim_next: the UPDATE matches no row, another worker was faster.
ClaimLost(w) ==
    /\ pc[w] = "claimWrite"
    /\ \A j \in DOMAIN snap[w] : \/ row[j].version # snap[w][j].version
                                 \/ row[j].status # "queued"
    /\ Forget(w)
    /\ Goto(w, "poll")
    /\ UNCHANGED <<row, lapsed, view, outages>>

\* The handler returns, or raises.
HandlerEnds(w) ==
    /\ pc[w] = "run"
    /\ \E label \in {"complete", "fail"} : Goto(w, label)
    /\ UNCHANGED <<row, lapsed, snap, view, outages>>

\* _do_complete.
Complete(w) ==
    /\ pc[w] = "complete"
    /\ row' = [row EXCEPT ![view[w].job] = Succeeded(@)]
    /\ StillLapsed
    /\ view' = [view EXCEPT ![w] = NoView]
    /\ Goto(w, "poll")
    /\ UNCHANGED <<snap, outages>>

\* _do_complete raises: it is inside the handler's try, so the job fails.
CompleteRaises(w) ==
    /\ pc[w] = "complete"
    /\ Goto(w, "fail")
    /\ UNCHANGED <<row, lapsed, snap, view, outages>>

\* _do_fail: the SELECT.
FailSelect(w) ==
    /\ pc[w] = "fail"
    /\ Read(w, {view[w].job})
    /\ Goto(w, "failWrite")
    /\ UNCHANGED <<row, lapsed, view, outages>>

\* _do_fail: the UPDATE, which names the row by its id alone.
FailWrite(w) ==
    /\ pc[w] = "failWrite"
    /\ LET j == view[w].job IN
        row' = [row EXCEPT ![j] = AfterFail(j, snap[w][j], @)]
    /\ StillLapsed
    /\ Forget(w)
    /\ view' = [view EXCEPT ![w] = NoView]
    /\ Goto(w, "poll")
    /\ UNCHANGED outages

\* The process dies, or a database error outside the handler's try ends
\* its loop.  An open transaction is rolled back; the claimed row remains.
Crash(w) ==
    /\ pc[w] # "down"
    /\ outages < MaxOutages
    /\ outages' = outages + 1
    /\ Forget(w)
    /\ view' = [view EXCEPT ![w] = NoView]
    /\ Goto(w, "down")
    /\ UNCHANGED <<row, lapsed>>

\* SIGTERM sets the stop event, which the loop looks at between jobs only.
Stop(w) ==
    /\ pc[w] = "poll"
    /\ outages < MaxOutages
    /\ outages' = outages + 1
    /\ Goto(w, "down")
    /\ UNCHANGED <<row, lapsed, snap, view>>

\* The container's shell loop starts the worker again, under the same name.
Restart(w) ==
    /\ pc[w] = "down"
    /\ Goto(w, "poll")
    /\ UNCHANGED <<row, lapsed, snap, view, outages>>

\* One iteration of the poll loop, statement by statement.
LoopStep(w) ==
    \/ ExpireSelect(w) \/ ExpireWrite(w)
    \/ ClaimSelect(w) \/ NothingToClaim(w) \/ ClaimWrite(w) \/ ClaimLost(w)
    \/ HandlerEnds(w) \/ Complete(w) \/ CompleteRaises(w)
    \/ FailSelect(w) \/ FailWrite(w)

Next ==
    \/ \E j \in Jobs : Enqueue(j) \/ LeaseEnds(j)
    \/ \E w \in Workers : LoopStep(w) \/ Crash(w) \/ Stop(w) \/ Restart(w)

Spec == Init /\ [][Next]_vars

(***************************************************************************)
(* Workers keep running and are restarted, handlers end, time passes.      *)
(* Nobody has to enqueue, crash or shut down.                              *)
(***************************************************************************)
Fairness ==
    /\ \A w \in Workers : WF_vars(LoopStep(w)) /\ WF_vars(Restart(w))
    /\ \A j \in Jobs : WF_vars(LeaseEnds(j))

FairSpec == Spec /\ Fairness

(***************************************************************************)
(* Properties.                                                             *)
(***************************************************************************)
TypeOK ==
    /\ row \in [Jobs -> Row]
    /\ lapsed \subseteq {j \in Jobs : row[j].status = "running"}
    /\ pc \in [Workers -> PC]
    /\ DOMAIN snap = Workers
    /\ \A w \in Workers :
        /\ DOMAIN snap[w] \subseteq Jobs
        /\ snap[w] \in [DOMAIN snap[w] -> Row]
    /\ view \in [Workers -> [job: 0 .. NJobs, attempt: Nat]]
    /\ outages \in 0 .. MaxOutages

\* The optimistic lock is sound: a row whose version is the one a worker
\* read is the row it read, and no row ever goes back to an older version.
SnapshotsCoherent ==
    \A w \in Workers : \A j \in DOMAIN snap[w] :
        /\ snap[w][j].version <= row[j].version
        /\ snap[w][j].version = row[j].version => snap[w][j] = row[j]

\* However late the handlers are, no two of them ever run the same attempt
\* of a job: (job, JobView.attempt) names one execution.
ClaimsDistinct ==
    \A v, w \in Workers : \A j \in Jobs :
        Active(v, j) /\ Active(w, j) /\ view[v].attempt = view[w].attempt
            => v = w

\* While a worker processes a job whose lease it kept, the row is its own:
\* running, leased by it, at the attempt its JobView carries.  So no two
\* workers process one job at a time, nor is it queued meanwhile.
LeaseHeld ==
    \A w \in Workers : \A j \in Jobs : Active(w, j) =>
        /\ row[j].status = "running"
        /\ row[j].leased_by = w
        /\ row[j].attempts = view[w].attempt
        /\ j \notin lapsed

\* A job is never claimed more often than max_attempts allows, and a queued
\* job always has an attempt left: it cannot wait in vain.
WithinBudget ==
    \A j \in Jobs :
        /\ row[j].attempts <= MaxAttempts[j]
        /\ row[j].status = "queued" => row[j].attempts < MaxAttempts[j]

\* A job that succeeded or failed is never run or reported again.
TerminalFinal ==
    [][\A j \in Jobs : row[j].status \in Terminal => row'[j] = row[j]]_vars

\* With handlers that outlive their leases the budget can be exceeded, by
\* at most one attempt per other worker: each can hold one stale fail().
OverrunBounded ==
    \A j \in Jobs :
        row[j].attempts =< MaxAttempts[j] + Cardinality(Workers) - 1

\* Some worker polls for the job's kind and carries its tags.
Servable(j) == \E w \in Workers : Kind[j] \in WKinds[w] /\ Tags[j] \subseteq WTags[w]

\* M4 and M5: whatever crashes, whatever the other queued jobs require, a
\* job some worker can serve ends, and stays ended.
JobsSettle ==
    \A j \in Jobs : Servable(j) =>
        (row[j].status = "queued" ~> [](row[j].status \in Terminal))

\* The retry policy "manual" (image.flash): an attempt that failed, or was
\* lost with its worker, is never taken up again by itself.
ManualNotRequeued ==
    [][\A j \in Manual : row[j].status = "running" => row'[j].status # "queued"]_vars

\* The queue implements what it promises (checked without Overrun).
Lifecycle == INSTANCE JobLifecycle WITH
    st <- [j \in Jobs |-> row[j].status],
    tries <- [j \in Jobs |-> row[j].attempts]

ImplementsLifecycle == Lifecycle!Spec
=============================================================================
