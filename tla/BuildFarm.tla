----------------------------- MODULE BuildFarm -----------------------------
(***************************************************************************)
(* Builds from the API request to the stored artifacts: the API threads    *)
(* that create, cancel and delete builds (apps/api/routes/builds.py,       *)
(* osfabricum/orchestrator/build.py), the build.run jobs they enqueue, and *)
(* the pipeline runs the workers execute for those jobs                    *)
(* (osfabricum/pipeline/coordinator.py, pipeline/record.py).               *)
(*                                                                         *)
(* The queue is used at the level JobQueue describes in detail: claims are *)
(* numbered, a lease may end under a run (Overrun), and fail() decides on  *)
(* attempts it read earlier.  Every action is one database transaction, or *)
(* several that no one else can tell apart.                                *)
(***************************************************************************)
EXTENDS Naturals, FiniteSets

CONSTANTS
    Builds,       \* bound: builds that can be created
    NoBuild,      \* the NULL of producer_build_id
    NSteps,       \* recorded steps of the plan, e.g. kernel, rootfs, image
    MaxAttempts,  \* max_attempts of a build.run job
    MaxRuns,      \* bound: claims of one job
    NWorkers,     \* worker processes, each running one job at a time
    Overrun,      \* TRUE: a run may still be going when its lease ends
    ForeignKeys,  \* TRUE: the database enforces them (PostgreSQL)
    MaxOutages    \* bound: crashes of API requests and workers, refused updates

ASSUME FarmAssumption ==
    /\ NoBuild \notin Builds
    /\ NSteps \in Nat \ {0}
    /\ MaxAttempts \in Nat \ {0}
    /\ MaxRuns \in Nat /\ MaxRuns >= MaxAttempts
    /\ NWorkers \in Nat
    /\ Overrun \in BOOLEAN /\ ForeignKeys \in BOOLEAN
    /\ MaxOutages \in Nat

VARIABLES
    status,    \* status[b]: builds.status; "absent" before, "gone" after the row
    request,   \* builds whose build.request event is recorded
    maker,     \* maker[b]: where the API request that creates b is
    intent,    \* intent[b]: API requests that passed their status check
    job,       \* job[b]: job_tasks.status of b's build.run job
    tries,     \* tries[b]: its attempts
    run,       \* run[b][k]: where the run of attempt k is
    steps,     \* steps[b][k][i]: build_jobs.status of step i of attempt k
    completed, \* completed[b][k]: steps_completed of the run of attempt k
    producer,  \* producer_build_id of the artifacts these builds store
    outages

apiVars == <<request, maker, intent>>
jobVars == <<job, tries>>
stepVars == <<steps, completed>>
vars == <<status, apiVars, jobVars, run, stepVars, producer, outages>>

Runs == 1 .. MaxRuns
Steps == 1 .. NSteps

Terminal == {"success", "failed", "cancelled"}
Status == {"absent", "queued", "running", "gone"} \cup Terminal
StepStatus == {"none", "running", "success", "failed"}

\* Places of a run: about to record step i, inside step i, or elsewhere.
Before(i) == <<"before", i>>
Inside(i) == <<"inside", i>>
At(name) == <<name, 0>>

Working == {Before(i) : i \in Steps} \cup {Inside(i) : i \in Steps} \cup
           {At(name) : name \in {"resolve", "start", "fails", "succeeds", "link",
                                 "linkMute", "return", "returnMute", "raise"}}
Ended == {At(name) : name \in {"over", "mute", "raised", "crashed"}}

Live(b) == {k \in Runs : run[b][k] \in Working}

Exists(b) == status[b] \notin {"absent", "gone"}

Init ==
    /\ status = [b \in Builds |-> "absent"]
    /\ request = {}
    /\ maker = [b \in Builds |-> "idle"]
    /\ intent = [b \in Builds |-> {}]
    /\ job = [b \in Builds |-> "absent"]
    /\ tries = [b \in Builds |-> 0]
    /\ run = [b \in Builds |-> [k \in Runs |-> At("none")]]
    /\ steps = [b \in Builds |-> [k \in Runs |-> [i \in Steps |-> "none"]]]
    /\ completed = [b \in Builds |-> [k \in Runs |-> {}]]
    /\ producer = NoBuild
    /\ outages = 0

(***************************************************************************)
(* The API.                                                                *)
(***************************************************************************)
\* create_build: the plan resolved, the Build row is committed.
CreateRow(b) ==
    /\ maker[b] = "idle"
    /\ status' = [status EXCEPT ![b] = "queued"]
    /\ maker' = [maker EXCEPT ![b] = "row"]
    /\ UNCHANGED <<request, intent, jobVars, run, stepVars, producer, outages>>

\* rebuild: the same, from the build.request event of an earlier build.
Rebuild(b) == request # {} /\ CreateRow(b)

\* create_build: log_build_event "build.request" and "build.plan".  If the
\* row was deleted meanwhile, foreign keys make the request fail here.
LogRequest(b) ==
    /\ maker[b] = "row"
    /\ IF ForeignKeys /\ ~Exists(b)
       THEN maker' = [maker EXCEPT ![b] = "dead"] /\ UNCHANGED request
       ELSE /\ maker' = [maker EXCEPT ![b] = "logged"]
            /\ request' = request \cup {b}
    /\ UNCHANGED <<status, intent, jobVars, run, stepVars, producer, outages>>

\* create_build: the build.run job is enqueued.
EnqueueJob(b) ==
    /\ maker[b] = "logged"
    /\ maker' = [maker EXCEPT ![b] = "done"]
    /\ job' = [job EXCEPT ![b] = "queued"]
    /\ UNCHANGED <<status, request, intent, tries, run, stepVars, producer, outages>>

\* The API process dies between two transactions of create_build.
CreateDies(b) ==
    /\ maker[b] \in {"row", "logged"}
    /\ outages < MaxOutages
    /\ outages' = outages + 1
    /\ maker' = [maker EXCEPT ![b] = "dead"]
    /\ UNCHANGED <<status, request, intent, jobVars, run, stepVars, producer>>

\* cancel_build_api and delete_build_api (or the bulk delete) read the
\* status in a session of their own, ...
CheckCancel(b) ==
    /\ status[b] \in {"queued", "running"}
    /\ intent' = [intent EXCEPT ![b] = @ \cup {"cancel"}]
    /\ UNCHANGED <<status, request, maker, jobVars, run, stepVars, producer, outages>>

CheckDelete(b) ==
    /\ Exists(b)
    /\ status[b] \notin {"queued", "running"}
    /\ intent' = [intent EXCEPT ![b] = @ \cup {"delete"}]
    /\ UNCHANGED <<status, request, maker, jobVars, run, stepVars, producer, outages>>

\* ... and write in another one, whatever the status is by then.
Cancel(b) ==
    /\ "cancel" \in intent[b]
    /\ intent' = [intent EXCEPT ![b] = @ \ {"cancel"}]
    /\ status' = [status EXCEPT ![b] = IF Exists(b) THEN "cancelled" ELSE @]
    /\ UNCHANGED <<request, maker, jobVars, run, stepVars, producer, outages>>

\* _delete_builds: logs, events, build_jobs and the build in one transaction.
Delete(b) ==
    /\ "delete" \in intent[b]
    /\ intent' = [intent EXCEPT ![b] = @ \ {"delete"}]
    /\ status' = [status EXCEPT ![b] = "gone"]
    /\ request' = request \ {b}
    /\ steps' = [steps EXCEPT ![b] = [k \in Runs |-> [i \in Steps |-> "none"]]]
    /\ UNCHANGED <<maker, jobVars, run, completed, producer, outages>>

(***************************************************************************)
(* The queue, as BuildFarm sees it.                                        *)
(***************************************************************************)
\* A free worker claims the job; run_queued_build starts.
ClaimJob(b) ==
    /\ job[b] = "queued"
    /\ tries[b] < MaxRuns
    /\ Cardinality({r \in Builds \X Runs : r[2] \in Live(r[1])}) < NWorkers
    /\ job' = [job EXCEPT ![b] = "running"]
    /\ tries' = [tries EXCEPT ![b] = @ + 1]
    /\ run' = [run EXCEPT ![b][tries'[b]] = At("resolve")]
    /\ UNCHANGED <<status, apiVars, stepVars, producer, outages>>

\* Mutants: off by one; no limit.
AfterAttemptOnceMore(attempts) == IF attempts <= MaxAttempts THEN "queued" ELSE "failed"
AfterAttemptAlways(attempts) == "queued"

AfterAttempt(attempts) == IF attempts < MaxAttempts THEN "queued" ELSE "failed"

\* Another worker's lease sweep.
LeaseLost(b) ==
    /\ job[b] = "running"
    /\ Overrun \/ Live(b) = {}
    /\ job' = [job EXCEPT ![b] = AfterAttempt(tries[b])]
    /\ UNCHANGED <<status, apiVars, tries, run, stepVars, producer, outages>>

(***************************************************************************)
(* One run of the pipeline.  Go moves it, Write updates builds.status: the *)
(* ValueError for a deleted row is swallowed by every caller.              *)
(***************************************************************************)
Go(b, k, place) == run' = [run EXCEPT ![b][k] = place]

Write(b, s) == status' = [status EXCEPT ![b] = IF Exists(b) THEN s ELSE @]

\* resolve_override_ids raises out of the handler; resolve_plan's error ends
\* run_pipeline before it has touched the Build row.
Resolve(b, k) ==
    /\ run[b][k] = At("resolve")
    /\ \E place \in {"start", "returnMute", "raise"} : Go(b, k, At(place))
    /\ UNCHANGED <<status, apiVars, jobVars, stepVars, producer, outages>>

Start(b, k) ==
    /\ run[b][k] = At("start")
    /\ Write(b, "running")
    /\ Go(b, k, Before(1))
    /\ UNCHANGED <<apiVars, jobVars, stepVars, producer, outages>>

\* Mutant: the row is inserted without its foreign key.
BeginStepUnchecked(b, k, i) ==
    /\ run[b][k] = Before(i)
    /\ Go(b, k, Inside(i))
    /\ steps' = [steps EXCEPT ![b][k][i] = "running"]
    /\ UNCHANGED <<status, apiVars, jobVars, completed, producer, outages>>

\* _run_step: the BuildJob row; a foreign key error is caught like a failure.
BeginStep(b, k, i) ==
    /\ run[b][k] = Before(i)
    /\ IF ForeignKeys /\ ~Exists(b)
       THEN Go(b, k, At("fails")) /\ UNCHANGED steps
       ELSE Go(b, k, Inside(i)) /\ steps' = [steps EXCEPT ![b][k][i] = "running"]
    /\ UNCHANGED <<status, apiVars, jobVars, completed, producer, outages>>

\* Package builders, and the queries between steps, run outside any try.
EscapingError(b, k, i) ==
    /\ run[b][k] = Before(i)
    /\ Go(b, k, At("raise"))
    /\ UNCHANGED <<status, apiVars, jobVars, stepVars, producer, outages>>

\* The step function returns a successful result.
StepDone(b, k, i) ==
    /\ run[b][k] = Inside(i)
    /\ steps[b][k][i] = "running"
    /\ steps' = [steps EXCEPT ![b][k][i] = "success"]
    /\ completed' = [completed EXCEPT ![b][k] = @ \cup {i}]
    /\ Go(b, k, IF i = NSteps THEN At("succeeds") ELSE Before(i + 1))
    /\ UNCHANGED <<status, apiVars, jobVars, producer, outages>>

\* Mutant: _run_step records "success", and the result is not looked at.
StepFailsUnnoticed(b, k, i) ==
    /\ run[b][k] = Inside(i)
    /\ steps[b][k][i] = "running"
    /\ steps' = [steps EXCEPT ![b][k][i] = "success"]
    /\ Go(b, k, IF i = NSteps THEN At("succeeds") ELSE Before(i + 1))
    /\ UNCHANGED <<status, apiVars, jobVars, completed, producer, outages>>

\* It returns success = False, recorded as "success" all the same, or raises;
\* an event that cannot be logged before it starts leaves the row as it was.
StepFails(b, k, i) ==
    /\ run[b][k] = Inside(i)
    /\ steps[b][k][i] = "running"
    /\ \E recorded \in {"running", "success", "failed"} :
        steps' = [steps EXCEPT ![b][k][i] = recorded]
    /\ Go(b, k, At("fails"))
    /\ UNCHANGED <<status, apiVars, jobVars, completed, producer, outages>>

\* The BuildJob row was deleted with its build: update_build_job raises.
StepRowGone(b, k, i) ==
    /\ run[b][k] = Inside(i)
    /\ steps[b][k][i] = "none"
    /\ Go(b, k, At("fails"))
    /\ UNCHANGED <<status, apiVars, jobVars, stepVars, producer, outages>>

\* Mutants: the status is not written; the step's status is written.
FailsSilently(b, k) ==
    /\ run[b][k] = At("fails")
    /\ Go(b, k, At("return"))
    /\ UNCHANGED <<status, apiVars, jobVars, stepVars, producer, outages>>

FailsOddly(b, k) ==
    /\ run[b][k] = At("fails")
    /\ Write(b, "error")
    /\ Go(b, k, At("return"))
    /\ UNCHANGED <<apiVars, jobVars, stepVars, producer, outages>>

\* _fail: the build is marked failed, run_pipeline returns normally.
Fails(b, k) ==
    /\ run[b][k] = At("fails")
    /\ Write(b, "failed")
    /\ Go(b, k, At("return"))
    /\ UNCHANGED <<apiVars, jobVars, stepVars, producer, outages>>

\* update_build_status "success"; whatever comes of it, the artifacts are linked.
Succeeds(b, k) ==
    /\ run[b][k] = At("succeeds")
    /\ Write(b, "success")
    /\ Go(b, k, At("link"))
    /\ UNCHANGED <<apiVars, jobVars, stepVars, producer, outages>>

AfterLink(b, k) == At(IF run[b][k] = At("link") THEN "return" ELSE "returnMute")

\* Mutant: an error of the linking is not caught.
LinkEscapes(b, k) ==
    /\ run[b][k] \in {At("link"), At("linkMute")}
    /\ \/ producer' = b /\ Go(b, k, AfterLink(b, k))
       \/ UNCHANGED producer /\ Go(b, k, At("raise"))
    /\ UNCHANGED <<status, apiVars, jobVars, stepVars, outages>>

\* producer_build_id of the artifacts; the column is not a foreign key.
Link(b, k) ==
    /\ run[b][k] \in {At("link"), At("linkMute")}
    /\ producer' = b
    /\ Go(b, k, AfterLink(b, k))
    /\ UNCHANGED <<status, apiVars, jobVars, stepVars, outages>>

\* The database refuses an update of builds.status or of the artifacts: the
\* error is swallowed, and the run goes on.
WriteRefused(b, k) ==
    /\ outages < MaxOutages
    /\ outages' = outages + 1
    /\ \/ run[b][k] = At("start") /\ Go(b, k, Before(1))
       \/ run[b][k] = At("fails") /\ Go(b, k, At("returnMute"))
       \/ run[b][k] = At("succeeds") /\ Go(b, k, At("linkMute"))
       \/ run[b][k] \in {At("link"), At("linkMute")} /\ Go(b, k, AfterLink(b, k))
    /\ UNCHANGED <<status, apiVars, jobVars, stepVars, producer>>

\* The handler ignores the result: the job succeeds, whatever the build did.
Return(b, k) ==
    /\ run[b][k] \in {At("return"), At("returnMute")}
    /\ job' = [job EXCEPT ![b] = "success"]
    /\ Go(b, k, At(IF run[b][k] = At("return") THEN "over" ELSE "mute"))
    /\ UNCHANGED <<status, apiVars, tries, stepVars, producer, outages>>

\* The handler raises: _do_fail decides on the attempts it read since.
Raise(b, k) ==
    /\ run[b][k] = At("raise")
    /\ \E seen \in k .. tries[b] : job' = [job EXCEPT ![b] = AfterAttempt(seen)]
    /\ Go(b, k, At("raised"))
    /\ UNCHANGED <<status, apiVars, tries, stepVars, producer, outages>>

\* The worker process dies.
CrashRun(b, k) ==
    /\ run[b][k] \in Working
    /\ outages < MaxOutages
    /\ outages' = outages + 1
    /\ Go(b, k, At("crashed"))
    /\ UNCHANGED <<status, apiVars, jobVars, stepVars, producer>>

RunStep(b, k) ==
    \/ Resolve(b, k) \/ Start(b, k)
    \/ \E i \in Steps : \/ BeginStep(b, k, i) \/ EscapingError(b, k, i)
                        \/ StepDone(b, k, i) \/ StepFails(b, k, i)
                        \/ StepRowGone(b, k, i)
    \/ Fails(b, k) \/ Succeeds(b, k) \/ Link(b, k)
    \/ Return(b, k) \/ Raise(b, k)

MakerStep(b) == LogRequest(b) \/ EnqueueJob(b)

Request(b) == CreateRow(b) \/ Rebuild(b) \/ CheckCancel(b) \/ CheckDelete(b)

Next ==
    \/ \E b \in Builds : \/ Request(b) \/ MakerStep(b) \/ CreateDies(b)
                         \/ Cancel(b) \/ Delete(b)
                         \/ ClaimJob(b) \/ LeaseLost(b)
    \/ \E b \in Builds, k \in Runs : \/ RunStep(b, k)
                                  \/ WriteRefused(b, k) \/ CrashRun(b, k)

Spec == Init /\ [][Next]_vars

\* Requests that were accepted are carried out, workers take jobs and run
\* them, leases end.  Nobody has to create, cancel or delete a build.
Fairness ==
    /\ \A b \in Builds : /\ WF_vars(MakerStep(b))
                         /\ WF_vars(ClaimJob(b))
                         /\ WF_vars(LeaseLost(b))
    /\ \A b \in Builds, k \in Runs : WF_vars(RunStep(b, k))

FairSpec == Spec /\ Fairness

(***************************************************************************)
(* Properties.                                                             *)
(***************************************************************************)
TypeOK ==
    /\ status \in [Builds -> Status]
    /\ request \subseteq Builds
    /\ maker \in [Builds -> {"idle", "row", "logged", "done", "dead"}]
    /\ intent \in [Builds -> SUBSET {"cancel", "delete"}]
    /\ job \in [Builds -> {"absent", "queued", "running", "success", "failed"}]
    /\ tries \in [Builds -> 0 .. MaxRuns]
    /\ run \in [Builds -> [Runs -> {At("none")} \cup Working \cup Ended]]
    /\ steps \in [Builds -> [Runs -> [Steps -> StepStatus]]]
    /\ completed \in [Builds -> [Runs -> SUBSET Steps]]
    /\ producer \in Builds \cup {NoBuild}
    /\ outages \in 0 .. MaxOutages

\* One run of the build found every step's result successful, and recorded so.
Earned(b) == \E k \in Runs :
    completed[b][k] = Steps /\ \A i \in Steps : steps[b][k][i] = "success"

\* "success" is only ever reported of a build every step of which succeeded in
\* one run, whatever other runs of it, cancellations or sweeps do meanwhile, and
\* although a step that failed may be recorded as successful; and the artifacts
\* only name such a build (or one deleted since) as their producer, even if
\* the database refused the status.
SuccessIsEarned ==
    /\ \A b \in Builds : status[b] = "success" => Earned(b)
    /\ producer # NoBuild /\ Exists(producer) => Earned(producer)

\* With foreign keys a deleted build leaves no build_jobs rows behind, not
\* even those a run that still goes on would add.
NoOrphanSteps ==
    \A b \in Builds : status[b] = "gone" =>
        \A k \in Runs, i \in Steps : steps[b][k][i] = "none"

\* Steps are recorded in order, one at a time, in every run, and none is begun
\* before the result of the one before was found successful.
StepsInOrder ==
    \A b \in Builds, k \in Runs, i \in Steps :
        i > 1 /\ steps[b][k][i] # "none" =>
            steps[b][k][i - 1] = "success" /\ i - 1 \in completed[b][k]

\* The queue is done with the build and no worker runs it.
Idle(b) == job[b] \in {"success", "failed"} /\ Live(b) = {}

\* A run ended without a word in builds.status, or was refused it.
Mute(b) == \E k \in Runs : run[b][k][1] \in {"mute", "raised", "crashed"}

\* Once the queue is done with a build, its status is decided, unless a run
\* ended mute: the plan did not resolve, an error escaped, the database
\* refused the update, or the worker crashed.
IdleIsDecided ==
    \A b \in Builds : Idle(b) => status[b] \in Terminal \cup {"gone"} \/ Mute(b)

\* A worker crashed in a run that had nothing left to build.
CrashedLate(b) == \E k \in Runs :
    run[b][k] = At("crashed") /\ completed[b][k] = Steps

\* Within leases a build that is reported successful is not run again: the
\* status only changes by an API request that passed its check before, or
\* because the worker crashed before it could report to the queue.
SuccessStands ==
    [][\A b \in Builds :
          status[b] = "success" /\ status'[b] # "success"
            => intent[b] # {} \/ CrashedLate(b)]_vars

\* A build the API accepted is worked off: in the end its job is done and
\* no run of it goes on.
BuildsIdle == \A b \in Builds : job[b] = "queued" ~> []Idle(b)

\* The job of a build goes through the queue's life cycle (without Overrun).
Lifecycle == INSTANCE JobLifecycle WITH
    Jobs <- Builds, MaxAttempts <- [b \in Builds |-> MaxAttempts],
    st <- job, tries <- tries

ImplementsLifecycle == Lifecycle!Spec

\* run_pipeline "Updates the Build.status to success or failed": a queued
\* build reaches a terminal status (or is deleted).
BuildsEnd == \A b \in Builds :
    job[b] = "queued" ~> status[b] \in Terminal \cup {"gone"}
=============================================================================
