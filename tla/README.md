# OSFabricum in TLA+

Specifications of OSFabricum, a build farm for operating system images: its job
queue, the builds the queue executes, the artifact store the builds fill, and the
database everything is written in, with its migrations, the forty-two designs
users edit, and the catalogue that is seeded into it. TLC checks small instances;
TLAPS proves the safety properties of the queue, the builds, the store, the designs,
the migrations and the catalogue for all values of the constants.

Contents: [the system](#the-system), [the modules](#the-modules),
[runs](#runs), [exemptions](#exemptions), [fairness](#fairness), [proofs](#proofs),
[where code and documents disagree](#where-code-and-documents-disagree),
[what is not modelled](#what-is-not-modelled), [what could follow](#what-could-follow).

## The system

One database (PostgreSQL or SQLite), one store directory, and three kinds of
process share no memory and take no locks:

| part | code | state it keeps | operations | talks to |
|---|---|---|---|---|
| HTTP API | `apps/api` | none of its own | create, rebuild, cancel, delete builds; edit designs; event stream | database |
| command line | `apps/cli` | none | the same, and `store gc`, `store pin` | database, store |
| workers | `apps/worker`, `osfabricum/queue/worker.py` | the job in hand | poll: expire leases, claim, run the handler, complete or fail | `job_tasks`, handlers |
| job queue | `osfabricum/queue/backend.py` | `job_tasks`: status, attempts, version, lease | enqueue, claim, complete, fail, expire | called by the API and workers |
| orchestrator | `osfabricum/orchestrator` | `builds`, `build_events`, drafts | create_build, rebuild, drafts, plan checks | resolver, queue |
| pipeline | `osfabricum/pipeline` | `builds.status`, `build_jobs`, `build_logs` | run_pipeline and its steps | toolchain, kernel, packaging, rootfs, image, store |
| store | `osfabricum/store` | `artifacts` rows, blob files, ref links | ingest, pin, gc, verify | every producer of files |
| resolver | `osfabricum/resolver`, `osfabricum/repro` | cached artifact ids, hashes | resolve_plan | catalogues, store |
| fetchers | `osfabricum/fetcher`, `toolchain`, `firmware` | download cache, extracted toolchains | fetch, extract | store |
| designers, lockfile, generations, pools, ... | `osfabricum/*/service.py` (42 designs) | a root row, sections of rows, rendered texts, content hash | create, add, change, delete, invalidate, render | database |
| catalogues | `osfabricum/{distribution,profile}/service.py` | distributions, profiles, who inherits from whom | create, clone, import, delete, version | resolver, builds |
| schema | `osfabricum/db/models.py`, `migrations/versions` (55 revisions) | tables, columns, foreign keys, the stamped revision | `alembic upgrade`, `downgrade` | database |
| seeds | `osfabricum/db/seed_data.py`, `catalog/seed`, `apps/cli/commands/{catalog,board}.py` | catalogue rows, enumerations | revisions 0045 to 0052, seed and import commands | database, YAML files |
| worker registry | `apps/api/routes/workers_api.py` | `workers`: pid, last_seen_at | spawn, stop, heartbeat | workers |

What is hard about it:

* **Interleaving.** Every database operation is a SELECT followed by an UPDATE.
  Only claims and lease sweeps compare the version in between; `fail()`, cancel,
  delete and gc write on the strength of what they read some time ago.
* **Time.** A lease lasts 60 s, a build much longer, and nothing renews a lease.
  A job may therefore be executed twice at once, and a late `fail()` may hit a
  row that is somebody else's by then.
* **Crashes and partial failure.** create_build is four transactions, a pipeline
  run dozens, gc mixes unlinks with a transaction that may roll back, and many
  errors are swallowed.
* **Sharing.** Blobs are shared by content and collected by reference count while
  other threads deduplicate against them.
* **Texts and what they show.** A design's texts are stored beside the rows they
  were rendered from. Every service decides for itself which change clears which
  text, and a render reads one section at a time while others commit.
* **A schema that is told twice.** The models describe today's tables, the
  revisions how they came about, and the first revision creates all of today's
  tables: every later one has to look before it acts.
* **Seeding what users own.** Seeds run again on databases users have changed,
  and imports replace rows others refer to.

`PROJECT.json` lists each such hazard at its line, with the properties that
would show it going wrong or the reason why none does yet.

What makes the parts correct, in short: a job runs on one worker at a time,
at most `max_attempts` times, to one final result, and every job some worker can
serve gets there; a build's status says what its runs did and is decided when
nothing works on it any more; the file of every artifact row is there and whole,
collected files are nobody's, and pinned or protected artifacts stay; a text that
counts as good shows the rows as they are, a key has one row, rows have owners;
the schema is the one its stamp stands for; a seed adds what is missing, once, and
what it seeds can be built. Each with the exceptions the code makes, which are listed
under [exemptions](#exemptions): a hazard counts as covered only where no exemption
hides it.

## The modules

```
 JobLifecycle        what the queue promises          (abstract)
   ^         ^
   | refines | refines
 JobQueue   BuildFarm                    ArtifactStore
   |          |  \_ uses the queue at        |
   |          |     the level of JobQueue    |
   |        BuildFarmProofs                ArtifactStoreProofs
 JobQueueProofs <- JobQueueOverrunProofs
 MCJobQueue, MCArtifactStore             constants for TLC

 Schema   SeedData   Maps                RenderedDesign      Catalogue -> Maps
    \      /        /                       |     \              ^
    Revisions   Migrations                  |   RenderedDesignProofs
         \       /  \    Designers <- DesignRecords           Seeds
          \     /  MigrationsProofs        |                  /   \
        MCMigrations            \          |                 /  SeedsProofs
                \________________ MCDatabase _______________/      ^
                                                              SeedsPlansProofs
```

**JobLifecycle** is the promise: a job is submitted, started, retried, finished;
only a start uses an attempt. A step is any set of job moves, because the lease
sweep requeues several rows in one transaction.

**JobQueue** is the queue and its workers, statement by statement.

| module | code |
|---|---|
| `row[j]` (status, attempts, version, leased_by) | a row of `job_tasks` |
| `lapsed` | running rows whose `lease_until` lies in the past |
| `pc[w]`, `snap[w]` | the statement a worker is at, the rows its last SELECT returned |
| `view[w]` | the `JobView` handed to the handler |
| `ExpireSelect`, `ExpireWrite` | `_do_expire_leases` |
| `ClaimSelect`, `ClaimWrite`, `ClaimLost`, `NothingToClaim` | `_do_claim_next` |
| `HandlerEnds`, `Complete`, `CompleteRaises` | the handler, `_do_complete` |
| `FailSelect`, `FailWrite` | `_do_fail` |
| `Enqueue`, `LeaseEnds`, `Crash`, `Stop`, `Restart` | the API, the clock, process deaths, SIGTERM, the container's loop |

Between SELECT and UPDATE anything may happen: the code runs at READ COMMITTED.
The updates of a transaction appear together at its commit. `JobBackend` contains
the same statements a second time, for callers without a `WorkerLoop`; the model
stands for both, and `map` names both.

**BuildFarm** is a build from the API request to the linked artifacts. The queue
appears as `job`/`tries` with its claims, its lease sweep (`LeaseLost`) and the
late `fail()` (`Raise` decides on an attempt number read earlier). Runs of
one build are numbered by attempt, so that overlapping ones keep apart. `status`
is `builds.status` ("gone" once the row is deleted), `steps` the `build_jobs`
rows, `completed` the steps that returned a successful result (a step that returns
a failure is recorded as a success before the pipeline looks at it), `intent` the API
requests between their check and their write, `maker` the
request that creates the build, `producer` the `producer_build_id` of the
artifacts the builds share. The recorded steps are abstract (`1..NSteps`): a step
succeeds, returns a failure, raises, or finds its row deleted; between steps an
error may escape the pipeline. An update of `builds.status` the database refuses is
swallowed and the run goes on (`WriteRefused`): after a refused "success" it still
links the artifacts (`linkMute`).

**ArtifactStore** is `ingest_blob`, `collect_garbage`, pinning and ageing, one
file operation or transaction per action. A blob file is absent, torn or whole;
a writer whose file is unlinked writes to an inode without a name. gc keeps the
rows it read (`due`), counts references with its own deletions unflushed,
unlinks, commits, and then walks the directory with the references it read once.
Foreign keys may reject its commit after the files are gone. `late` are the artifacts
whose pin committed after a running collection had read the rows. `Exclusive` keeps gc
and pinning away from running ingests; without it everything interleaves.

**Schema** is `models.py`: every table with its plain columns and, for a column with
a foreign key, the table it refers to. **SeedData** is the enumerations the
revisions fill, **Revisions** the 55 revisions: the statements of `upgrade()` and
`downgrade()` in order, each with the guard the code evaluates (a table that is
there, a column that is missing or present, `try ... except: pass`). **Migrations**
runs them: a database that stands at some release (`Release`, computed backwards from
the models) is taken to each goal of an agenda, one statement at a time. It was
installed from nothing at that release or an earlier one, when 0001 made all the
tables the models had by then; a revision that looks for its table and finds it there
leaves it empty. Or the command itself installs it, and 0001 makes today's tables.

| Migrations | code |
|---|---|
| `db`, `filled`, `version` | the tables, the filled enumerations, `alembic_version`, as the running command sees them |
| `bare` | tables 0001 made and nothing has dropped since: a guarded revision has not filled them |
| `early` | revisions to come whose tables 0001 has made |
| `base` | what is committed: PostgreSQL's transaction covers the whole command; SQLite commits DDL at once unless the revision has written rows |
| `due` | the statements of the revision whose guards hold, evaluated when it starts |
| `Start`, `Enter`, `Execute`, `Stamp`, `Finish` | `run_migrations_online`, `upgrade()` / `downgrade()` |
| `Refuse`, `RefuseStamp`, `aborted` | a statement the database refuses; inside `try` PostgreSQL's transaction is dead but the code goes on |
| `Crash` | the process dies, the transaction rolls back |
| `FallBack` | after either the command may be repeated or given up for the next one |

What one must know of the revisions is in `ChainAssumption`, and TLC evaluates it on
the 55 there are: `UpBuilds` (an upgrade only adds, and skips a statement on its own
only if its work is done), `CreatesWhatModelsSay` (a created table is the models' less
what later revisions add), `ChangesAreNew`, `GuardsSpeakForOne` (a look at one table
decides about others only if the same revision makes that table and nobody else
touches it), `DownUndoes`, `CreatedInOrder` and `DroppedInOrder` (a table comes after
those it refers to, and goes before them), `FillsForGood` (no downgrade takes away for
good what a revision fills, or it is filled again), `ReleaseResolves`. Where a revision
breaks such a rule, `OneWay` or `Rebuilt` names the tables in question.
`PlansAssumption` says a database was installed no later than at its release.

**Designers** and **DesignRecords** hold the 42 designs as data: for each service its
columns with the sections they show, the sections with a unique key, the sections
whose owner is not the root, and each request with the rows it looks up, the
sections a render reads in their order, and the columns it clears (through the
loaded row, or by an UPDATE of its own) or writes. **RenderedDesign** is the machine
that runs one of them with several sessions at once.

| RenderedDesign | code |
|---|---|
| `session[s]` | a request: the columns its root row had when it was loaded, what it has read of each section (`seen`), which of that was changed since (`stale`), which columns it is about to write another has written since (`foreign`) |
| `rows`, `edits`, `cell` | rows under the contested key of a section, its changes so far, what a column was rendered from |
| `Load`, `Read` | look-ups and the queries of a render, one at a time |
| `CommitEdit`, `CommitRender` | assignments and `commit()`; a column set to the value it was loaded with is not in the UPDATE (`Written`) |
| `Taken` | a unique constraint, which does not tell two NULLs apart from two different values |
| `Forget` | the initramfs service, which flushes, answers and closes |
| `Fail` | an error path that commits the rows it logs (a failed publish job) |
| `Abort` | a violated constraint, an exception, a lost connection |

What the services leave open is written down as data too, so that the properties
hold for all the rest: `Silent` (changes that clear no text), `Doubled` (look-ups
with no constraint behind them), `MayBeShared` (keys with a NULL in them),
`Orphaned` (owners that are not looked up), `Lost` (answers without a commit).
`mixed` marks the columns that lost a race: the code compares no versions, so a section
may be changed between a render's query of it and its commit, and a column another
request has written since the row was loaded stays as that one wrote it when for this
request the value is not new. Such a column does not count as good until a render that
is not disturbed has written it. Requests that overlap without losing one leave no mark.

**Catalogue** gives the requests on distributions and profiles, and what the
resolver makes of them; a row is its references. Deleted rows leave their ids behind
and no id is given twice, as with the code's UUIDs. **Seeds** holds the files of
`catalog/seed` and the reference distributions (a `Document` each: profiles, packages,
board, kernel and toolchain), what each seeding function does with the rows it finds,
and the machine: revisions that are due, commands, requests and builds in any order.
A seed or a command is one transaction and one step. A user's request is two: it looks
up (`AskDistribution`, `AskProfile`, `AskBuild`; `open` holds what it found) and commits
later (`CommitInsert`, `CommitUpdate`, `CommitDelete`, `CommitClone`, `CommitImport`),
with anything in between; unique names and rows that have gone may refuse it
(`DropRequest`). So a child may be created between the look-up that finds none and the
deletion, and a build be recorded of a distribution that is being deleted. The queries
of one request's look-up are one step. The database is SQLite, on which the foreign keys
are not enforced and a session takes the write lock with its first statement that
writes; on PostgreSQL the foreign keys refuse what would dangle.

`StartsAssumption` says what a starting database must be: its references are there and
of the same distribution, names of distributions are unique and nothing was deleted yet
(`Sound`), the ids of distributions and profiles are numbered, and what is due are
seeding revisions. `ShippedAssumption` adds what only the plans need, where the files
come with the package: a row that has the name of one of the files' boards, toolchains
or kernels, or the id of a package's row, is what the seeds would have made it
(`RowFits`), and so is a profile no user made (`ProfileFits`). Such a database may have
been seeded before; a user's own boards, distributions, packages and profiles may be
there, under other names. A profile is `touched` if a user had made or changed it before
the start (`own`), or a request has since. **Maps** defines `:>` and `@@` over again,
because the prover has no definitions of the module TLC to expand; a seed writes all its
rows in one map, without folds, for the same reason.

**MCDatabase** puts the three machines of the database side by side. They share no
state and a behaviour is one of the machine it starts, while the other two rest.

Definitions marked "Mutant" or "A likely bug" are plausible errors, one per checked
property; they are used by no specification, only substituted to see that TLC
notices.

## Runs

| run | question | bounds | states |
|---|---|---|---|
| QueueLease | the queue's promise when handlers keep their leases | 2 workers, 3 jobs, 2 outages | 14 000 |
| QueueOverrun | what remains when they do not | 2 workers, 3 jobs, 1 outage | 47 000 |
| QueueManual | does the sweep honour retry_policy "manual"? (no) | as QueueLease | |
| BuildLease | API races and failures around two builds on two workers | 2 builds, 1 step, 2 attempts, 1 outage | 1 130 000 |
| BuildOverrun | overlapping runs of one build, a crash or refused update | 1 build, 2 steps, 3 claims, 2 workers | 197 000 |
| BuildStuck | does every queued build reach an end? (no) | 1 build | |
| StoreGc | rows and files under shared blobs and failing collections | 2 keys, 2 blobs, 2 writers, symmetric | 1 220 000 |
| StoreConcurrent | what survives without any exclusion | 2 keys, 1 blob, 2 writers, symmetric | 2 310 000 |
| StorePartial | is a partial write kept out? (no) | 2 keys, 2 blobs, 1 writer | |
| StoreGcRace | does gc spare referenced blobs? (no) | 2 keys, 2 blobs, 1 writer | |
| Database | schema, designs and catalogue under everything that happens to a database | see below | 132 000 |
| FreshUpgrade | does `upgrade head` run on an empty database? (no) | 1 command | |

Why the bounds suffice. In QueueLease job 1 needs a tag nobody has and stands
first, job 2 can run on both workers with two attempts, job 3 on one only and has
no handler: two workers racing for one row, head-of-line blocking, exhausted
attempts and the manual policy all occur. Races in this code are between two
parties and one row, so a third worker adds repetitions. `MaxOutages` bounds
crashes and shutdowns (all liveness is "once they stop"). In BuildOverrun two
attempts plus one overrun claim give two live runs and a late `fail()`; two steps
are needed for an order of steps. In the store one key and blob more than a race
needs are there so that content is shared, replaced and orphaned; StoreConcurrent
uses one content because `RowsWhole` is about writers of the same file.

Database. *Schema*: `MCPlans` takes databases of seven releases up and down, on SQLite
and PostgreSQL, installed from nothing at the first release, at one in between or at
their own, and installs two today. On SQLite a plan is refused at 0049, given up, and
goes down and up again; on PostgreSQL another goes to 0048 and on to the refusal.
Between them the plans upgrade through every revision and downgrade through those from
0006 on but 0045; `MaxRuns = 4` leaves room for refused, repeated and abandoned
commands. From 0032 up to 0036, down to 0033 and up again, where one guard stands for
several tables, the process may also crash at every statement. *Designs*: each of the 42
designs, two sessions, three requests: an edit and a render that overlap, and one more
before or after them. Two sessions suffice because a session only distinguishes between
being overtaken in what it has read or is to write and not, and what further requests
could add is proved (see below). *Catalogue*: four starts. A database installed from
nothing has 0045 to 0047 to run, with the catalogue's files beside the package or
without, and gets no further (FreshUpgrade). One upgraded since those revisions were new
has what they made, a user's board of another architecture, a distribution and a profile
under the names of reference ones, and has 0050 to 0052 to come. And a user's
distribution with a profile that inherits from another meets three requests that overlap
as they like; the others take one request or command at any moment. There are two names
of each kind so that names clash.

Besides its properties the run evaluates the assumptions of RenderedDesign on
`Designs_`, each a question asked of every service's every request:
`ChangesClear` (does a change clear what shows it, the hash of it, or stand in
`Silent`), `RendersWhole` (does a render read all its texts show, and write text and
hash together), `KeysBacked`, `OwnersAsked`, `NothingForgotten` (does every request
commit, but for those of `Lost`). TLC audits the
services with them, one request at a time; the theorems carry the result over to
any number of overlapping requests.

Properties worth reading first: `SnapshotsCoherent` (the optimistic lock), `LeaseHeld`
against `OverrunBounded` (what is lost when handlers are late: the budget may be
exceeded by one attempt for each other worker, no more), `SuccessIsEarned` and
`SuccessStands`, `IdleIsDecided` with its list of exceptions (`Mute`), `ParentsAreOwn`,
and `SweepComplete`, which holds although references are counted before deletions are
flushed, because the sweep after the commit cleans up.

## Exemptions

Where the code does what nobody would want, the models do it too, and a property says
what holds besides. What each leaves out:

| exemption | in | exempts | what is still checked |
|---|---|---|---|
| `Overrun = FALSE` | `LeaseHeld`, `WithinBudget`, `TerminalFinal`, `SuccessStands`, `ImplementsLifecycle` | handlers that outlive their lease, late `fail()` | `QueueOverrun` and `BuildOverrun` run with them |
| `Mute` | `IdleIsDecided` | builds a run of which ended without a word: no plan, escaped error, refused update, crash | every other way a run can end; `BuildsIdle` includes them |
| `intent` | `SuccessStands` | the API's unconditional write after its check | that nothing but such a request, or a crash after the last step, takes a success back |
| `broken` | `RowsPresent`, `RowsWhole` | what an interrupted or rejected gc, or ingest, leaves behind | `SweepComplete` does not exempt it; StorePartial shows it |
| `late` | `PinnedKept` | a pin that commits while a collection is under way | every pin the collection could read, with ingests and unpins overlapping |
| `Exclusive` | `RowsPresent`, `SweepComplete` | ingests during a collection | StoreGcRace shows what happens then; StoreConcurrent does without |
| `OneWay`, `Skipped` | the three of Migrations | tables a later downgrade takes away or does not give back; tables of a revision SQLite kept half done, or whose work 0001 has done | all other tables, and that the damage does not spread |
| `bare` with `Guarded` | `EnumerationsFilled` | tables 0001 made, as long as nobody dropped them, where the revision looks for its table | enumerations filled without a look, and all that were dropped and made again |
| `mixed` | `CertifiedIsCurrent`, `HashMatchesTexts` | columns that lost a race | requests that overlap without losing one, and that one undisturbed render repairs a column |
| `Silent` | `CertifiedIsCurrent` | changes the service clears nothing for | every other change, and the hash against its texts |
| `Doubled`, `MayBeShared`, `Orphaned`, `Lost` | `OneRowPerKey`, `RowsOwned`, `NothingForgotten` | look-ups without a constraint, NULL keys, owners not asked for, answers without a commit | all other keys, sections and requests |
| parents that are gone | `ParentsAreOwn` | dangling parents that imports, and deletions that race with insertions, leave | that none ever resolves to a profile of another distribution |
| `Reset` | `SeedsOnlyAdd` | four columns of a reference profile, which a seed writes over the user's choice | all other rows and columns |
| `touched`, Ocultum, profiles with a parent | `PlansComplete` | profiles users made or changed; the one reference distribution whose profiles fail | the other three reference distributions |

## Fairness

* `LoopStep(w)`, `Restart(w)`: a worker process keeps looping, and the shell loop
  of the Dockerfile restarts it. Weak fairness on the whole loop, not on single
  outcomes: which statement comes next, whether a handler succeeds, and whether a
  claim is lost stay open. `JobsSettle` also needs each claim race to end, which
  it does because jobs are finite.
* `LeaseEnds(j)`: the clock reaches `lease_until`.
* In BuildFarm: `MakerStep` (an accepted request is carried out), `ClaimJob`,
  `LeaseLost` and `RunStep`, which JobQueue's liveness justifies for workers that
  carry the build's tags.
* Nothing obliges anyone to enqueue, cancel, delete or crash; crashes are
  bounded by `MaxOutages`. ArtifactStore has no liveness property: neither ingest nor
  gc is ever retried by the code. Nor do the machines of the database: nobody has to
  finish a command, repeat a refused one, or render.

The Build, Store, Database and FreshUpgrade configurations turn deadlock checking
off: when every build is at rest, gc and the writers have been interrupted, or the
agenda and the requests are done, the system may stop.

## Proofs

Every theorem holds for all values of the constants that satisfy the module's
assumptions (`QueueAssumption`, `FarmAssumption`, `StoreAssumption`, the seven of
RenderedDesign, `ChainAssumption`, `PlansAssumption`, `StartsAssumption`,
`ShippedAssumption`; TLC evaluates them in every run of the module). What a theorem
assumes beyond them is in its statement.

`JobQueueProofs`, `JobQueueOverrunProofs`:

* `TypeCorrect`, `OptimisticLock`, `AttemptsExclusive`. The inductive invariant
  `LockInv` adds to the type invariant that a snapshot with the row's version is the
  row, and that a busy worker's attempt is at most the row's: a claim raises both
  version and attempts, hence takes an attempt number no one has. It needs nothing
  about leases, so it holds with `Overrun` too.
* `OneRunner`, `AttemptBudget`, `ResultsFinal` need `~Overrun`. The invariant `LeaseInv`
  says a busy worker's row is running, leased by it and not lapsed, and that what
  `fail()` read is still the row. `LeaseEnds` cannot touch an active row, and every
  other write is guarded by a version (`OptimisticLock` is cited here).
* `QueueRefinesLifecycle`: every step of JobQueue is a step of JobLifecycle or leaves
  it unchanged, under the mapping status and attempts of the rows.

* `OverrunLimited`, for finitely many workers. `Stale(j)` are the workers that have
  decided to requeue j and not written yet; `Within(j)` bounds the attempts taken, plus
  one if the row can still be claimed (`Room`), plus the stale workers. A worker only
  becomes stale on a row with an attempt left, where the bound holds whoever is late
  (`BudgetLeft`); a stale write trades its worker for a queued row, and a claim the
  queued row for an attempt, its worker not being stale. That last point is why the
  excess is one less than the number of workers.

`BuildFarmProofs`:

* `FarmTypes`; then `FarmShape`, which ties the request, the job and the runs together:
  a build comes into being once, its job only after it, and a claim starts a run that
  never ran. Nothing of this depends on leases.
* `EarnedSuccess`. `FarmProgress` reads off a run's place which results it has seen, and,
  as long as the build exists, what it has recorded; a place is only reached past a
  successful result, whatever the row of the step says. A run that links has completed
  every step, also after a refused update (`Linking`). A run that has completed every
  step is never touched again (`Settled`, `SettledStays`)
  unless the build is deleted, and then neither status nor producer counts.
* `OrphansGone`, `StepsOrdered` need `ForeignKeys`: without them a run that goes on after
  a deletion adds rows, and step 2 would stand alone. The second cites the first: a
  run inside a recorded step knows its build is not gone.
* `IdleDecided`: of a claimed build, the status is decided, or a run is still to write
  it (`Undecided`), or one ended mute. A run leaves `Undecided` only by writing or mute.
* `FarmRefinesLifecycle` needs `~Overrun`: then only the attempt the job counts runs,
  so the attempt number `fail()` read is the row's.
* `SuccessStays` needs `~Overrun` as well. `Reported`: of a build that is reported
  successful the job has succeeded, or its only run links or returns, or it crashed
  there. So the queue has no attempt to give out, and no step of a run writes a status.
  An error that escaped from the linking would break this: the job would be retried.

`ArtifactStoreProofs`:

* `StoreTypes`, with `GcShape`: which of gc's notes are empty at which place.
* `BlobsWhole`, `ProtectedStay` hold whatever overlaps. A torn file has a writer at it
  or an interrupted ingest behind it (`TornExplained`); what gc is about to delete was
  not protected when it read it, and the class of an artifact does not change.
* `PinnedStay` assumes no exclusion either: what gc is about to delete was not pinned
  when it read the rows, or its pin is `late` (`DoomedUnpinned`).
* `BlobsPresent` needs `Exclusive`. `PresentInv` says that
  what gc remembers is still so, and that every artifact it is not deleting has its
  file. A reference count of at most one leaves only the artifact itself (`CountOne`),
  hence the unlinked file was no one else's; the sweep removes what nobody refers to.
* `SweepLeavesNoOrphan` needs `Exclusive` as well. `SweptInv`: what the sweep takes for
  referenced is, and what it has passed is gone or referenced; no row changes its
  blob and no file appears meanwhile (`QuietSweep`). It does not need `BlobsPresent`: an
  orphan of an earlier, rejected run goes as well.

`RenderedDesignProofs`, for any designs that meet the assumptions, any number of
sessions and requests:

* `DesignTypes`: `TypeInv` ties a session to its design; `Reads` says that a section a
  render needs has been read or is still to be, so what is written is whole.
* `OneRow`: the constraint behind a look-up.
* `Owned`: `OwnedInv` adds that a request on its way still finds the rows its look-up
  found; nothing a section hangs from is ever deleted (`OwnersAsked`).
* `Texts`, `Hashes`. `Fresh`: a session holds the columns and the changes that are
  committed, but for those it knows nothing of (`foreign`, `stale`). `TextsInv` is by
  column: a text that clears itself (every change of what it shows clears text and hash,
  `SelfClearing`) is current whenever it is there, and then so is what the hash says of
  its sections; any other text only together with its hash. This is needed because
  services mix both ways: a render of one text rewrites the hash of a design whose other
  texts it leaves. A commit marks `mixed` exactly the columns that lost a race, and for
  all others it has to be shown that they are as good as if it had been alone.

`MigrationsProofs`, for any chain of revisions that meets `ChainAssumption`, any
number of commands, refusals and crashes, on both databases:

* `SchemaMatches`, `KeysResolve`, `RowsAreThere` are about databases that stand at a
  release (`Installed`), whenever they were made, and are taken to any goals but 0. The
  invariant `SchemaInv` has two parts that hold between revisions, of the running
  command (`db`) and of what is committed (`base`): a table has at least the columns it
  cannot lack at this version and at most those it may have (`Least`, `Most`: what a
  later revision adds and its downgrade leaves, stays), and its references are there.
  This is more than the properties say and needed because a table that is exempt now may
  be asked for later, after a downgrade. For the rows, `SettledBase` takes the `bare`
  tables for filled where a guard stands before them: such a table becomes one like any
  other once it is dropped.
* While a revision runs, `OutsideInv` says that what it does not touch is as before;
  `UpInv` that what a table still lacks, or has too much, is done by a statement that is
  still due; `DownInv` that every table and column to be dropped is gone or still due to
  go. `ResolveInv` is what `CreatedInOrder` and `DroppedInOrder` keep at each statement:
  nothing refers to a table that is not there. A guard that speaks for several tables is
  why `Due` has to be looked at when the revision starts: `GuardsSpeakForOne` says that
  then either all its tables are there or none, unless the revision broke off before.
* When a statement is refused, or the process dies, PostgreSQL falls back to the last
  revision, and `BaseInv` is what is known of it; SQLite keeps a half-done revision,
  whose tables are exempt from then on (`Skipped`).

`SeedsProofs`, for any sound starting databases, the seeding revisions in any order and
number, and any commands, requests and builds in between:

* `RevisionsOnlyAdd`: every seed makes a database that `Grows`: rows and columns are kept
  but for the class of a distribution without one and the columns of `Reset`, an added
  profile has its distribution and no parent, no build is added, the ids stay numbered.
  `Grows` is transitive, so one lemma for each seeding function suffices.
* `FamiliesApart`: `CatalogueInv` has a part about the database (`Orderly`: ids are
  numbered, deleted ones are remembered, and a profile's distribution and parent, while
  both are there, belong together) and one about every open request (`Well`: what it has
  found belonged together when it looked, and its ids are not given out again). Every
  commit moves the database along `Follows`: ids that are known stay known, a deleted one
  never comes back, and no profile changes its distribution. That is what carries
  `Well` past the commits of others, and the reason why a parent or a distribution may be
  gone by then but never be another. A clone copies who inherits from whom, hence its
  ids must be new (`NewId`).
* `SeedsAreIdempotent`: for each seeding function there is a predicate (`HasBase`,
  `HasReference`, `HasServices`, ...) that it establishes, that every later seed keeps,
  and under which the function is the identity. A reference distribution rewrites rows:
  that the second run rewrites them to the same needs that what is looked up in between
  (`LookupsSame`) was not touched (`Touches`). This holds of databases in which documents
  have replaced rows, too.

`SeedsPlansProofs`, under `ShippedAssumption` too:

* `ReferencePlansComplete`. `PlansComplete` is far from inductive: it speaks of what the
  resolver computes, and a seed looks up rows that other seeds made. `Fitting` says what
  every row is made of: a board, toolchain or kernel the files name has the architecture
  its file gives it; a package version, group member or set member refers to what its
  key says; a member of a reference distribution's group comes in the distribution's
  architecture (`Home`), and its sets hold groups of its own; an untouched profile is
  one of a reference distribution, has no parent, parts of that architecture, and a set
  of its own distribution. Rows of users' own boards, packages and distributions are
  free. `FittingPlans` draws the plan from it; as such a profile is the whole of its
  chain (`NoParentChain`), the resolver's recursion is unfolded once.
* What is inserted has to fit, what was there stays (`InsertFits`). The documents are
  looked into once each (`Shipped`: one architecture, known packages, boards, kernels and
  toolchains of that architecture); Ocultum's is not like that, which is why it is left
  out. A profile that is written over keeps the columns whose new value is NULL: these
  fit too, because the profile was untouched (`ProfilesFit`).
* A request either leaves an untouched profile as it was or counts as a user's change
  (`SameFits`); it never changes the rows of the files (`SameStock`).

Only model-checked: all liveness (fairness and ENABLED are out of TLAPS's reach), and
the installation from nothing itself, where 0001 creates today's tables; databases that
were installed so by an earlier release are in the theorems.

## Where code and documents disagree

* **A manual job is retried by the sweep** (QueueManual). `docs/ROADMAP.md:3758`
  re-queues after a crash "if retry policy allows"; `_do_expire_leases` never looks.
* **A build may stay queued for ever** (BuildStuck). `coordinator.py:15` promises
  success or failed; a plan that no longer resolves ends the run before the status
  is written, and the job counts as succeeded.
* **A partial write is promoted** (StorePartial). `docs/ROADMAP.md:3767` describes a
  temporary file; `ingest_blob` writes in place and a retry trusts the torn file.
* **gc may remove a referenced blob** (StoreGcRace). `gc.py:18` says it never does;
  an ingest that deduplicates during the sweep loses its file.

* **A fresh database cannot be installed** (FreshUpgrade). `README.md:179` says the
  chain is guarded and runs cleanly; 0001 creates `workers.pid` from today's models and
  0049 adds it unguarded. On such a database 0050 would be next (it adds a table
  that is there). The container starts with this command (`Dockerfile:34`).

Met while modelling, visible in the exceptions rather than in a run of their own:

* Migrations: 0021 looks for `network_interface_kinds` and creates `network_profiles`,
  which 0006 made; 0045 seeds `distribution_config_values`, which 0050 creates; an
  integer is written into a boolean column, which PostgreSQL refuses; the downgrades of
  0048 and 0021 drop tables of 0002 and 0006, that of 0023 does not give columns back;
  `try ... except: pass` in 0015 to 0025 kills a PostgreSQL transaction; on SQLite a
  revision that was interrupted skips its remaining tables on the next run, and a
  downgrade instead of it leaves the tables it had made, with references to tables that
  are dropped; on a fresh database most of the kinds tables stay empty, because the
  guard finds the tables 0001 made, although `README.md:89` says a fresh database has
  "the fixed enumerations seeded by the migrations" and `seed_data.py:5` says 0006 seeds
  its two "into a freshly-upgraded database". Those two are (0006 counts rows, not
  tables); those of the revisions from 0016 to 0044 that look for their tables are not.
* Builds: a cancellation that passed its check overwrites "success", and the pipeline of a
  cancelled build goes on and overwrites "cancelled"; `docs/ROADMAP.md:1415` says a
  "Cancelled build stops all pending jobs cleanly".
* Store: a pin that commits while a collection is under way is lost; `retention.py:23`
  says pinned artifacts are "never" collected, and `docs/ROADMAP.md:1496` that "GC never
  deletes pinned artifacts".
* Designs: adding a row clears nothing in nine services (`Silent`); the update of a
  branding profile leaves `rendered_motd`, which `branding/service.py:161` says it
  clears; a key with a NULL column is not unique in 19 designs (`MayBeShared`);
  board revisions, pool quotas and repository indexes are looked up without a
  constraint (`Doubled`); eight services accept rows for an owner that is not there
  (`Orphaned`); initramfs profiles are answered and not committed (`Lost`); a render
  and an edit that overlap leave a stale text with a current hash (`mixed`).
* Catalogue: imports that replace a distribution or a profile do not look whether
  builds or other profiles refer to it, and the resolver ends the inheritance chain
  there without a word; on SQLite a deletion that overlaps with the creation of a child,
  of a profile or of a build leaves it without its parent or distribution, for the
  look-up that would refuse is not repeated (PostgreSQL's foreign keys refuse it, where
  the column is one); an update can make a profile its own ancestor; seeding a
  second time overwrites the board, kernel, toolchain and packages a user has chosen
  for a reference profile; Ocultum's profiles name an x86_64 board with an aarch64
  toolchain and aarch64 packages.

## What is not modelled

* Contents of files and images, hashing, templates, signing, device and QEMU
  control, HTTP and command line parsing: no state that two parties share.
* In the queue: priorities (always the default), `scheduled_for` (always now) and
  equal `created_at` values. In the store: `ref` links' targets, sizes and the LRU order
  of its quota.
* The event stream: one loop that reads events and then the status; what is logged
  in between is lost in every interleaving alike.
* The worker registry: it spawns and signals processes of the operating system, whose
  ids nothing ties to its rows. Source downloads and toolchain extraction: tools
  outside; what they store goes through `ingest_blob`. Build drafts: a row one user
  edits alone.
* In the schema: types, defaults, nullability, indexes and constraints other than
  foreign keys. Unique constraints are in the designs, where requests race for keys.
* In the designs: the contents of rows and texts (a text is what its sections were
  when they were read), the validation of arguments, which comes before anything is
  read, requests about several keys at once, and reports that only read: explanations,
  differences, graphs, estimates, the resolution of a kernel configuration and of a
  package set.
* In the catalogue: the order of one request's own queries, columns that refer to
  nothing, the import of sources, documents with more than two profiles, a plan's
  firmware, scripts and overlays, and the reproducibility hashes.

`PROJECT.json` lists every component with its status.

## What could follow

The parts were taken in this order: queue, builds, store, each with its proofs; then
schema, migrations, designs and catalogue; then the proofs about designs and the last
two invariants of queue and store, and those about migrations, seeds and plans. Left, by
what they would add:

1. FetchCache, composed with ArtifactStore: artifact ids a plan or a cache holds on
   to, against gc.
2. EventStream and WorkerRegistry, once the code has an order or a lock to check.
3. Pure modules: override and layer merging, the MBR layout.
4. A proof of what an installation from nothing leaves up to the refused revision.
