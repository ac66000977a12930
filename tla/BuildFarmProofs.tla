-------------------------- MODULE BuildFarmProofs --------------------------
(***************************************************************************)
(* Proofs about BuildFarm, for any number of builds, workers, steps,       *)
(* attempts and outages.  Nothing here needs a build's runs to be disjoint *)
(* in time (~Overrun), except the life cycle of its job and that "success" *)
(* stands.                                                                 *)
(***************************************************************************)
EXTENDS BuildFarm, TLAPS

Place == {At("none")} \cup Working \cup Ended

\* Where a run can go; it ends, or has not begun, outside Working.
LEMMA Places ==
    /\ \A i \in Steps : Before(i) \in Working /\ Inside(i) \in Working
    /\ \A name \in {"resolve", "start", "fails", "succeeds", "link", "linkMute",
                    "return", "returnMute", "raise"} : At(name) \in Working
    /\ \A name \in {"over", "mute", "raised", "crashed"} :
            At(name) \in Ended /\ At(name) \notin Working
    /\ At("none") \notin Working
    /\ Working \subseteq Place /\ Ended \subseteq Place /\ At("none") \in Place
BY DEF Place, Working, Ended, At, Before, Inside

\* A run that moves leaves the others where they are.
LEMMA Moved ==
    ASSUME run \in [Builds -> [Runs -> Place]], NEW b \in Builds, NEW k \in Runs,
           NEW p \in Place, Go(b, k, p)
    PROVE  /\ run' \in [Builds -> [Runs -> Place]]
           /\ run'[b][k] = p
           /\ \A c \in Builds, j \in Runs : c # b \/ j # k => run'[c][j] = run[c][j]
BY DEF Go

\* So does a step that is recorded.
LEMMA Recorded ==
    ASSUME steps \in [Builds -> [Runs -> [Steps -> StepStatus]]],
           NEW b \in Builds, NEW k \in Runs, NEW i \in Steps, NEW s \in StepStatus,
           steps' = [steps EXCEPT ![b][k][i] = s]
    PROVE  /\ steps' \in [Builds -> [Runs -> [Steps -> StepStatus]]]
           /\ steps'[b][k][i] = s
           /\ \A c \in Builds, j \in Runs, n \in Steps :
                c # b \/ j # k \/ n # i => steps'[c][j][n] = steps[c][j][n]
OBVIOUS

\* And a step that is completed.
LEMMA Counted ==
    ASSUME completed \in [Builds -> [Runs -> SUBSET Steps]],
           NEW b \in Builds, NEW k \in Runs, NEW i \in Steps,
           completed' = [completed EXCEPT ![b][k] = @ \cup {i}]
    PROVE  /\ completed' \in [Builds -> [Runs -> SUBSET Steps]]
           /\ completed'[b][k] = completed[b][k] \cup {i}
           /\ \A c \in Builds, j \in Runs :
                c # b \/ j # k => completed'[c][j] = completed[c][j]
<1>1. completed[b][k] \cup {i} \in SUBSET Steps
    OBVIOUS
<1> QED
    BY <1>1

\* The row of a build takes the status it is given, if it exists.
LEMMA Written ==
    ASSUME status \in [Builds -> Status], NEW b \in Builds, NEW s \in Status, Write(b, s)
    PROVE  /\ status' \in [Builds -> Status]
           /\ status'[b] = IF Exists(b) THEN s ELSE status[b]
           /\ \A c \in Builds : c # b => status'[c] = status[c]
BY DEF Write

\* The steps of one run, and what interrupts it.
AnyRunStep(b, k) == RunStep(b, k) \/ WriteRefused(b, k) \/ CrashRun(b, k)

\* Whatever a run does, it was going on, and it alone moves, to a place that
\* it is given by one of these.
LEMMA RunMoves ==
    ASSUME TypeOK, NEW b \in Builds, NEW k \in Runs, AnyRunStep(b, k)
    PROVE  run[b][k] \in Working /\ \E p \in Working \cup Ended : Go(b, k, p)
<1>1. CASE Resolve(b, k)
    BY <1>1, Places DEF Resolve
<1>2. CASE Start(b, k)
    BY <1>2, Places, FarmAssumption DEF Start, Steps
<1>3. CASE \E i \in Steps : BeginStep(b, k, i) \/ EscapingError(b, k, i) \/ StepFails(b, k, i)
                            \/ StepRowGone(b, k, i)
    BY <1>3, Places DEF BeginStep, EscapingError, StepFails, StepRowGone
<1>4. ASSUME NEW i \in Steps, StepDone(b, k, i)
      PROVE  run[b][k] \in Working /\ \E p \in Working \cup Ended : Go(b, k, p)
    <2>1. i # NSteps => i + 1 \in Steps
        BY FarmAssumption DEF Steps
    <2> QED
        BY <1>4, <2>1, Places DEF StepDone
<1>5. CASE Fails(b, k) \/ Succeeds(b, k) \/ Link(b, k) \/ Raise(b, k)
    BY <1>5, Places DEF Fails, Succeeds, Link, AfterLink, Raise
<1>6. CASE Return(b, k)
    BY <1>6, Places DEF Return
<1>7. CASE WriteRefused(b, k)
    BY <1>7, Places, FarmAssumption DEF WriteRefused, AfterLink, Steps
<1>8. CASE CrashRun(b, k)
    BY <1>8, Places DEF CrashRun
<1> QED
    BY <1>1, <1>2, <1>3, <1>4, <1>5, <1>6, <1>7, <1>8 DEF AnyRunStep, RunStep

(***************************************************************************)
(* Type correctness.                                                       *)
(***************************************************************************)
LEMMA TypeInit == Init => TypeOK
BY FarmAssumption, Places DEF Init, TypeOK, Status, StepStatus, Place

LEMMA AttemptEnds == \A n : AfterAttempt(n) \in {"queued", "failed"}
BY DEF AfterAttempt

LEMMA ApiTypes ==
    ASSUME TypeOK, NEW b \in Builds,
           Request(b) \/ MakerStep(b) \/ CreateDies(b) \/ Cancel(b) \/ Delete(b)
    PROVE  TypeOK'
<1>1. CASE Request(b)
    <2>1. CASE CreateRow(b) \/ Rebuild(b)
        BY <2>1 DEF TypeOK, Rebuild, CreateRow, Status, jobVars, stepVars
    <2>2. CASE CheckCancel(b) \/ CheckDelete(b)
        <3>1. intent' \in [Builds -> SUBSET {"cancel", "delete"}]
            <4>1. \A r \in {"cancel", "delete"} :
                    intent[b] \cup {r} \in SUBSET {"cancel", "delete"}
                BY DEF TypeOK
            <4>2. PICK r \in {"cancel", "delete"} :
                    intent' = [intent EXCEPT ![b] = @ \cup {r}]
                BY <2>2 DEF CheckCancel, CheckDelete
            <4> QED
                BY <4>1, <4>2 DEF TypeOK
        <3> QED
            BY <2>2, <3>1 DEF TypeOK, CheckCancel, CheckDelete, jobVars, stepVars
    <2> QED
        BY <1>1, <2>1, <2>2 DEF Request
<1>2. CASE MakerStep(b)
    BY <1>2 DEF TypeOK, MakerStep, LogRequest, EnqueueJob, jobVars, stepVars
<1>3. CASE CreateDies(b)
    BY <1>3, FarmAssumption DEF TypeOK, CreateDies, jobVars, stepVars
<1>4. CASE Cancel(b)
    BY <1>4 DEF TypeOK, Cancel, Status, Terminal, jobVars, stepVars
<1>5. CASE Delete(b)
    BY <1>5 DEF TypeOK, Delete, Status, StepStatus, jobVars
<1> QED
    BY <1>1, <1>2, <1>3, <1>4, <1>5

LEMMA QueueTypes ==
    ASSUME TypeOK, NEW b \in Builds, ClaimJob(b) \/ LeaseLost(b)
    PROVE  TypeOK'
<1>1. CASE ClaimJob(b)
    <2>1. tries'[b] \in Runs /\ tries' \in [Builds -> 0 .. MaxRuns]
        BY <1>1, FarmAssumption DEF ClaimJob, TypeOK, Runs
    <2>2. run' \in [Builds -> [Runs -> Place]]
        BY <1>1, <2>1, Places DEF ClaimJob, TypeOK, Place
    <2> QED
        BY <1>1, <2>1, <2>2 DEF TypeOK, ClaimJob, apiVars, stepVars, Place
<1>2. CASE LeaseLost(b)
    BY <1>2, AttemptEnds DEF TypeOK, LeaseLost, apiVars, stepVars
<1> QED
    BY <1>1, <1>2

LEMMA RunTypes ==
    ASSUME TypeOK, NEW b \in Builds, NEW k \in Runs, AnyRunStep(b, k)
    PROVE  TypeOK'
<1>1. run' \in [Builds -> [Runs -> Place]]
    BY RunMoves, Moved, Places DEF TypeOK, Place
<1>2. steps' \in [Builds -> [Runs -> [Steps -> StepStatus]]]
    <2>1. CASE UNCHANGED steps
        BY <2>1 DEF TypeOK
    <2>2. CASE \E i \in Steps, s \in StepStatus : steps' = [steps EXCEPT ![b][k][i] = s]
        BY <2>2, Recorded DEF TypeOK
    <2> QED
        BY <2>1, <2>2 DEF AnyRunStep, RunStep, Resolve, Start, BeginStep, EscapingError, StepDone,
            StepFails, StepRowGone, Fails, Succeeds, Link, Return, Raise, WriteRefused, CrashRun,
            StepStatus, stepVars
<1>6. completed' \in [Builds -> [Runs -> SUBSET Steps]]
    <2>1. CASE \E i \in Steps : StepDone(b, k, i)
        BY <2>1, Counted DEF StepDone, TypeOK
    <2>2. CASE ~\E i \in Steps : StepDone(b, k, i)
        <3>1. UNCHANGED completed
            BY <2>2 DEF AnyRunStep, RunStep, Resolve, Start, BeginStep, EscapingError, StepFails,
                StepRowGone, Fails, Succeeds, Link, Return, Raise, WriteRefused, CrashRun, stepVars
        <3> QED
            BY <3>1 DEF TypeOK
    <2> QED
        BY <2>1, <2>2
<1>3. status' \in [Builds -> Status]
    BY Written DEF TypeOK, AnyRunStep, RunStep, Resolve, Start, BeginStep, EscapingError, StepDone,
        StepFails, StepRowGone, Fails, Succeeds, Link, Return, Raise, WriteRefused, CrashRun,
        Status, Terminal
<1>4. /\ job' \in [Builds -> {"absent", "queued", "running", "success", "failed"}]
      /\ tries' \in [Builds -> 0 .. MaxRuns]
    BY AttemptEnds DEF TypeOK, AnyRunStep, RunStep, Resolve, Start, BeginStep, EscapingError,
        StepDone, StepFails, StepRowGone, Fails, Succeeds, Link, Return, Raise, WriteRefused,
        CrashRun, jobVars
<1>5. /\ UNCHANGED apiVars
      /\ producer' \in Builds \cup {NoBuild}
      /\ outages' \in 0 .. MaxOutages
    BY FarmAssumption DEF TypeOK, AnyRunStep, RunStep, Resolve, Start, BeginStep, EscapingError,
        StepDone, StepFails, StepRowGone, Fails, Succeeds, Link, Return, Raise, WriteRefused,
        CrashRun
<1> QED
    BY <1>1, <1>2, <1>3, <1>4, <1>5, <1>6 DEF TypeOK, Place, apiVars

\* Every variable keeps its type in every reachable state.
THEOREM FarmTypes == Spec => []TypeOK
<1>1. TypeOK /\ [Next]_vars => TypeOK'
    <2> SUFFICES ASSUME TypeOK, [Next]_vars PROVE TypeOK'
        OBVIOUS
    <2>1. CASE UNCHANGED vars
        BY <2>1 DEF TypeOK, vars, apiVars, jobVars, stepVars
    <2>2. CASE Next
        BY <2>2, ApiTypes, QueueTypes, RunTypes DEF Next, AnyRunStep
    <2> QED
        BY <2>1, <2>2
<1> QED
    BY <1>1, TypeInit, PTL DEF Spec

(***************************************************************************)
(* What builds, requests, jobs and runs have to do with each other.        *)
(***************************************************************************)
MakerShape(b) ==
    /\ maker[b] = "idle" => status[b] = "absent" /\ producer # b /\ intent[b] = {}
    /\ status[b] = "absent" => maker[b] = "idle"
    /\ maker[b] # "done" => job[b] = "absent" /\ tries[b] = 0
    /\ tries[b] = 0 => job[b] \in {"absent", "queued"}
    /\ \A k \in Runs : run[b][k] # At("none") => k <= tries[b]

FarmShape == \A b \in Builds : MakerShape(b)

\* A run touches only its build, never brings a deleted one back, and its
\* job has been enqueued.
LEMMA RunEffect ==
    ASSUME TypeOK, NEW b \in Builds, NEW k \in Runs, AnyRunStep(b, k)
    PROVE  /\ UNCHANGED <<apiVars, tries>>
           /\ \A c \in Builds : c # b => status'[c] = status[c] /\ job'[c] = job[c]
           /\ status'[b] \in Status
           /\ IF Exists(b) THEN Exists(b)' ELSE status'[b] = status[b]
           /\ job'[b] # "absent" \/ job'[b] = job[b]
           /\ producer' \in {producer, b}
<1>1. UNCHANGED <<apiVars, tries>> /\ producer' \in {producer, b}
    BY DEF AnyRunStep, RunStep, Resolve, Start, BeginStep, EscapingError, StepDone, StepFails,
        StepRowGone, Fails, Succeeds, Link, Return, Raise, WriteRefused, CrashRun, jobVars
<1>2. /\ \A c \in Builds : c # b => job'[c] = job[c]
      /\ job'[b] # "absent" \/ job'[b] = job[b]
    BY AttemptEnds DEF TypeOK, AnyRunStep, RunStep, Resolve, Start, BeginStep, EscapingError,
        StepDone, StepFails, StepRowGone, Fails, Succeeds, Link, Return, Raise, WriteRefused,
        CrashRun, jobVars
<1>3. status' = status \/ \E s \in {"running", "failed", "success"} : Write(b, s)
    BY DEF AnyRunStep, RunStep, Resolve, Start, BeginStep, EscapingError, StepDone, StepFails,
        StepRowGone, Fails, Succeeds, Link, Return, Raise, WriteRefused, CrashRun
<1>4. {"running", "failed", "success"} \subseteq Status
    BY DEF Status, Terminal
<1> QED
    BY <1>1, <1>2, <1>3, <1>4, Written DEF TypeOK, Exists

\* The API touches no run; it brings a build into being only once.
LEMMA ApiEffect ==
    ASSUME TypeOK, FarmShape, NEW b \in Builds,
           Request(b) \/ MakerStep(b) \/ CreateDies(b) \/ Cancel(b) \/ Delete(b)
    PROVE  /\ UNCHANGED <<run, tries, producer>>
           /\ \A c \in Builds : c # b => UNCHANGED <<status[c], maker[c], intent[c], job[c]>>
           /\ MakerShape(b)'
<1>1. CASE Request(b)
    BY <1>1 DEF Request, Rebuild, CreateRow, CheckCancel, CheckDelete, TypeOK, FarmShape, MakerShape,
        Exists, jobVars
<1>2. CASE MakerStep(b)
    BY <1>2 DEF MakerStep, LogRequest, EnqueueJob, TypeOK, FarmShape, MakerShape, jobVars
<1>3. CASE CreateDies(b)
    BY <1>3 DEF CreateDies, TypeOK, FarmShape, MakerShape, jobVars
<1>4. CASE Cancel(b)
    BY <1>4 DEF Cancel, TypeOK, FarmShape, MakerShape, jobVars, Exists
<1>5. CASE Delete(b)
    BY <1>5 DEF Delete, TypeOK, FarmShape, MakerShape, jobVars
<1> QED
    BY <1>1, <1>2, <1>3, <1>4, <1>5

\* A claim starts a run that never ran.
LEMMA ClaimEffect ==
    ASSUME TypeOK, FarmShape, NEW b \in Builds, ClaimJob(b)
    PROVE  /\ tries[b] + 1 \in Runs
           /\ run[b][tries[b] + 1] = At("none") /\ run'[b][tries[b] + 1] = At("resolve")
           /\ \A c \in Builds, j \in Runs : c # b \/ j # tries[b] + 1 => run'[c][j] = run[c][j]
           /\ tries' = [tries EXCEPT ![b] = @ + 1]
           /\ job' = [job EXCEPT ![b] = "running"] /\ job[b] = "queued"
           /\ UNCHANGED <<status, apiVars, stepVars, producer>>
<1>1. tries[b] \in Nat /\ tries'[b] = tries[b] + 1 /\ tries[b] + 1 \in Runs
    BY FarmAssumption DEF TypeOK, ClaimJob, Runs
<1>2. run[b][tries[b] + 1] = At("none")
    BY <1>1 DEF FarmShape, MakerShape
<1>3. run \in [Builds -> [Runs -> Place]] /\ run' = [run EXCEPT ![b][tries[b] + 1] = At("resolve")]
    BY <1>1 DEF ClaimJob, TypeOK, Place
<1> QED
    BY <1>1, <1>2, <1>3 DEF ClaimJob

LEMMA ShapeStep ==
    ASSUME TypeOK, FarmShape, [Next]_vars
    PROVE  FarmShape'
<1>1. CASE UNCHANGED vars
    BY <1>1 DEF FarmShape, MakerShape, vars, apiVars, jobVars
<1>2. ASSUME NEW b \in Builds,
             Request(b) \/ MakerStep(b) \/ CreateDies(b) \/ Cancel(b) \/ Delete(b)
      PROVE  FarmShape'
    BY <1>2, ApiEffect DEF FarmShape, MakerShape
<1>3. ASSUME NEW b \in Builds, ClaimJob(b) PROVE FarmShape'
    <2> SUFFICES ASSUME NEW c \in Builds PROVE MakerShape(c)'
        BY DEF FarmShape
    <2>1. CASE c # b
        BY <1>3, <2>1, ClaimEffect DEF TypeOK, FarmShape, MakerShape, apiVars
    <2>2. CASE c = b
        <3>1. tries[b] \in Nat /\ tries'[b] = tries[b] + 1 /\ job'[b] = "running"
              /\ Runs \subseteq Nat
            BY <1>3, ClaimEffect, FarmAssumption DEF TypeOK, Runs
        <3>2. \A j \in Runs : run'[b][j] # At("none") => j <= tries'[b]
            BY <1>3, <3>1, ClaimEffect DEF FarmShape, MakerShape
        <3> QED
            BY <1>3, <2>2, <3>1, <3>2, ClaimEffect DEF FarmShape, MakerShape, apiVars
    <2> QED
        BY <2>1, <2>2
<1>4. ASSUME NEW b \in Builds, LeaseLost(b) PROVE FarmShape'
    BY <1>4, AttemptEnds DEF TypeOK, LeaseLost, FarmShape, MakerShape, apiVars
<1>5. ASSUME NEW b \in Builds, NEW k \in Runs, AnyRunStep(b, k) PROVE FarmShape'
    <2>1. PICK p \in Working \cup Ended : Go(b, k, p) /\ run[b][k] # At("none")
        BY <1>5, RunMoves, Places
    <2>2. \A c \in Builds, j \in Runs : run'[c][j] # At("none") => run[c][j] # At("none")
        <3>1. p \in Place /\ run \in [Builds -> [Runs -> Place]]
            BY <2>1, Places DEF TypeOK, Place
        <3>2. \A c \in Builds, j \in Runs : c # b \/ j # k => run'[c][j] = run[c][j]
            BY <2>1, <3>1, Moved
        <3> QED
            BY <2>1, <3>2
    <2>3. tries[b] # 0 /\ maker[b] = "done"
        BY <2>1 DEF FarmShape, MakerShape, Runs
    <2> QED
        BY <1>5, <2>2, <2>3, RunEffect DEF FarmShape, MakerShape, apiVars, Exists
<1> QED
    BY <1>1, <1>2, <1>3, <1>4, <1>5 DEF Next, AnyRunStep

LEMMA FarmShapes == Spec => [](TypeOK /\ FarmShape)
<1>1. Init => FarmShape
    BY FarmAssumption DEF Init, FarmShape, MakerShape
<1>2. TypeOK /\ FarmShape /\ [Next]_vars => FarmShape'
    BY ShapeStep
<1> QED
    BY <1>1, <1>2, FarmTypes, PTL DEF Spec

(***************************************************************************)
(* Steps, and the status they earn.                                        *)
(***************************************************************************)
NoSteps(b, k) == \A i \in Steps : steps[b][k][i] = "none"

Done(b, k) == \A i \in Steps : steps[b][k][i] = "success"

UpTo(b, k, i) ==
    \A j \in Steps : /\ j < i => steps[b][k][j] = "success"
                     /\ j > i => steps[b][k][j] = "none"

Below(i) == {j \in Steps : j < i}

\* Where a run is tells what it has completed and, as long as its build exists,
\* recorded.
Progress(b, k) ==
    /\ run[b][k] \in {At("none"), At("resolve"), At("start")} =>
            NoSteps(b, k) /\ completed[b][k] = {}
    /\ \A i \in Steps : run[b][k] \in {Before(i), Inside(i)} => completed[b][k] = Below(i)
    /\ run[b][k] \in {At("succeeds"), At("link"), At("linkMute")} => completed[b][k] = Steps
    /\ Exists(b) =>
        /\ \A i \in Steps : run[b][k] = Before(i) => UpTo(b, k, i) /\ steps[b][k][i] = "none"
        /\ \A i \in Steps : run[b][k] = Inside(i) => UpTo(b, k, i)
        /\ run[b][k] \in {At("succeeds"), At("link"), At("linkMute")} => Done(b, k)

FarmProgress == \A b \in Builds, k \in Runs : Progress(b, k)

Leaving == {At("fails"), At("return"), At("returnMute"), At("raise")} \cup Ended
Linking == {At("link"), At("linkMute")}

\* A run that moves without recording keeps its progress.
LEMMA QuietProgress ==
    ASSUME TypeOK, FarmProgress, NEW b \in Builds, NEW k \in Runs,
           UNCHANGED stepVars, Exists(b)' => Exists(b),
           \/ run'[b][k] = run[b][k]
           \/ run'[b][k] \in Leaving
           \/ run[b][k] \in {At("none"), At("resolve")}
                /\ run'[b][k] \in {At("resolve"), At("start")}
           \/ run[b][k] = At("start") /\ run'[b][k] = Before(1)
           \/ run[b][k] = At("succeeds") /\ run'[b][k] \in Linking
    PROVE  Progress(b, k)'
<1> USE DEF stepVars
<1>1. CASE run'[b][k] = run[b][k]
    BY <1>1 DEF FarmProgress, Progress, NoSteps, UpTo, Done, Below
<1>2. CASE run'[b][k] \in Leaving
    BY <1>2 DEF Progress, Leaving, Ended, At, Before, Inside
<1>3. CASE run[b][k] \in {At("none"), At("resolve")}
            /\ run'[b][k] \in {At("resolve"), At("start")}
    BY <1>3 DEF FarmProgress, Progress, NoSteps, At, Before, Inside
<1>4. CASE run[b][k] = At("start") /\ run'[b][k] = Before(1)
    <2>1. NoSteps(b, k) /\ completed[b][k] = {}
        BY <1>4 DEF FarmProgress, Progress
    <2>2. UpTo(b, k, 1)' /\ \A i \in Steps : steps'[b][k][i] = "none"
        BY <2>1 DEF NoSteps, UpTo, Steps
    <2>3. \A i \in Steps : Before(1) = Before(i) => i = 1
        BY DEF Before
    <2>4. \A i \in Steps : Before(1) # Inside(i)
        BY DEF Before, Inside
    <2>5. \A name \in {"none", "resolve", "start", "succeeds", "link", "linkMute"} :
            Before(1) # At(name)
        BY DEF Before, At
    <2>6. completed'[b][k] = Below(1)
        BY <2>1 DEF Below, Steps
    <2> QED
        BY <1>4, <2>2, <2>3, <2>4, <2>5, <2>6 DEF Progress, NoSteps, Below
<1>5. CASE run[b][k] = At("succeeds") /\ run'[b][k] \in Linking
    <2>1. completed'[b][k] = Steps /\ (Exists(b)' => Done(b, k)')
        BY <1>5 DEF FarmProgress, Progress, Done
    <2>2. /\ \A i \in Steps : run'[b][k] \notin {Before(i), Inside(i)}
          /\ run'[b][k] \notin {At("none"), At("resolve"), At("start")}
        BY <1>5 DEF Linking, At, Before, Inside
    <2> QED
        BY <1>5, <2>1, <2>2 DEF Progress
<1> QED
    BY <1>1, <1>2, <1>3, <1>4, <1>5

\* A step of a run keeps the progress of that run.
LEMMA OwnProgress ==
    ASSUME TypeOK, FarmProgress, NEW b \in Builds, NEW k \in Runs, AnyRunStep(b, k)
    PROVE  Progress(b, k)'
<1>1. Exists(b)' => Exists(b)
    BY RunEffect DEF Exists
<1>2. ASSUME NEW p \in Place, Go(b, k, p) PROVE run'[b][k] = p
    BY <1>2, Moved DEF TypeOK, Place
<1>3. CASE \E i \in Steps : BeginStep(b, k, i)
    <2>1. PICK i \in Steps : BeginStep(b, k, i)
        BY <1>3
    <2>2. CASE ForeignKeys /\ ~Exists(b)
        BY <1>1, <1>2, <2>1, <2>2, Places, QuietProgress DEF BeginStep, Leaving, stepVars
    <2>3. CASE ~(ForeignKeys /\ ~Exists(b))
        <3>1. run'[b][k] = Inside(i) /\ run[b][k] = Before(i)
            BY <1>2, <2>1, <2>3, Places DEF BeginStep
        <3>2. \A j \in Steps : j # i => steps'[b][k][j] = steps[b][k][j]
            BY <2>1, <2>3, Recorded DEF BeginStep, TypeOK, StepStatus
        <3>3. completed'[b][k] = Below(i)
            BY <2>1, <3>1 DEF BeginStep, FarmProgress, Progress
        <3>4. Exists(b)' => UpTo(b, k, i)'
            BY <1>1, <3>1, <3>2 DEF FarmProgress, Progress, UpTo, Steps
        <3>5. /\ \A n \in Steps : Inside(i) # Before(n) /\ (Inside(i) = Inside(n) => i = n)
              /\ \A name \in {"none", "resolve", "start", "succeeds", "link", "linkMute"} :
                    Inside(i) # At(name)
            BY DEF At, Before, Inside
        <3> QED
            BY <3>1, <3>3, <3>4, <3>5 DEF Progress, Below
    <2> QED
        BY <2>2, <2>3
<1>4. CASE \E i \in Steps : StepDone(b, k, i)
    <2>1. PICK i \in Steps : StepDone(b, k, i)
        BY <1>4
    <2>2. i # NSteps => i + 1 \in Steps
        BY FarmAssumption DEF Steps
    <2>3. run'[b][k] = IF i = NSteps THEN At("succeeds") ELSE Before(i + 1)
        BY <1>2, <2>1, <2>2, Places DEF StepDone
    <2>4. /\ steps'[b][k][i] = "success"
          /\ \A j \in Steps : j # i => steps'[b][k][j] = steps[b][k][j]
        BY <2>1, Recorded DEF StepDone, TypeOK, StepStatus
    <2>5. Exists(b) => UpTo(b, k, i)
        BY <2>1 DEF StepDone, FarmProgress, Progress
    <2>6. Exists(b)' => \A j \in Steps : j <= i => steps'[b][k][j] = "success"
        BY <1>1, <2>4, <2>5 DEF UpTo, Steps
    <2>9. completed'[b][k] = Below(i) \cup {i}
        BY <2>1, Counted DEF StepDone, FarmProgress, Progress, TypeOK
    <2>7. CASE i = NSteps
        <3>1. completed'[b][k] = Steps
            BY <2>7, <2>9, FarmAssumption DEF Below, Steps
        <3>2. Exists(b)' => Done(b, k)'
            BY <2>6, <2>7 DEF Done, Steps
        <3> QED
            BY <2>3, <2>7, <3>1, <3>2 DEF Progress, At, Before, Inside
    <2>8. CASE i # NSteps
        <3>1. run'[b][k] = Before(i + 1)
            BY <2>3, <2>8
        <3>2. Exists(b)' => UpTo(b, k, i + 1)' /\ steps'[b][k][i + 1] = "none"
            BY <1>1, <2>2, <2>4, <2>5, <2>6, <2>8 DEF UpTo, Steps
        <3>3. completed'[b][k] = Below(i + 1)
            BY <2>9 DEF Below, Steps
        <3>4. /\ \A n \in Steps : /\ Before(i + 1) # Inside(n)
                                   /\ Before(i + 1) = Before(n) => n = i + 1
              /\ \A name \in {"none", "resolve", "start", "succeeds", "link", "linkMute"} :
                    Before(i + 1) # At(name)
            BY DEF At, Before, Inside
        <3> QED
            <4>1. /\ run'[b][k] \notin {At("none"), At("resolve"), At("start")}
                  /\ run'[b][k] \notin {At("succeeds"), At("link"), At("linkMute")}
                BY <3>1, <3>4
            <4>2. \A n \in Steps :
                    run'[b][k] \in {Before(n), Inside(n)} => run'[b][k] = Before(n) /\ n = i + 1
                BY <3>1 DEF Before, Inside
            <4>3. \A n \in Steps : n = i + 1 =>
                    /\ completed'[b][k] = Below(n)
                    /\ Exists(b)' => UpTo(b, k, n)' /\ steps'[b][k][n] = "none"
                BY <3>2, <3>3
            <4>4. \A n \in Steps : run'[b][k] # Inside(n)
                BY <3>1 DEF Before, Inside
            <4> HIDE DEF Exists, UpTo, Done, NoSteps, Below
            <4>5. \A n \in Steps : run'[b][k] \in {Before(n), Inside(n)} =>
                    completed'[b][k] = Below(n)
                BY <4>2, <4>3
            <4>6. Exists(b)' => \A n \in Steps : run'[b][k] = Before(n) =>
                    UpTo(b, k, n)' /\ steps'[b][k][n] = "none"
                BY <4>2, <4>3
            <4>7. \A n \in Steps : Below(n)' = Below(n)
                BY DEF Below
            <4> QED
                BY <4>1, <4>4, <4>5, <4>6, <4>7 DEF Progress
    <2> QED
        BY <2>7, <2>8
<1>5. CASE \E i \in Steps : StepFails(b, k, i)
    BY <1>2, <1>5, Places DEF StepFails, Progress, At, Before, Inside
<1>6. CASE \/ \E i \in Steps : EscapingError(b, k, i) \/ StepRowGone(b, k, i)
           \/ Fails(b, k) \/ Link(b, k) \/ Raise(b, k) \/ Return(b, k) \/ CrashRun(b, k)
    <2>1. UNCHANGED stepVars /\ \E p \in Leaving : Go(b, k, p)
        BY <1>6 DEF EscapingError, StepRowGone, Fails, Link, AfterLink, Raise, Return, CrashRun,
            Leaving, Ended
    <2>2. Leaving \subseteq Place
        BY Places DEF Leaving
    <2> QED
        BY <1>1, <1>2, <2>1, <2>2, QuietProgress
<1>7. CASE Resolve(b, k) \/ Start(b, k) \/ Succeeds(b, k) \/ WriteRefused(b, k)
    <2>1. 1 \in Steps
        BY FarmAssumption DEF Steps
    <2> QED
        BY <1>1, <1>2, <1>7, <2>1, Places, QuietProgress
            DEF Resolve, Start, Succeeds, WriteRefused, AfterLink, Leaving, Linking
<1> QED
    BY <1>3, <1>4, <1>5, <1>6, <1>7 DEF AnyRunStep, RunStep

\* It leaves the others', and what they recorded, alone.
LEMMA OtherSteps ==
    ASSUME TypeOK, NEW b \in Builds, NEW k \in Runs, AnyRunStep(b, k),
           NEW c \in Builds, NEW j \in Runs, c # b \/ j # k
    PROVE  /\ run'[c][j] = run[c][j] /\ completed'[c][j] = completed[c][j]
           /\ \A i \in Steps : steps'[c][j][i] = steps[c][j][i]
<1>1. run'[c][j] = run[c][j]
    <2>1. PICK p \in Place : Go(b, k, p)
        BY RunMoves, Places
    <2> QED
        BY <2>1, Moved DEF TypeOK, Place
<1>2. \A i \in Steps : steps'[c][j][i] = steps[c][j][i]
    <2>1. CASE UNCHANGED steps
        BY <2>1
    <2>2. CASE \E i \in Steps, s \in StepStatus : steps' = [steps EXCEPT ![b][k][i] = s]
        BY <2>2, Recorded DEF TypeOK
    <2> QED
        BY <2>1, <2>2 DEF AnyRunStep, RunStep, Resolve, Start, BeginStep, EscapingError, StepDone,
            StepFails, StepRowGone, Fails, Succeeds, Link, Return, Raise, WriteRefused, CrashRun,
            StepStatus, stepVars
<1>3. completed'[c][j] = completed[c][j]
    BY Counted DEF TypeOK, AnyRunStep, RunStep, Resolve, Start, BeginStep, EscapingError, StepDone,
        StepFails, StepRowGone, Fails, Succeeds, Link, Return, Raise, WriteRefused, CrashRun,
        stepVars
<1> QED
    BY <1>1, <1>2, <1>3

LEMMA ProgressStep ==
    ASSUME TypeOK, FarmShape, FarmProgress, [Next]_vars
    PROVE  FarmProgress'
<1> SUFFICES ASSUME NEW c \in Builds, NEW j \in Runs PROVE Progress(c, j)'
    BY DEF FarmProgress
<1>1. CASE UNCHANGED vars
    BY <1>1 DEF FarmProgress, Progress, NoSteps, UpTo, Done, Exists, Below, vars, stepVars
<1>2. ASSUME NEW b \in Builds, CreateRow(b) PROVE Progress(c, j)'
    <2>1. run[b][j] = At("none")
        BY <1>2 DEF CreateRow, FarmShape, MakerShape, Runs
    <2> QED
        BY <1>2, <2>1 DEF CreateRow, TypeOK, FarmProgress, Progress, NoSteps, UpTo, Done, Exists,
            At, Before, Inside, Below, stepVars
<1>3. ASSUME NEW b \in Builds, Delete(b) PROVE Progress(c, j)'
    BY <1>3 DEF Delete, TypeOK, FarmProgress, Progress, NoSteps, UpTo, Done, Exists, Below
<1>4. ASSUME NEW b \in Builds,
             CheckCancel(b) \/ CheckDelete(b) \/ MakerStep(b) \/ CreateDies(b) \/ Cancel(b)
      PROVE  Progress(c, j)'
    <2>1. UNCHANGED <<run, stepVars>> /\ (Exists(c)' => Exists(c))
        BY <1>4 DEF CheckCancel, CheckDelete, MakerStep, LogRequest, EnqueueJob, CreateDies, Cancel,
            TypeOK, Exists
    <2> QED
        BY <2>1, QuietProgress
<1>5. ASSUME NEW b \in Builds, ClaimJob(b) PROVE Progress(c, j)'
    <2>1. /\ UNCHANGED stepVars /\ Exists(c)' = Exists(c)
          /\ \/ run'[c][j] = run[c][j]
             \/ run[c][j] = At("none") /\ run'[c][j] = At("resolve")
        BY <1>5, ClaimEffect DEF Exists
    <2> QED
        BY <2>1, QuietProgress
<1>6. ASSUME NEW b \in Builds, LeaseLost(b) PROVE Progress(c, j)'
    BY <1>6, QuietProgress DEF LeaseLost, Exists
<1>7. ASSUME NEW b \in Builds, NEW k \in Runs, AnyRunStep(b, k) PROVE Progress(c, j)'
    <2>1. CASE c = b /\ j = k
        BY <1>7, <2>1, OwnProgress
    <2>2. CASE c # b \/ j # k
        <3>1. Exists(c)' => Exists(c)
            BY <1>7, RunEffect DEF Exists
        <3>2. /\ run'[c][j] = run[c][j] /\ completed'[c][j] = completed[c][j]
              /\ \A i \in Steps : steps'[c][j][i] = steps[c][j][i]
            BY <1>7, <2>2, OtherSteps
        <3> QED
            BY <3>1, <3>2 DEF FarmProgress, Progress, NoSteps, UpTo, Done, Below
    <2> QED
        BY <2>1, <2>2
<1> QED
    BY <1>1, <1>2, <1>3, <1>4, <1>5, <1>6, <1>7 DEF Next, Request, Rebuild, AnyRunStep

\* Some run went through every step, and recorded it.
Settled(b) == \E k \in Runs : completed[b][k] = Steps /\ Done(b, k)

EarnedInv == \A b \in Builds :
    (status[b] = "success" \/ (producer = b /\ Exists(b))) => Settled(b)

\* A run that has completed its steps records nothing more.
LEMMA CompletedRests ==
    ASSUME TypeOK, FarmProgress, NEW b \in Builds, NEW k \in Runs, AnyRunStep(b, k),
           completed[b][k] = Steps
    PROVE  UNCHANGED stepVars
<1>1. ASSUME NEW i \in Steps PROVE run[b][k] \notin {Before(i), Inside(i)}
    <2>1. i \notin Below(i)
        BY DEF Below, Steps
    <2> QED
        BY <2>1 DEF FarmProgress, Progress
<1> QED
    BY <1>1 DEF AnyRunStep, RunStep, Resolve, Start, BeginStep, EscapingError, StepDone, StepFails,
        StepRowGone, Fails, Succeeds, Link, Return, Raise, WriteRefused, CrashRun

\* What a run has completed stays, until its build is deleted.
LEMMA SettledStays ==
    ASSUME TypeOK, FarmShape, FarmProgress, [Next]_vars, NEW c \in Builds, Settled(c), Exists(c)'
    PROVE  Settled(c)'
<1>1. PICK j \in Runs : completed[c][j] = Steps /\ Done(c, j)
    BY DEF Settled
<1>2. CASE UNCHANGED stepVars
    BY <1>2 DEF Settled, Done, stepVars
<1>3. ASSUME NEW b \in Builds, Request(b) \/ MakerStep(b) \/ CreateDies(b) \/ Cancel(b)
                              \/ ClaimJob(b) \/ LeaseLost(b)
      PROVE  UNCHANGED stepVars
    BY <1>3 DEF Request, Rebuild, CreateRow, CheckCancel, CheckDelete, MakerStep, LogRequest,
        EnqueueJob, CreateDies, Cancel, ClaimJob, LeaseLost
<1>4. ASSUME NEW b \in Builds, Delete(b) PROVE Settled(c)'
    <2>1. c # b
        BY <1>4 DEF Delete, TypeOK, Exists
    <2> QED
        BY <1>4, <2>1 DEF Delete, TypeOK, Settled, Done
<1>7. ASSUME NEW b \in Builds, NEW k \in Runs, AnyRunStep(b, k) PROVE Settled(c)'
    <2>1. CASE c # b \/ j # k
        BY <1>1, <1>7, <2>1, OtherSteps DEF Settled, Done
    <2>2. CASE c = b /\ j = k
        BY <1>1, <1>2, <1>7, <2>2, CompletedRests
    <2> QED
        BY <2>1, <2>2
<1> QED
    BY <1>2, <1>3, <1>4, <1>7 DEF Next, AnyRunStep, vars

\* Only a run that has completed its steps writes "success", or its build's
\* name into the artifacts.
LEMMA Earns ==
    ASSUME TypeOK, FarmShape, FarmProgress, [Next]_vars, NEW c \in Builds, Exists(c)',
           \/ status'[c] = "success" /\ status[c] # "success"
           \/ producer' = c /\ ~(producer = c /\ Exists(c))
    PROVE  Settled(c)'
<1>1. ASSUME NEW b \in Builds,
             Request(b) \/ MakerStep(b) \/ CreateDies(b) \/ Cancel(b) \/ Delete(b)
      PROVE  FALSE
    <2>1. producer' = producer /\ (producer = c => Exists(c))
        BY <1>1 DEF Request, Rebuild, CreateRow, CheckCancel, CheckDelete, MakerStep, LogRequest,
            EnqueueJob, CreateDies, Cancel, Delete, TypeOK, FarmShape, MakerShape, Exists
    <2>2. status'[c] # "success" \/ status[c] = "success"
        BY <1>1 DEF Request, Rebuild, CreateRow, CheckCancel, CheckDelete, MakerStep, LogRequest,
            EnqueueJob, CreateDies, Cancel, Delete, TypeOK
    <2> QED
        BY <2>1, <2>2
<1>2. ASSUME NEW b \in Builds, ClaimJob(b) \/ LeaseLost(b) PROVE FALSE
    BY <1>2 DEF ClaimJob, LeaseLost, Exists
<1>3. ASSUME NEW b \in Builds, NEW k \in Runs, AnyRunStep(b, k) PROVE Settled(c)'
    <2>1. c = b /\ Exists(b)
        BY <1>3, RunEffect DEF Exists
    <2>2. Succeeds(b, k) \/ Link(b, k)
        BY <1>3, <2>1, Written DEF AnyRunStep, RunStep, Resolve, Start, BeginStep, EscapingError,
            StepDone, StepFails, StepRowGone, Fails, Return, Raise, WriteRefused, CrashRun, TypeOK,
            Status, Terminal
    <2>3. Done(b, k) /\ completed[b][k] = Steps
        BY <2>1, <2>2 DEF Succeeds, Link, FarmProgress, Progress
    <2>4. UNCHANGED stepVars
        BY <2>2 DEF Succeeds, Link
    <2> QED
        BY <2>1, <2>3, <2>4 DEF Settled, Done, stepVars
<1> QED
    BY <1>1, <1>2, <1>3 DEF Next, AnyRunStep, vars, Exists

LEMMA FarmProgresses == Spec => [](TypeOK /\ FarmShape /\ FarmProgress)
<1>1. Init => FarmProgress
    BY DEF Init, FarmProgress, Progress, NoSteps, Exists, At, Before, Inside
<1> QED
    BY <1>1, ProgressStep, FarmShapes, PTL DEF Spec

\* Of a build that is reported successful every step's result was successful in
\* one run, and so it was of the build the artifacts name as their producer: even
\* with several runs of a build at once, cancellations, deletions, crashes and
\* refused updates, and whatever the rows of its steps say.
THEOREM EarnedSuccess == Spec => []SuccessIsEarned
<1>1. Init => EarnedInv
    BY FarmAssumption DEF Init, EarnedInv
<1>2. TypeOK /\ FarmShape /\ FarmProgress /\ EarnedInv /\ [Next]_vars => EarnedInv'
    <2> SUFFICES ASSUME TypeOK, FarmShape, FarmProgress, EarnedInv, [Next]_vars, NEW c \in Builds,
                        status'[c] = "success" \/ (producer' = c /\ Exists(c)')
                 PROVE  Settled(c)'
        BY DEF EarnedInv, Exists
    <2>1. Exists(c)'
        BY DEF Exists
    <2>2. CASE status[c] = "success" \/ (producer = c /\ Exists(c))
        BY <2>1, <2>2, SettledStays DEF EarnedInv
    <2>3. CASE ~(status[c] = "success" \/ (producer = c /\ Exists(c)))
        BY <2>1, <2>3, Earns
    <2> QED
        BY <2>2, <2>3
<1>3. TypeOK /\ EarnedInv => SuccessIsEarned
    <2> SUFFICES ASSUME TypeOK, EarnedInv PROVE SuccessIsEarned
        OBVIOUS
    <2>1. ASSUME NEW b \in Builds, Settled(b) PROVE Earned(b)
        BY <2>1 DEF Settled, Earned, Done
    <2> QED
        BY <2>1 DEF EarnedInv, SuccessIsEarned, TypeOK
<1> QED
    BY <1>1, <1>2, <1>3, FarmProgresses, PTL DEF Spec

(***************************************************************************)
(* The build_jobs rows, when the database enforces foreign keys.           *)
(***************************************************************************)
LEMMA OrphanStep ==
    ASSUME ForeignKeys, TypeOK, FarmShape, FarmProgress, NoOrphanSteps, [Next]_vars
    PROVE  NoOrphanSteps'
<1> SUFFICES ASSUME NEW c \in Builds, status'[c] = "gone", NEW j \in Runs, NEW n \in Steps
             PROVE  steps'[c][j][n] = "none"
    BY DEF NoOrphanSteps
<1>1. CASE UNCHANGED vars
    BY <1>1 DEF NoOrphanSteps, vars, stepVars
<1>2. ASSUME NEW b \in Builds, Request(b) \/ MakerStep(b) \/ CreateDies(b) \/ Cancel(b)
      PROVE  UNCHANGED steps /\ status[c] = "gone"
    BY <1>2 DEF Request, Rebuild, CreateRow, CheckCancel, CheckDelete, MakerStep, LogRequest,
        EnqueueJob, CreateDies, Cancel, TypeOK, Exists, stepVars
<1>3. ASSUME NEW b \in Builds, Delete(b) PROVE steps'[c][j][n] = "none"
    BY <1>3 DEF Delete, TypeOK, NoOrphanSteps
<1>4. ASSUME NEW b \in Builds, ClaimJob(b) \/ LeaseLost(b)
      PROVE  UNCHANGED steps /\ status[c] = "gone"
    BY <1>4 DEF ClaimJob, LeaseLost, stepVars
<1>5. ASSUME NEW b \in Builds, NEW k \in Runs, AnyRunStep(b, k)
      PROVE  steps'[c][j][n] = "none"
    <2>1. status[c] = "gone"
        <3>1. c = b => ~Exists(b)
            BY <1>5, RunEffect DEF Exists
        <3> QED
            BY <1>5, <3>1, RunEffect
    <2>2. CASE c # b
        BY <1>5, <2>1, <2>2, OtherSteps DEF NoOrphanSteps
    <2>3. CASE c = b
        <3>1. UNCHANGED steps
            BY <1>5, <2>1, <2>3 DEF AnyRunStep, RunStep, Resolve, Start, BeginStep, EscapingError,
                StepDone, StepFails, StepRowGone, Fails, Succeeds, Link, Return, Raise,
                WriteRefused, CrashRun, NoOrphanSteps, Exists, stepVars
        <3> QED
            BY <2>1, <3>1 DEF NoOrphanSteps
    <2> QED
        BY <2>2, <2>3
<1> QED
    BY <1>1, <1>2, <1>3, <1>4, <1>5 DEF Next, AnyRunStep, NoOrphanSteps

\* A deleted build keeps no build_jobs rows: not even a run that goes on
\* after the deletion adds one.
THEOREM OrphansGone ==
    ASSUME ForeignKeys
    PROVE  Spec => []NoOrphanSteps
<1>1. Init => NoOrphanSteps
    BY DEF Init, NoOrphanSteps
<1>2. TypeOK /\ FarmShape /\ FarmProgress /\ NoOrphanSteps /\ [Next]_vars => NoOrphanSteps'
    BY OrphanStep
<1> QED
    BY <1>1, <1>2, FarmProgresses, PTL DEF Spec

\* What a run may record about a step, and what it has recorded by then.
LEMMA StepWrite ==
    ASSUME ForeignKeys, TypeOK, FarmShape, FarmProgress, NoOrphanSteps,
           NEW b \in Builds, NEW k \in Runs, AnyRunStep(b, k)
    PROVE  \/ UNCHANGED steps
           \/ \E i \in Steps, s \in StepStatus :
                /\ steps' = [steps EXCEPT ![b][k][i] = s]
                /\ s # "none"
                /\ UpTo(b, k, i)
                /\ completed[b][k] = Below(i)
<1>1. ASSUME NEW i \in Steps, BeginStep(b, k, i), ~UNCHANGED steps
      PROVE  /\ UpTo(b, k, i) /\ completed[b][k] = Below(i)
             /\ steps' = [steps EXCEPT ![b][k][i] = "running"]
    BY <1>1 DEF BeginStep, FarmProgress, Progress
<1>2. ASSUME NEW i \in Steps, StepDone(b, k, i) \/ StepFails(b, k, i)
      PROVE  /\ UpTo(b, k, i) /\ completed[b][k] = Below(i)
             /\ \E s \in {"running", "success", "failed"} : steps' = [steps EXCEPT ![b][k][i] = s]
    <2>1. run[b][k] = Inside(i) /\ steps[b][k][i] = "running"
        BY <1>2 DEF StepDone, StepFails
    <2>2. status[b] # "gone"
        BY <2>1 DEF NoOrphanSteps
    <2>3. run[b][k] # At("none")
        BY <2>1 DEF At, Inside
    <2>4. status[b] # "absent"
        BY <2>3 DEF FarmShape, MakerShape, Runs
    <2> QED
        BY <1>2, <2>1, <2>2, <2>4 DEF StepDone, StepFails, FarmProgress, Progress, Exists
<1> QED
    BY <1>1, <1>2 DEF AnyRunStep, RunStep, Resolve, Start, EscapingError, StepRowGone, Fails,
        Succeeds, Link, Return, Raise, WriteRefused, CrashRun, StepStatus, stepVars

\* A step is not counted without being recorded, and stays counted.
LEMMA Unrecorded ==
    ASSUME TypeOK, NEW b \in Builds, NEW k \in Runs, AnyRunStep(b, k), UNCHANGED steps
    PROVE  UNCHANGED stepVars
<1>1. ASSUME NEW i \in Steps PROVE ~StepDone(b, k, i)
    BY DEF StepDone, TypeOK
<1> QED
    BY <1>1 DEF AnyRunStep, RunStep, Resolve, Start, BeginStep, EscapingError, StepFails,
        StepRowGone, Fails, Succeeds, Link, Return, Raise, WriteRefused, CrashRun, stepVars

LEMMA CountedOn ==
    ASSUME TypeOK, NEW b \in Builds, NEW k \in Runs, AnyRunStep(b, k)
    PROVE  \A c \in Builds, j \in Runs : completed[c][j] \subseteq completed'[c][j]
<1>1. CASE \E i \in Steps : StepDone(b, k, i)
    BY <1>1, Counted DEF StepDone, TypeOK
<1> QED
    BY <1>1 DEF AnyRunStep, RunStep, Resolve, Start, BeginStep, EscapingError, StepFails,
        StepRowGone, Fails, Succeeds, Link, Return, Raise, WriteRefused, CrashRun, stepVars

\* Every run records its steps one at a time, in the order of the plan.
THEOREM StepsOrdered ==
    ASSUME ForeignKeys
    PROVE  Spec => []StepsInOrder
<1>1. Init => StepsInOrder
    BY DEF Init, StepsInOrder
<1>2. TypeOK /\ FarmShape /\ FarmProgress /\ NoOrphanSteps /\ StepsInOrder /\ [Next]_vars
        => StepsInOrder'
    <2> SUFFICES ASSUME TypeOK, FarmShape, FarmProgress, NoOrphanSteps, StepsInOrder, [Next]_vars
                 PROVE  StepsInOrder'
        OBVIOUS
    <2>1. CASE UNCHANGED stepVars
        BY <2>1 DEF StepsInOrder, stepVars
    <2>2. ASSUME NEW b \in Builds, Delete(b) PROVE StepsInOrder'
        BY <2>2 DEF Delete, TypeOK, StepsInOrder
    <2>5. ASSUME NEW b \in Builds, NEW k \in Runs, AnyRunStep(b, k), UNCHANGED steps
          PROVE  UNCHANGED stepVars
        BY <2>5, Unrecorded
    <2>3. ASSUME NEW b \in Builds, NEW k \in Runs, AnyRunStep(b, k), ~UNCHANGED steps
          PROVE  StepsInOrder'
        <3>1. PICK i \in Steps, s \in StepStatus :
                /\ steps' = [steps EXCEPT ![b][k][i] = s]
                /\ s # "none"
                /\ UpTo(b, k, i)
                /\ completed[b][k] = Below(i)
            BY <2>3, StepWrite
        <3>2. /\ steps'[b][k][i] = s
              /\ \A c \in Builds, j \in Runs, n \in Steps :
                    c # b \/ j # k \/ n # i => steps'[c][j][n] = steps[c][j][n]
            BY <3>1, Recorded DEF TypeOK
        <3>6. \A c \in Builds, j \in Runs : completed[c][j] \subseteq completed'[c][j]
            BY <2>3, CountedOn
        <3> SUFFICES ASSUME NEW c \in Builds, NEW j \in Runs, NEW n \in Steps, n > 1,
                            steps'[c][j][n] # "none"
                     PROVE  /\ steps'[c][j][n - 1] = "success"
                            /\ n - 1 \in completed'[c][j]
            BY DEF StepsInOrder
        <3>3. n - 1 \in Steps
            BY FarmAssumption DEF Steps
        <3>4. CASE c = b /\ j = k
            <4>1. n <= i
                BY <3>1, <3>2, <3>4 DEF UpTo, Steps
            <4>2. n - 1 \in Below(i) /\ n - 1 # i
                BY <3>3, <4>1 DEF Below, Steps
            <4>3. steps[b][k][n - 1] = "success"
                BY <3>1, <4>2 DEF UpTo, Below
            <4> QED
                BY <3>1, <3>2, <3>3, <3>4, <3>6, <4>2, <4>3
        <3>5. CASE c # b \/ j # k
            BY <3>2, <3>3, <3>5, <3>6 DEF StepsInOrder
        <3> QED
            BY <3>4, <3>5
    <2>4. ASSUME NEW b \in Builds, \/ Request(b) \/ MakerStep(b) \/ CreateDies(b) \/ Cancel(b)
                                   \/ ClaimJob(b) \/ LeaseLost(b)
          PROVE  UNCHANGED stepVars
        BY <2>4 DEF Request, Rebuild, CreateRow, CheckCancel, CheckDelete, MakerStep, LogRequest,
            EnqueueJob, CreateDies, Cancel, ClaimJob, LeaseLost
    <2> QED
        BY <2>1, <2>2, <2>3, <2>4, <2>5 DEF Next, AnyRunStep, vars
<1> QED
    BY <1>1, <1>2, FarmProgresses, OrphansGone, PTL DEF Spec

(***************************************************************************)
(* Builds the queue is done with.                                          *)
(***************************************************************************)
Muted == {At("mute"), At("raised"), At("crashed")}

\* Some run will still write the status, or end mute.
Undecided == Working \ {At("link"), At("return")}

Settling(b) ==
    \/ tries[b] = 0
    \/ status[b] \in Terminal \cup {"gone"}
    \/ \E k \in Runs : run[b][k] \in Muted \cup Undecided

\* A run that takes a step is undecided still, has decided, or ends mute.
LEMMA Settles ==
    ASSUME TypeOK, FarmShape, NEW b \in Builds, NEW k \in Runs, AnyRunStep(b, k)
    PROVE  \/ run'[b][k] \in Muted \cup Undecided
           \/ status'[b] \in Terminal \cup {"gone"}
           \/ run[b][k] \in {At("link"), At("return")} /\ UNCHANGED status
<1>1. ASSUME NEW p \in Place, Go(b, k, p) PROVE run'[b][k] = p
    BY <1>1, Moved DEF TypeOK, Place
<1>2. /\ \A i \in Steps : Before(i) \in Undecided /\ Inside(i) \in Undecided
      /\ \A name \in {"start", "fails", "succeeds", "linkMute", "returnMute", "raise"} :
            At(name) \in Undecided
    BY Places DEF Undecided, At, Before, Inside
<1>3. Undecided \subseteq Place /\ Muted \subseteq Place
    BY Places DEF Undecided, Muted, Ended
<1>4. CASE Resolve(b, k) \/ Start(b, k) \/ WriteRefused(b, k)
    BY <1>1, <1>2, <1>3, <1>4, FarmAssumption DEF Resolve, Start, WriteRefused, AfterLink, Steps
<1>5. CASE \E i \in Steps : BeginStep(b, k, i) \/ EscapingError(b, k, i) \/ StepFails(b, k, i)
                            \/ StepRowGone(b, k, i)
    BY <1>1, <1>2, <1>3, <1>5 DEF BeginStep, EscapingError, StepFails, StepRowGone
<1>6. ASSUME NEW i \in Steps, StepDone(b, k, i) PROVE run'[b][k] \in Undecided
    <2>1. i # NSteps => i + 1 \in Steps
        BY FarmAssumption DEF Steps
    <2> QED
        BY <1>1, <1>2, <1>3, <1>6, <2>1 DEF StepDone
<1>7. CASE Fails(b, k) \/ Succeeds(b, k)
    <2>1. run[b][k] # At("none")
        BY <1>7 DEF Fails, Succeeds, At
    <2>2. status[b] # "absent"
        BY <2>1 DEF FarmShape, MakerShape, Runs
    <2> QED
        BY <1>7, <2>2, Written DEF Fails, Succeeds, Exists, TypeOK, Status, Terminal
<1>8. CASE Link(b, k)
    BY <1>1, <1>2, <1>3, <1>8 DEF Link, AfterLink
<1>9. CASE Return(b, k)
    BY <1>1, <1>3, <1>9 DEF Return, Muted
<1>10. CASE Raise(b, k) \/ CrashRun(b, k)
    BY <1>1, <1>3, <1>10 DEF Raise, CrashRun, Muted
<1> QED
    BY <1>4, <1>5, <1>6, <1>7, <1>8, <1>9, <1>10 DEF AnyRunStep, RunStep

LEMMA SettlingStep ==
    ASSUME TypeOK, FarmShape, [Next]_vars, NEW c \in Builds, Settling(c)
    PROVE  Settling(c)'
<1>1. CASE UNCHANGED vars
    BY <1>1 DEF Settling, vars, jobVars
<1>2. ASSUME NEW b \in Builds,
             Request(b) \/ MakerStep(b) \/ CreateDies(b) \/ Cancel(b) \/ Delete(b)
      PROVE  Settling(c)'
    <2>1. UNCHANGED <<run, tries>>
        BY <1>2, ApiEffect
    <2>2. tries[c] = 0 \/ (status[c] \in Terminal \cup {"gone"} =>
                            status'[c] \in Terminal \cup {"gone"})
        BY <1>2 DEF Request, Rebuild, CreateRow, CheckCancel, CheckDelete, MakerStep, LogRequest,
            EnqueueJob, CreateDies, Cancel, Delete, TypeOK, Terminal, FarmShape, MakerShape
    <2> QED
        BY <2>1, <2>2 DEF Settling
<1>3. ASSUME NEW b \in Builds, ClaimJob(b) PROVE Settling(c)'
    <2>1. At("resolve") \in Undecided /\ At("none") \notin Muted \cup Undecided
        BY Places DEF Undecided, Muted, At
    <2>2. CASE c = b
        BY <1>3, <2>1, <2>2, ClaimEffect DEF Settling
    <2>3. CASE c # b
        <3>1. tries'[c] = tries[c] /\ status'[c] = status[c]
              /\ \A j \in Runs : run'[c][j] = run[c][j]
            BY <1>3, <2>3, ClaimEffect DEF TypeOK
        <3> QED
            BY <3>1 DEF Settling
    <2> QED
        BY <2>2, <2>3
<1>4. ASSUME NEW b \in Builds, LeaseLost(b) PROVE Settling(c)'
    BY <1>4 DEF LeaseLost, Settling
<1>5. ASSUME NEW b \in Builds, NEW k \in Runs, AnyRunStep(b, k) PROVE Settling(c)'
    <2>1. CASE c # b
        BY <1>5, <2>1, OtherSteps, RunEffect DEF Settling
    <2>2. CASE c = b
        <3>1. run[b][k] \in Working /\ tries[b] # 0
            BY <1>5, RunMoves, Places DEF FarmShape, MakerShape, Runs
        <3>2. CASE run[b][k] \in {At("link"), At("return")} /\ UNCHANGED status
            <4>1. run[b][k] \notin Muted \cup Undecided
                BY <3>2 DEF Muted, Undecided, At
            <4> QED
                BY <1>5, <2>2, <3>1, <3>2, <4>1, OtherSteps DEF Settling
        <3>3. CASE \/ run'[b][k] \in Muted \cup Undecided
                   \/ status'[b] \in Terminal \cup {"gone"}
            BY <2>2, <3>3 DEF Settling
        <3> QED
            BY <1>5, <3>2, <3>3, Settles
    <2> QED
        BY <2>1, <2>2
<1> QED
    BY <1>1, <1>2, <1>3, <1>4, <1>5 DEF Next, AnyRunStep

\* When the queue is done with a build, its status is decided or some run of
\* it ended without being able to say so.
THEOREM IdleDecided == Spec => []IdleIsDecided
<1> DEFINE AllSettling == \A b \in Builds : Settling(b)
<1>1. Init => AllSettling
    BY DEF Init, Settling
<1>2. TypeOK /\ FarmShape /\ AllSettling /\ [Next]_vars => AllSettling'
    BY SettlingStep
<1>3. TypeOK /\ FarmShape /\ AllSettling => IdleIsDecided
    <2> SUFFICES ASSUME FarmShape, AllSettling, NEW b \in Builds, Idle(b)
                 PROVE  status[b] \in Terminal \cup {"gone"} \/ Mute(b)
        BY DEF IdleIsDecided
    <2>1. tries[b] # 0
        BY DEF Idle, FarmShape, MakerShape
    <2>2. \A k \in Runs : run[b][k] \notin Undecided
        BY DEF Idle, Live, Undecided
    <2>3. \A k \in Runs : run[b][k] \in Muted => Mute(b)
        BY DEF Muted, Mute, At
    <2> QED
        BY <2>1, <2>2, <2>3 DEF Settling
<1> QED
    BY <1>1, <1>2, <1>3, FarmShapes, PTL DEF Spec

(***************************************************************************)
(* The life cycle of the job, when leases outlast their runs.              *)
(***************************************************************************)
JobInv == \A b \in Builds :
    /\ \A k \in Runs : run[b][k] \in Working => job[b] = "running" /\ k = tries[b]
    /\ job[b] = "queued" => tries[b] < MaxAttempts

\* What a step does to the job of a build: a claim, or the verdict on the
\* attempt that is running.
JobMove(b) ==
    \/ UNCHANGED <<job[b], tries[b]>>
    \/ job[b] = "absent" /\ job'[b] = "queued" /\ tries'[b] = tries[b] /\ tries[b] = 0
    \/ job[b] = "queued" /\ job'[b] = "running" /\ tries'[b] = tries[b] + 1
    \/ /\ job[b] = "running" /\ tries'[b] = tries[b]
       /\ job'[b] \in {"success", AfterAttempt(tries[b])}

LEMMA JobMoves ==
    ASSUME TypeOK, FarmShape, JobInv, [Next]_vars, NEW c \in Builds
    PROVE  JobMove(c)
<1>1. CASE UNCHANGED vars
    BY <1>1 DEF JobMove, vars, jobVars
<1>2. ASSUME NEW b \in Builds,
             Request(b) \/ MakerStep(b) \/ CreateDies(b) \/ Cancel(b) \/ Delete(b)
      PROVE  JobMove(c)
    BY <1>2 DEF Request, Rebuild, CreateRow, CheckCancel, CheckDelete, MakerStep, LogRequest,
        EnqueueJob, CreateDies, Cancel, Delete, TypeOK, FarmShape, MakerShape, JobMove, jobVars
<1>3. ASSUME NEW b \in Builds, ClaimJob(b) PROVE JobMove(c)
    BY <1>3, ClaimEffect DEF JobMove, TypeOK
<1>4. ASSUME NEW b \in Builds, LeaseLost(b) PROVE JobMove(c)
    BY <1>4 DEF JobMove, LeaseLost, TypeOK
<1>5. ASSUME NEW b \in Builds, NEW k \in Runs, AnyRunStep(b, k) PROVE JobMove(c)
    <2>1. CASE c # b
        BY <1>5, <2>1, RunEffect DEF JobMove
    <2>2. CASE c = b
        <3>1. job[b] = "running" /\ k = tries[b] /\ tries[b] \in Nat
            BY <1>5, RunMoves DEF JobInv, TypeOK
        <3>2. UNCHANGED tries
            BY <1>5, RunEffect
        <3>3. job' = job \/ job' = [job EXCEPT ![b] = "success"]
              \/ job' = [job EXCEPT ![b] = AfterAttempt(tries[b])]
            <4>1. k .. tries[b] = {tries[b]}
                BY <3>1
            <4> QED
                BY <1>5, <4>1 DEF AnyRunStep, RunStep, Resolve, Start, BeginStep, EscapingError,
                    StepDone, StepFails, StepRowGone, Fails, Succeeds, Link, Return, Raise,
                    WriteRefused, CrashRun, jobVars
        <3> QED
            BY <2>2, <3>1, <3>2, <3>3 DEF JobMove, TypeOK
    <2> QED
        BY <2>1, <2>2
<1> QED
    BY <1>1, <1>2, <1>3, <1>4, <1>5 DEF Next, AnyRunStep

\* Only the attempt a job counts is running, and while it runs so does the job.
LEMMA AttemptsHeld ==
    ASSUME ~Overrun, TypeOK, FarmShape, JobInv, [Next]_vars, NEW c \in Builds, NEW j \in Runs,
           run'[c][j] \in Working
    PROVE  job'[c] = "running" /\ j = tries'[c]
<1>1. CASE UNCHANGED vars
    BY <1>1 DEF JobInv, vars, jobVars
<1>2. ASSUME NEW b \in Builds,
             Request(b) \/ MakerStep(b) \/ CreateDies(b) \/ Cancel(b) \/ Delete(b)
      PROVE  job'[c] = "running" /\ j = tries'[c]
    <2>1. run' = run
        BY <1>2, ApiEffect
    <2>2. job[c] = "running" /\ j = tries[c]
        BY <2>1 DEF JobInv
    <2> QED
        BY <1>2, <2>2 DEF Request, Rebuild, CreateRow, CheckCancel, CheckDelete, MakerStep, LogRequest,
            EnqueueJob, CreateDies, Cancel, Delete, TypeOK, FarmShape, MakerShape, jobVars
<1>3. ASSUME NEW b \in Builds, ClaimJob(b) PROVE job'[c] = "running" /\ j = tries'[c]
    <2>1. CASE c = b
        BY <1>3, <2>1, ClaimEffect DEF JobInv, TypeOK
    <2>2. CASE c # b
        BY <1>3, <2>2, ClaimEffect DEF JobInv, TypeOK
    <2> QED
        BY <2>1, <2>2
<1>4. ASSUME NEW b \in Builds, LeaseLost(b) PROVE job'[c] = "running" /\ j = tries'[c]
    BY <1>4 DEF LeaseLost, Live, JobInv, TypeOK
<1>5. ASSUME NEW b \in Builds, NEW k \in Runs, AnyRunStep(b, k)
      PROVE  job'[c] = "running" /\ j = tries'[c]
    <2>1. run[b][k] \in Working /\ job[b] = "running" /\ k = tries[b] /\ UNCHANGED tries
        BY <1>5, RunMoves, RunEffect DEF JobInv
    <2>2. run[c][j] \in Working
        BY <1>5, <2>1, OtherSteps
    <2>3. CASE c # b
        BY <1>5, <2>1, <2>2, <2>3, RunEffect DEF JobInv
    <2>4. CASE c = b
        <3>1. j = k
            BY <2>1, <2>2, <2>4 DEF JobInv
        <3>2. ~Return(b, k) /\ ~Raise(b, k)
            <4>1. \A name \in {"over", "mute", "raised"} : At(name) \in Place \ Working
                BY Places
            <4> QED
                BY <2>4, <3>1, <4>1, Moved DEF Return, Raise, TypeOK, Place
        <3>3. UNCHANGED job
            BY <1>5, <3>2 DEF AnyRunStep, RunStep, Resolve, Start, BeginStep, EscapingError,
                StepDone, StepFails, StepRowGone, Fails, Succeeds, Link, WriteRefused, CrashRun,
                jobVars
        <3> QED
            BY <2>1, <2>4, <3>1, <3>3
    <2> QED
        BY <2>3, <2>4
<1> QED
    BY <1>1, <1>2, <1>3, <1>4, <1>5 DEF Next, AnyRunStep

LEMMA JobHeld ==
    ASSUME ~Overrun, TypeOK, FarmShape, JobInv, [Next]_vars
    PROVE  JobInv'
<1> SUFFICES ASSUME NEW b \in Builds, job'[b] = "queued"
             PROVE  tries'[b] < MaxAttempts
    BY AttemptsHeld DEF JobInv
<1>1. JobMove(b)
    BY JobMoves
<1> QED
    BY <1>1, FarmAssumption DEF JobMove, JobInv, AfterAttempt, TypeOK

\* Of a build reported successful the job has succeeded, or its run only has
\* the artifacts to link, or a run crashed that late.
Reported(b) == status[b] = "success" =>
    \/ CrashedLate(b)
    \/ job[b] = "success"
    \/ /\ job[b] = "running" /\ tries[b] \in Runs
       /\ run[b][tries[b]] \in {At("link"), At("return")}
       /\ completed[b][tries[b]] = Steps

HeldInv == JobInv /\ \A b \in Builds : Reported(b)

\* A run that crashed with all its steps completed stays so.
LEMMA LateStays ==
    ASSUME TypeOK, FarmShape, [Next]_vars, NEW c \in Builds, CrashedLate(c)
    PROVE  CrashedLate(c)'
<1>1. PICK j \in Runs : run[c][j] = At("crashed") /\ completed[c][j] = Steps
    BY DEF CrashedLate
<1>2. CASE UNCHANGED <<run, completed>>
    BY <1>2 DEF CrashedLate
<1>3. ASSUME NEW b \in Builds,
             Request(b) \/ MakerStep(b) \/ CreateDies(b) \/ Cancel(b) \/ Delete(b) \/ LeaseLost(b)
      PROVE  UNCHANGED <<run, completed>>
    BY <1>3 DEF Request, Rebuild, CreateRow, CheckCancel, CheckDelete, MakerStep, LogRequest,
        EnqueueJob, CreateDies, Cancel, Delete, LeaseLost, stepVars
<1>4. ASSUME NEW b \in Builds, ClaimJob(b) PROVE CrashedLate(c)'
    <2>1. c # b \/ j # tries[b] + 1
        BY <1>1, <1>4, ClaimEffect DEF At
    <2> QED
        <3>1. run'[c][j] = run[c][j] /\ UNCHANGED stepVars
            BY <1>4, <2>1, ClaimEffect
        <3> QED
            BY <1>1, <3>1 DEF CrashedLate, stepVars
<1>5. ASSUME NEW b \in Builds, NEW k \in Runs, AnyRunStep(b, k) PROVE CrashedLate(c)'
    <2>1. c # b \/ j # k
        BY <1>1, <1>5, RunMoves, Places
    <2> QED
        BY <1>1, <1>5, <2>1, OtherSteps DEF CrashedLate
<1> QED
    BY <1>2, <1>3, <1>4, <1>5 DEF Next, AnyRunStep, vars, stepVars

\* A step of a run of a build that is reported successful, or reports it so.
LEMMA ReportedByRun ==
    ASSUME TypeOK, FarmShape, FarmProgress, HeldInv, NEW b \in Builds, NEW k \in Runs,
           AnyRunStep(b, k), ~CrashedLate(b)
    PROVE  /\ status[b] = "success" => status'[b] = "success"
           /\ Reported(b)'
<1>1. run[b][k] \in Working /\ job[b] = "running" /\ k = tries[b] /\ tries'[b] = tries[b]
    BY RunMoves, RunEffect DEF HeldInv, JobInv
<1>2. ASSUME NEW p \in Place, Go(b, k, p) PROVE run'[b][k] = p
    BY <1>2, Moved DEF TypeOK, Place
<1>3. CASE run[b][k] \in {At("link"), At("return")}
    <2>1. Link(b, k) \/ Return(b, k) \/ WriteRefused(b, k) \/ CrashRun(b, k)
        <3>1. /\ \A i \in Steps : run[b][k] \notin {Before(i), Inside(i)}
              /\ run[b][k] \notin {At("resolve"), At("start"), At("fails"), At("succeeds"),
                                   At("raise")}
            BY <1>3 DEF At, Before, Inside
        <3> QED
            BY <3>1 DEF AnyRunStep, RunStep, Resolve, Start, BeginStep, EscapingError, StepDone,
                StepFails, StepRowGone, Fails, Succeeds, Raise
    <2>2. UNCHANGED <<status, completed>>
        BY <2>1 DEF Link, Return, WriteRefused, CrashRun, stepVars
    <2>3. CASE Link(b, k) \/ WriteRefused(b, k)
        <3>1. run'[b][k] = At("return")
            BY <1>2, <1>3, <2>3, Places DEF Link, WriteRefused, AfterLink, At
        <3>2. job' = job
            BY <2>3 DEF Link, WriteRefused, jobVars
        <3>3. status[b] = "success" => completed[b][k] = Steps
            BY <1>1 DEF HeldInv, Reported
        <3> QED
            BY <1>1, <2>2, <3>1, <3>2, <3>3 DEF Reported
    <2>4. CASE Return(b, k)
        BY <2>2, <2>4 DEF Return, Reported, TypeOK
    <2>5. CASE CrashRun(b, k)
        <3>1. run'[b][k] = At("crashed")
            BY <1>2, <2>5, Places DEF CrashRun
        <3>2. status[b] = "success" => completed[b][k] = Steps
            BY <1>1 DEF HeldInv, Reported
        <3> QED
            BY <2>2, <3>1, <3>2 DEF Reported, CrashedLate
    <2> QED
        BY <2>1, <2>3, <2>4, <2>5
<1>4. CASE run[b][k] \notin {At("link"), At("return")}
    <2>1. status[b] # "success"
        BY <1>1, <1>4 DEF HeldInv, Reported
    <2>2. CASE Succeeds(b, k)
        <3>1. completed'[b][k] = Steps /\ run'[b][k] = At("link") /\ job' = job
            BY <1>2, <2>2, Places DEF Succeeds, FarmProgress, Progress, stepVars, jobVars
        <3> QED
            BY <1>1, <2>1, <3>1 DEF Reported
    <2>3. CASE ~Succeeds(b, k)
        <3>1. status'[b] # "success"
            BY <2>1, <2>3, Written DEF AnyRunStep, RunStep, Resolve, Start, BeginStep, EscapingError,
                StepDone, StepFails, StepRowGone, Fails, Link, Return, Raise, WriteRefused, CrashRun,
                TypeOK, Status, Terminal
        <3> QED
            BY <2>1, <3>1 DEF Reported
    <2> QED
        BY <2>2, <2>3
<1> QED
    BY <1>3, <1>4

\* Only a request of a user, or a run after a late crash, takes "success" back.
LEMMA SuccessHeld ==
    ASSUME ~Overrun, TypeOK, FarmShape, FarmProgress, HeldInv, [Next]_vars, NEW c \in Builds
    PROVE  /\ Reported(c)'
           /\ status[c] = "success" /\ status'[c] # "success"
                => intent[c] # {} \/ CrashedLate(c)
<1>1. CASE CrashedLate(c)
    BY <1>1, LateStays DEF Reported
<1>2. CASE UNCHANGED vars
    BY <1>2 DEF HeldInv, Reported, CrashedLate, vars, jobVars, stepVars
<1>3. ASSUME NEW b \in Builds,
             Request(b) \/ MakerStep(b) \/ CreateDies(b) \/ Cancel(b) \/ Delete(b), ~CrashedLate(c)
      PROVE  /\ Reported(c)'
             /\ status[c] = "success" /\ status'[c] # "success" => intent[c] # {}
    <2>1. UNCHANGED <<run, tries, completed>>
        BY <1>3, ApiEffect DEF Request, Rebuild, CreateRow, CheckCancel, CheckDelete, MakerStep,
            LogRequest, EnqueueJob, CreateDies, Cancel, Delete, stepVars
    <2>2. /\ status'[c] = "success" => status[c] = "success"
          /\ status[c] = "success" /\ status'[c] # "success" => intent[c] # {}
        BY <1>3 DEF Request, Rebuild, CreateRow, CheckCancel, CheckDelete, MakerStep, LogRequest,
            EnqueueJob, CreateDies, Cancel, Delete, TypeOK, FarmShape, MakerShape
    <2>3. job[c] \in {"running", "success"} => job'[c] = job[c]
        BY <1>3 DEF Request, Rebuild, CreateRow, CheckCancel, CheckDelete, MakerStep, LogRequest,
            EnqueueJob, CreateDies, Cancel, Delete, TypeOK, FarmShape, MakerShape, jobVars
    <2> QED
        BY <1>3, <2>1, <2>2, <2>3 DEF HeldInv, Reported
<1>4. ASSUME NEW b \in Builds, ClaimJob(b), ~CrashedLate(c)
      PROVE  Reported(c)' /\ status'[c] = status[c]
    <2>1. CASE c = b
        BY <1>4, <2>1, ClaimEffect DEF HeldInv, Reported
    <2>2. CASE c # b
        BY <1>4, <2>2, ClaimEffect DEF HeldInv, Reported, TypeOK, ClaimJob, stepVars
    <2> QED
        BY <2>1, <2>2
<1>5. ASSUME NEW b \in Builds, LeaseLost(b), ~CrashedLate(c)
      PROVE  Reported(c)' /\ status'[c] = status[c]
    <2>1. CASE c = b
        <3>1. \A k \in Runs : run[b][k] \notin Working
            BY <1>5 DEF LeaseLost, Live
        <3>2. status[c] # "success"
            BY <1>5, <2>1, <3>1, Places DEF HeldInv, Reported, LeaseLost
        <3> QED
            BY <1>5, <3>2 DEF LeaseLost, Reported
    <2>2. CASE c # b
        BY <1>5, <2>2 DEF LeaseLost, HeldInv, Reported, TypeOK, stepVars
    <2> QED
        BY <2>1, <2>2
<1>6. ASSUME NEW b \in Builds, NEW k \in Runs, AnyRunStep(b, k), ~CrashedLate(c)
      PROVE  Reported(c)' /\ (status[c] = "success" => status'[c] = "success")
    <2>1. CASE c = b
        BY <1>6, <2>1, ReportedByRun
    <2>2. CASE c # b
        <3>1. /\ status'[c] = status[c] /\ job'[c] = job[c] /\ tries' = tries
              /\ \A j \in Runs : run'[c][j] = run[c][j] /\ completed'[c][j] = completed[c][j]
            BY <1>6, <2>2, RunEffect, OtherSteps
        <3> QED
            BY <1>6, <2>2, <3>1 DEF HeldInv, Reported
    <2> QED
        BY <2>1, <2>2
<1> QED
    BY <1>1, <1>2, <1>3, <1>4, <1>5, <1>6 DEF Next, AnyRunStep, vars

\* The job of a build goes through the life cycle the queue promises.
THEOREM FarmRefinesLifecycle ==
    ASSUME ~Overrun
    PROVE  Spec => ImplementsLifecycle
<1>1. Init => JobInv /\ Lifecycle!Init
    BY Places DEF Init, JobInv, Lifecycle!Init
<1>2. TypeOK /\ FarmShape /\ JobInv /\ [Next]_vars => JobInv'
    BY JobHeld
<1>3. TypeOK /\ TypeOK' /\ FarmShape /\ JobInv /\ [Next]_vars
        => [Lifecycle!Next]_(Lifecycle!jobVars)
    <2> SUFFICES ASSUME TypeOK, TypeOK', FarmShape, JobInv, [Next]_vars
                 PROVE  Lifecycle!Next
        OBVIOUS
    <2>1. job' \in [Builds -> Lifecycle!JobStatus] /\ tries' \in [Builds -> Nat]
        BY FarmAssumption DEF TypeOK, Lifecycle!JobStatus
    <2>2. ASSUME NEW b \in Builds PROVE Lifecycle!Move(b) \/ Lifecycle!Stays(b)
        BY JobMoves, FarmAssumption DEF JobMove, JobInv, AfterAttempt, TypeOK, Lifecycle!Move,
            Lifecycle!Stays, Lifecycle!Submitted, Lifecycle!Started, Lifecycle!Finished,
            Lifecycle!Retried, Lifecycle!Terminal
    <2> QED
        BY <2>1, <2>2 DEF Lifecycle!Next
<1> QED
    BY <1>1, <1>2, <1>3, FarmShapes, FarmTypes, PTL DEF Spec, ImplementsLifecycle, Lifecycle!Spec

\* Within leases a build that is reported successful is not run again, with any
\* number of workers, failures and refused updates: "success" is only taken back
\* by a user's request, or after a worker crashed before it could report.
THEOREM SuccessStays ==
    ASSUME ~Overrun
    PROVE  Spec => SuccessStands
<1>1. Init => HeldInv
    BY Places DEF Init, HeldInv, JobInv, Reported
<1>2. TypeOK /\ FarmShape /\ FarmProgress /\ HeldInv /\ [Next]_vars => HeldInv'
    BY JobHeld, SuccessHeld DEF HeldInv
<1>3. TypeOK /\ FarmShape /\ FarmProgress /\ HeldInv /\ [Next]_vars =>
        [\A b \in Builds : status[b] = "success" /\ status'[b] # "success"
            => intent[b] # {} \/ CrashedLate(b)]_vars
    BY SuccessHeld
<1> QED
    BY <1>1, <1>2, <1>3, FarmProgresses, PTL DEF Spec, SuccessStands
=============================================================================
