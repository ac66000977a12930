--------------------------- MODULE JobQueueProofs ---------------------------
(***************************************************************************)
(* Proofs about JobQueue, for any number of jobs and workers, any tags,    *)
(* kinds and attempt budgets, and any number of outages.                   *)
(***************************************************************************)
EXTENDS JobQueue, TLAPS

\* What each UPDATE statement leaves in the row; none leaves the table's type.
LEMMA RowUpdates ==
    ASSUME NEW r \in Row
    PROVE  /\ Inserted(r) = [status |-> "queued", attempts |-> r.attempts,
                             version |-> r.version, leased_by |-> r.leased_by]
           /\ Requeued(r) = [status |-> "queued", attempts |-> r.attempts,
                             version |-> r.version + 1, leased_by |-> NoWorker]
           /\ Failed(r) = [status |-> "failed", attempts |-> r.attempts,
                           version |-> r.version + 1, leased_by |-> r.leased_by]
           /\ Succeeded(r) = [status |-> "success", attempts |-> r.attempts,
                              version |-> r.version + 1, leased_by |-> r.leased_by]
<1> DEFINE b == [status |-> r.status, attempts |-> r.attempts,
                 version |-> r.version + 1, leased_by |-> r.leased_by]
<1>1. Bumped(r) = b
    BY DEF Row, Bumped
<1>2. Requeued(r) = [b EXCEPT !.status = "queued", !.leased_by = NoWorker]
    BY <1>1 DEF Requeued
<1>3. Failed(r) = [b EXCEPT !.status = "failed"]
    BY <1>1 DEF Failed
<1>4. Succeeded(r) = [b EXCEPT !.status = "success"]
    BY <1>1 DEF Succeeded
<1>5. Inserted(r) = [status |-> "queued", attempts |-> r.attempts,
                     version |-> r.version, leased_by |-> r.leased_by]
    BY DEF Row, Inserted
<1> QED
    BY <1>2, <1>3, <1>4, <1>5

\* No UPDATE statement leaves the type of the row.
LEMMA RowTypes ==
    ASSUME NEW r \in Row
    PROVE  Inserted(r) \in Row /\ Requeued(r) \in Row /\ Failed(r) \in Row /\ Succeeded(r) \in Row
<1>1. r.attempts \in Nat /\ r.version \in Nat /\ r.version + 1 \in Nat
      /\ r.leased_by \in Workers \cup {NoWorker}
    BY DEF Row
<1> QED
    BY <1>1, RowUpdates DEF Row, JobStatus

\* A claim is the only update that counts an attempt.
LEMMA ClaimUpdate ==
    ASSUME NEW r \in Row, NEW w \in Workers
    PROVE  /\ Claimed(r, w) = [status |-> "running", attempts |-> r.attempts + 1,
                               version |-> r.version + 1, leased_by |-> w]
           /\ Claimed(r, w) \in Row
<1> DEFINE b == [status |-> r.status, attempts |-> r.attempts,
                 version |-> r.version + 1, leased_by |-> r.leased_by]
<1>1. Bumped(r) = b
    BY DEF Row, Bumped
<1>2. Claimed(r, w) = [b EXCEPT !.status = "running", !.leased_by = w,
                                !.attempts = @ + 1]
    BY <1>1 DEF Claimed
<1>3. Claimed(r, w) = [status |-> "running", attempts |-> r.attempts + 1,
                       version |-> r.version + 1, leased_by |-> w]
    BY <1>2
<1> QED
    BY <1>3 DEF Row, JobStatus

(***************************************************************************)
(* The inductive invariant behind everything that holds however late the   *)
(* handlers are.  SnapKept: what a worker remembers of its last SELECT,    *)
(* and of the job it processes, fits the statement it is at.               *)
(***************************************************************************)
SnapKept ==
    \A w \in Workers :
        /\ \A j \in DOMAIN snap[w] : snap[w][j].status # "absent"
        /\ pc[w] = "expire" => \A j \in DOMAIN snap[w] : snap[w][j].status = "running"
        /\ pc[w] = "failWrite" => view[w].job \in DOMAIN snap[w]
        /\ pc[w] \in Busy => /\ view[w].job \in Jobs
                             /\ row[view[w].job].status # "absent"

\* An execution's number is at most the attempts counted in the row.
AttemptsCounted ==
    \A w \in Workers : pc[w] \in Busy => view[w].attempt <= row[view[w].job].attempts

LockInv == TypeOK /\ SnapKept /\ SnapshotsCoherent /\ AttemptsCounted /\ ClaimsDistinct

\* The initial state has an empty table and idle workers.
LEMMA InitLockInv == Init => LockInv
<1> SUFFICES ASSUME Init PROVE LockInv
    OBVIOUS
<1>1. TypeOK
    BY QueueAssumption DEF Init, TypeOK, Row, JobStatus, PC, NoRows, NoView, Jobs
<1>2. SnapKept /\ SnapshotsCoherent /\ AttemptsCounted /\ ClaimsDistinct
    BY DEF Init, SnapKept, SnapshotsCoherent, AttemptsCounted, ClaimsDistinct,
           Active, Busy, NoRows
<1> QED BY <1>1, <1>2 DEF LockInv

\* Every action keeps the state well typed.
LEMMA TypeStep ==
    ASSUME TypeOK, SnapKept, [Next]_vars
    PROVE  TypeOK'
<1> USE DEF PC, Busy
<1>1. ASSUME NEW j \in Jobs, Enqueue(j)
      PROVE  TypeOK'
  <2>1. row[j] \in Row /\ Inserted(row[j]) \in Row
    BY RowTypes DEF TypeOK
  <2>2. Inserted(row[j]).status = "queued"
    BY <2>1, RowUpdates
  <2>3. row' \in [Jobs -> Row]
    BY <1>1, <2>1 DEF Enqueue, TypeOK
  <2>4. \A k \in Jobs : row[k].status = "running" => row'[k] = row[k]
    BY <1>1 DEF Enqueue, TypeOK
  <2> QED
    BY <1>1, <2>3, <2>4 DEF Enqueue, TypeOK
<1>2. ASSUME NEW j \in Jobs, LeaseEnds(j)
      PROVE  TypeOK'
    BY <1>2 DEF LeaseEnds, TypeOK
<1>3. ASSUME NEW w \in Workers, ExpireSelect(w)
      PROVE  TypeOK'
    BY <1>3 DEF ExpireSelect, TypeOK, Read, Goto
<1>4. ASSUME NEW w \in Workers, ExpireWrite(w)
      PROVE  TypeOK'
  <2>1. \A j \in Jobs : row'[j] \in Row
    BY <1>4, RowTypes DEF ExpireWrite, TypeOK, AfterExpiry
  <2>2. row' \in [Jobs -> Row]
    BY <1>4, <2>1 DEF ExpireWrite
  <2> QED
    BY <1>4, <2>2 DEF ExpireWrite, StillLapsed, TypeOK, Goto, Forget, NoRows
<1>5. ASSUME NEW w \in Workers, ClaimSelect(w)
      PROVE  TypeOK'
    BY <1>5 DEF ClaimSelect, TypeOK, Read, Goto
<1>6. ASSUME NEW w \in Workers, NothingToClaim(w)
      PROVE  TypeOK'
    BY <1>6 DEF NothingToClaim, TypeOK, Goto
<1>7. ASSUME NEW w \in Workers, ClaimWrite(w)
      PROVE  TypeOK'
  <2>1. PICK j \in DOMAIN snap[w] :
            /\ row[j].status = "queued"
            /\ row' = [row EXCEPT ![j] = Claimed(@, w)]
            /\ view' = [view EXCEPT ![w] = [job |-> j,
                                            attempt |-> snap[w][j].attempts + 1]]
            /\ Goto(w, IF Kind[j] \in Handled THEN "run" ELSE "fail")
    BY <1>7 DEF ClaimWrite
  <2>2. j \in Jobs /\ j \in 0 .. NJobs /\ snap[w][j] \in Row
    BY DEF TypeOK, Jobs
  <2>3. row' \in [Jobs -> Row] /\ row'[j].status = "running"
    <3>1. row[j] \in Row
      BY <2>2 DEF TypeOK
    <3>2. Claimed(row[j], w) \in Row /\ Claimed(row[j], w).status = "running"
      BY <3>1, ClaimUpdate
    <3> QED
      BY <2>1, <2>2, <3>1, <3>2 DEF TypeOK
  <2>4. view' \in [Workers -> [job: 0 .. NJobs, attempt: Nat]]
    BY <2>1, <2>2 DEF TypeOK, Row
  <2>5. lapsed' \subseteq {k \in Jobs : row'[k].status = "running"}
    BY <1>7, <2>1, <2>2, <2>3 DEF ClaimWrite, TypeOK
  <2> QED
    BY <1>7, <2>1, <2>3, <2>4, <2>5 DEF ClaimWrite, TypeOK, Goto, Forget, NoRows
<1>8. ASSUME NEW w \in Workers, ClaimLost(w)
      PROVE  TypeOK'
    BY <1>8 DEF ClaimLost, TypeOK, Goto, Forget, NoRows
<1>9. ASSUME NEW w \in Workers, HandlerEnds(w) \/ CompleteRaises(w)
      PROVE  TypeOK'
    BY <1>9 DEF HandlerEnds, CompleteRaises, TypeOK, Goto
<1>10. ASSUME NEW w \in Workers, Complete(w)
       PROVE  TypeOK'
  <2>1. view[w].job \in Jobs
    BY <1>10 DEF Complete, SnapKept
  <2>2. row' \in [Jobs -> Row]
    BY <1>10, <2>1, RowTypes DEF Complete, TypeOK
  <2> QED
    BY <1>10, <2>2, QueueAssumption DEF Complete, StillLapsed, TypeOK, Goto, NoView
<1>11. ASSUME NEW w \in Workers, FailSelect(w)
       PROVE  TypeOK'
  <2>1. view[w].job \in Jobs
    BY <1>11 DEF FailSelect, SnapKept
  <2> QED
    BY <1>11, <2>1 DEF FailSelect, TypeOK, Read, Goto
<1>12. ASSUME NEW w \in Workers, FailWrite(w)
       PROVE  TypeOK'
  <2>1. view[w].job \in Jobs
    BY <1>12 DEF FailWrite, SnapKept
  <2>2. row' \in [Jobs -> Row]
    BY <1>12, <2>1, RowTypes DEF FailWrite, AfterFail, TypeOK
  <2> QED
    BY <1>12, <2>2, QueueAssumption DEF FailWrite, StillLapsed, TypeOK, Goto, Forget, NoRows,
                       NoView
<1>13. ASSUME NEW w \in Workers, Crash(w)
       PROVE  TypeOK'
    BY <1>13, QueueAssumption DEF Crash, TypeOK, Goto, Forget, NoRows, NoView
<1>14. ASSUME NEW w \in Workers, Stop(w) \/ Restart(w)
       PROVE  TypeOK'
    BY <1>14, QueueAssumption DEF Stop, Restart, TypeOK, Goto
<1>15. CASE UNCHANGED vars
    BY <1>15 DEF vars, TypeOK
<1> QED
    BY <1>1, <1>2, <1>3, <1>4, <1>5, <1>6, <1>7, <1>8, <1>9, <1>10, <1>11,
       <1>12, <1>13, <1>14, <1>15 DEF Next, LoopStep

(***************************************************************************)
(* How one step moves a row, a worker's snapshot and a worker's job.       *)
(***************************************************************************)
Advanced(j) ==
    \/ row'[j] = row[j]
    \/ /\ row[j].status = "absent"
       /\ row'[j].status # "absent"
       /\ row'[j].attempts = row[j].attempts
       /\ row'[j].version = row[j].version
    \/ /\ row'[j].status # "absent"
       /\ row'[j].attempts \in {row[j].attempts, row[j].attempts + 1}
       /\ row'[j].version = row[j].version + 1

\* Rows only move forward: nothing changes one without taking a version.
LEMMA RowsAdvance ==
    ASSUME TypeOK, SnapKept, [Next]_vars
    PROVE  \A j \in Jobs : Advanced(j)
<1> USE DEF Busy
<1>1. ASSUME NEW j \in Jobs, Enqueue(j), NEW k \in Jobs
      PROVE  Advanced(k)
  <2>1. row[j] \in Row /\ row[j].status = "absent"
    BY <1>1 DEF Enqueue, TypeOK
  <2>2. row'[k] = IF k = j THEN Inserted(row[j]) ELSE row[k]
    BY <1>1 DEF Enqueue, TypeOK
  <2> QED
    BY <2>1, <2>2, RowUpdates DEF Advanced
<1>2. ASSUME NEW w \in Workers, ExpireWrite(w), NEW k \in Jobs
      PROVE  Advanced(k)
  <2>1. row[k] \in Row
    BY DEF TypeOK
  <2>2. row'[k] \in {row[k], Requeued(row[k]), Failed(row[k])}
    BY <1>2 DEF ExpireWrite, AfterExpiry
  <2> QED
    BY <2>1, <2>2, RowUpdates DEF Advanced, Row
<1>3. ASSUME NEW w \in Workers, ClaimWrite(w), NEW k \in Jobs
      PROVE  Advanced(k)
  <2>1. row[k] \in Row
    BY DEF TypeOK
  <2>2. row'[k] \in {row[k], Claimed(row[k], w)}
    BY <1>3 DEF ClaimWrite, TypeOK
  <2> QED
    BY <2>1, <2>2, ClaimUpdate DEF Advanced, Row
<1>4. ASSUME NEW w \in Workers, Complete(w), NEW k \in Jobs
      PROVE  Advanced(k)
  <2>1. row[k] \in Row
    BY DEF TypeOK
  <2>2. row'[k] \in {row[k], Succeeded(row[k])}
    BY <1>4 DEF Complete, TypeOK
  <2> QED
    BY <2>1, <2>2, RowUpdates DEF Advanced, Row
<1>5. ASSUME NEW w \in Workers, FailWrite(w), NEW k \in Jobs
      PROVE  Advanced(k)
  <2>1. row[k] \in Row
    BY DEF TypeOK
  <2>2. row'[k] \in {row[k], Requeued(row[k]), Failed(row[k])}
    BY <1>5 DEF FailWrite, AfterFail, TypeOK
  <2> QED
    BY <2>1, <2>2, RowUpdates DEF Advanced, Row
<1>6. ASSUME row' = row, NEW k \in Jobs
      PROVE  Advanced(k)
    BY <1>6 DEF Advanced
<1> QED
    BY <1>1, <1>2, <1>3, <1>4, <1>5, <1>6
    DEF Next, LoopStep, LeaseEnds, ExpireSelect, ClaimSelect, NothingToClaim,
        ClaimLost, HandlerEnds, CompleteRaises, FailSelect, Crash, Stop,
        Restart, vars

SnapMoved(w) ==
    \/ snap'[w] = snap[w]
    \/ DOMAIN snap'[w] = {}
    \/ /\ row' = row
       /\ \A j \in DOMAIN snap'[w] :
            j \in Jobs /\ snap'[w][j] = row[j] /\ row[j].status # "absent"

\* A worker's snapshot is kept, dropped, or read from rows that exist.
LEMMA SnapsMove ==
    ASSUME TypeOK, SnapKept, [Next]_vars
    PROVE  \A w \in Workers : SnapMoved(w)
<1> USE DEF SnapMoved
<1>1. ASSUME NEW w \in Workers, ExpireSelect(w), NEW v \in Workers
      PROVE  SnapMoved(v)
    BY <1>1 DEF ExpireSelect, Read, TypeOK
<1>2. ASSUME NEW w \in Workers, ClaimSelect(w), NEW v \in Workers
      PROVE  SnapMoved(v)
    BY <1>2 DEF ClaimSelect, Read, Eligible, TypeOK
<1>3. ASSUME NEW w \in Workers, FailSelect(w), NEW v \in Workers
      PROVE  SnapMoved(v)
    BY <1>3 DEF FailSelect, Read, TypeOK, SnapKept, Busy
<1>4. ASSUME NEW w \in Workers, Forget(w), NEW v \in Workers
      PROVE  SnapMoved(v)
    BY <1>4 DEF Forget, NoRows, TypeOK
<1>5. ASSUME snap' = snap, NEW v \in Workers
      PROVE  SnapMoved(v)
    BY <1>5
<1> QED
    BY <1>1, <1>2, <1>3, <1>4, <1>5
    DEF Next, LoopStep, Enqueue, LeaseEnds, ExpireWrite, NothingToClaim,
        ClaimWrite, ClaimLost, HandlerEnds, Complete, CompleteRaises,
        FailWrite, Crash, Stop, Restart, vars

KeptJob(w) == pc[w] \in Busy /\ view'[w] = view[w]

WonJob(w, j) ==
    /\ j \in Jobs
    /\ row[j].status = "queued"
    /\ row'[j] = Claimed(row[j], w)
    /\ view'[w] = [job |-> j, attempt |-> row[j].attempts + 1]
    /\ \A v \in Workers \ {w} : pc'[v] = pc[v] /\ view'[v] = view[v]

\* A busy worker has kept its job, or has just won the claim on a queued one.
LEMMA JobsMove ==
    ASSUME TypeOK, SnapshotsCoherent, [Next]_vars
    PROVE  \A w \in Workers :
               pc'[w] \in Busy => KeptJob(w) \/ \E j \in Jobs : WonJob(w, j)
<1> USE DEF Busy
<1>1. ASSUME NEW w \in Workers, ClaimWrite(w), NEW v \in Workers, pc'[v] \in Busy
      PROVE  KeptJob(v) \/ \E j \in Jobs : WonJob(v, j)
  <2>1. PICK j \in DOMAIN snap[w] :
            /\ row[j].version = snap[w][j].version
            /\ row[j].status = "queued"
            /\ row' = [row EXCEPT ![j] = Claimed(@, w)]
            /\ view' = [view EXCEPT ![w] = [job |-> j,
                                            attempt |-> snap[w][j].attempts + 1]]
            /\ Goto(w, IF Kind[j] \in Handled THEN "run" ELSE "fail")
    BY <1>1 DEF ClaimWrite
  <2>2. j \in Jobs /\ snap[w][j] = row[j]
    BY <2>1 DEF TypeOK, SnapshotsCoherent
  <2>3. WonJob(w, j)
    BY <2>1, <2>2 DEF WonJob, TypeOK, Goto
  <2>4. v # w => KeptJob(v)
    BY <1>1, <2>1 DEF KeptJob, TypeOK, Goto
  <2> QED
    BY <2>2, <2>3, <2>4
<1>2. ASSUME NEW w \in Workers, HandlerEnds(w) \/ CompleteRaises(w) \/ FailSelect(w),
             NEW v \in Workers, pc'[v] \in Busy
      PROVE  KeptJob(v)
    BY <1>2 DEF HandlerEnds, CompleteRaises, FailSelect, KeptJob, Goto, TypeOK
<1>3. ASSUME NEW w \in Workers, Complete(w) \/ FailWrite(w) \/ Crash(w),
             NEW v \in Workers, pc'[v] \in Busy
      PROVE  KeptJob(v)
    BY <1>3 DEF Complete, FailWrite, Crash, KeptJob, Goto, TypeOK
<1>4. ASSUME NEW w \in Workers,
             \/ ExpireSelect(w) \/ ExpireWrite(w) \/ ClaimSelect(w)
             \/ NothingToClaim(w) \/ ClaimLost(w) \/ Stop(w) \/ Restart(w),
             NEW v \in Workers, pc'[v] \in Busy
      PROVE  KeptJob(v)
    BY <1>4 DEF ExpireSelect, ExpireWrite, ClaimSelect, NothingToClaim,
                ClaimLost, Stop, Restart, KeptJob, Goto, TypeOK
<1>5. ASSUME pc' = pc, view' = view, NEW v \in Workers, pc'[v] \in Busy
      PROVE  KeptJob(v)
    BY <1>5 DEF KeptJob
<1> QED
    BY <1>1, <1>2, <1>3, <1>4, <1>5 DEF Next, LoopStep, Enqueue, LeaseEnds, vars

Moved(w) ==
    \/ pc'[w] = pc[w] /\ snap'[w] = snap[w] /\ view'[w] = view[w]
    \/ ExpireSelect(w) /\ pc'[w] # "failWrite"
    \/ FailSelect(w) /\ pc'[w] = "failWrite"
    \/ pc'[w] \notin {"expire", "failWrite"}

\* Only the two SELECTs lead to the statements that use their rows.
LEMMA WorkersMove ==
    ASSUME TypeOK, [Next]_vars
    PROVE  \A w \in Workers : Moved(w)
<1> USE DEF Moved
<1>1. ASSUME NEW w \in Workers, ExpireSelect(w) \/ FailSelect(w), NEW v \in Workers
      PROVE  Moved(v)
    BY <1>1 DEF ExpireSelect, FailSelect, Goto, Read, TypeOK
<1>2. ASSUME NEW w \in Workers,
             \/ ExpireWrite(w) \/ ClaimSelect(w) \/ NothingToClaim(w)
             \/ ClaimLost(w) \/ HandlerEnds(w) \/ CompleteRaises(w)
             \/ Complete(w) \/ FailWrite(w) \/ Crash(w) \/ Stop(w) \/ Restart(w),
             NEW v \in Workers
      PROVE  Moved(v)
    BY <1>2 DEF ExpireWrite, ClaimSelect, NothingToClaim, ClaimLost, HandlerEnds,
                CompleteRaises, Complete, FailWrite, Crash, Stop, Restart, Goto,
                Read, Forget, TypeOK
<1>3. ASSUME NEW w \in Workers, ClaimWrite(w), NEW v \in Workers
      PROVE  Moved(v)
    BY <1>3 DEF ClaimWrite, Goto, Forget, TypeOK
<1>4. ASSUME pc' = pc, snap' = snap, view' = view, NEW v \in Workers
      PROVE  Moved(v)
    BY <1>4
<1> QED
    BY <1>1, <1>2, <1>3, <1>4 DEF Next, LoopStep, Enqueue, LeaseEnds, vars

\* What a worker remembers keeps fitting the statement it is at.
LEMMA SnapKeptStep ==
    ASSUME LockInv, [Next]_vars
    PROVE  SnapKept'
<1> USE DEF Busy
<1>1. ASSUME NEW w \in Workers
      PROVE  \A j \in DOMAIN snap'[w] : snap'[w][j].status # "absent"
    BY SnapsMove DEF LockInv, SnapMoved, SnapKept
<1>2. ASSUME NEW w \in Workers, pc'[w] = "expire"
      PROVE  \A j \in DOMAIN snap'[w] : snap'[w][j].status = "running"
  <2>1. CASE pc[w] = "expire" /\ snap'[w] = snap[w]
    BY <2>1 DEF LockInv, SnapKept
  <2>2. CASE ExpireSelect(w)
    BY <2>2 DEF ExpireSelect, Read, LockInv, TypeOK
  <2> QED
    BY <1>2, <2>1, <2>2, WorkersMove DEF LockInv, TypeOK, Moved
<1>3. ASSUME NEW w \in Workers, pc'[w] = "failWrite"
      PROVE  view'[w].job \in DOMAIN snap'[w]
  <2>1. CASE pc[w] = "failWrite" /\ snap'[w] = snap[w] /\ view'[w] = view[w]
    BY <2>1 DEF LockInv, SnapKept
  <2>2. CASE FailSelect(w)
    BY <2>2 DEF FailSelect, Read, LockInv, TypeOK
  <2> QED
    BY <1>3, <2>1, <2>2, WorkersMove DEF LockInv, TypeOK, Moved
<1>4. ASSUME NEW w \in Workers, pc'[w] \in Busy
      PROVE  view'[w].job \in Jobs /\ row'[view'[w].job].status # "absent"
  <2>1. CASE KeptJob(w)
    BY <2>1, RowsAdvance DEF KeptJob, Advanced, LockInv, SnapKept
  <2>2. ASSUME NEW j \in Jobs, WonJob(w, j)
        PROVE  view'[w].job \in Jobs /\ row'[view'[w].job].status # "absent"
    BY <2>2, ClaimUpdate DEF WonJob, LockInv, TypeOK
  <2> QED
    BY <1>4, <2>1, <2>2, JobsMove DEF LockInv
<1> QED
    BY <1>1, <1>2, <1>3, <1>4 DEF SnapKept

\* A version is never reused, so an unchanged version means an unchanged row.
LEMMA SnapshotsCoherentStep ==
    ASSUME LockInv, [Next]_vars
    PROVE  SnapshotsCoherent'
<1> SUFFICES ASSUME NEW w \in Workers, NEW j \in DOMAIN snap'[w]
             PROVE  /\ snap'[w][j].version <= row'[j].version
                    /\ snap'[w][j].version = row'[j].version => snap'[w][j] = row'[j]
    BY DEF SnapshotsCoherent
<1>1. SnapMoved(w)
    BY SnapsMove DEF LockInv
<1>2. CASE snap'[w] = snap[w]
  <2>1. j \in DOMAIN snap[w] /\ j \in Jobs
    BY <1>2 DEF LockInv, TypeOK
  <2>2. snap[w][j].version \in Nat /\ row[j].version \in Nat
    BY <2>1 DEF LockInv, TypeOK, Row
  <2>3. Advanced(j)
    BY <2>1, RowsAdvance DEF LockInv
  <2> QED
    BY <1>2, <2>1, <2>2, <2>3 DEF Advanced, LockInv, SnapKept, SnapshotsCoherent
<1>3. CASE /\ row' = row
           /\ \A k \in DOMAIN snap'[w] :
                k \in Jobs /\ snap'[w][k] = row[k] /\ row[k].status # "absent"
  <2>1. row[j].version \in Nat
    BY <1>3 DEF LockInv, TypeOK, Row
  <2> QED
    BY <1>3, <2>1
<1> QED
    BY <1>1, <1>2, <1>3 DEF SnapMoved

\* Attempts are counted by the claim and never taken back.
LEMMA AttemptsCountedStep ==
    ASSUME LockInv, [Next]_vars
    PROVE  AttemptsCounted'
<1> SUFFICES ASSUME NEW w \in Workers, pc'[w] \in Busy
             PROVE  view'[w].attempt <= row'[view'[w].job].attempts
    BY DEF AttemptsCounted
<1>1. CASE KeptJob(w)
  <2>1. view[w].job \in Jobs /\ view[w].attempt <= row[view[w].job].attempts
    BY <1>1 DEF KeptJob, LockInv, SnapKept, AttemptsCounted
  <2>2. view[w].attempt \in Nat /\ row[view[w].job].attempts \in Nat
    BY <2>1 DEF LockInv, TypeOK, Row
  <2>3. Advanced(view[w].job)
    BY <2>1, RowsAdvance DEF LockInv
  <2> QED
    BY <1>1, <2>1, <2>2, <2>3 DEF KeptJob, Advanced
<1>2. ASSUME NEW j \in Jobs, WonJob(w, j)
      PROVE  view'[w].attempt <= row'[view'[w].job].attempts
  <2>1. row[j] \in Row /\ row[j].attempts \in Nat
    BY DEF LockInv, TypeOK, Row
  <2> QED
    BY <1>2, <2>1, ClaimUpdate DEF WonJob
<1> QED
    BY <1>1, <1>2, JobsMove DEF LockInv

\* A claim takes a number above that of every execution still going on.
LEMMA ClaimsDistinctStep ==
    ASSUME LockInv, [Next]_vars
    PROVE  ClaimsDistinct'
<1> SUFFICES ASSUME NEW v \in Workers, NEW w \in Workers, NEW j \in Jobs,
                    Active(v, j)', Active(w, j)',
                    view'[v].attempt = view'[w].attempt, v # w
             PROVE  FALSE
    BY DEF ClaimsDistinct
<1>1. ASSUME NEW a \in Workers, NEW b \in Workers, a # b,
             Active(a, j)', Active(b, j)', view'[a].attempt = view'[b].attempt,
             NEW k \in Jobs, WonJob(a, k)
      PROVE  FALSE
  <2>1. k = j /\ view'[a].attempt = row[j].attempts + 1
    BY <1>1 DEF WonJob, Active
  <2>2. pc[b] \in Busy /\ view[b] = view'[b] /\ view[b].job = j
    BY <1>1 DEF WonJob, Active
  <2>3. view[b].attempt <= row[j].attempts
    BY <2>2 DEF LockInv, AttemptsCounted
  <2>4. row[j].attempts \in Nat
    BY DEF LockInv, TypeOK, Row
  <2>5. view[b].attempt \in Nat
    BY DEF LockInv, TypeOK
  <2>6. view[b].attempt = row[j].attempts + 1
    BY <1>1, <2>1, <2>2
  <2> QED
    BY <2>3, <2>4, <2>5, <2>6
<1>2. CASE KeptJob(v) /\ KeptJob(w)
    BY <1>2 DEF KeptJob, Active, LockInv, ClaimsDistinct
<1> QED
    BY <1>1, <1>2, JobsMove DEF Active, LockInv

\* LockInv is an invariant, with or without handlers that overrun.
THEOREM LockInvariant == Spec => []LockInv
<1>1. Init => LockInv
    BY InitLockInv
<1>2. LockInv /\ [Next]_vars => LockInv'
    BY TypeStep, SnapKeptStep, SnapshotsCoherentStep, AttemptsCountedStep,
       ClaimsDistinctStep DEF LockInv
<1> QED
    BY <1>1, <1>2, PTL DEF Spec

\* The table and the workers' local state stay well typed.
THEOREM TypeCorrect == Spec => []TypeOK
BY LockInvariant, PTL DEF LockInv

\* The version column is a sound optimistic lock for every operation that
\* compares it (the claim and the lease sweep).
THEOREM OptimisticLock == Spec => []SnapshotsCoherent
BY LockInvariant, PTL DEF LockInv

\* However late handlers are and whatever crashes, one attempt of a job is
\* executed by at most one worker.
THEOREM AttemptsExclusive == Spec => []ClaimsDistinct
BY LockInvariant, PTL DEF LockInv

-----------------------------------------------------------------------------
(* What the queue guarantees as long as no handler outlives its lease      *)
(* (Overrun = FALSE): one worker per job, the attempt budget, final        *)
(* results, and the promise of JobLifecycle.                               *)

\* A sweep that still matches its row sees a lease that has really ended.
SweepFresh ==
    \A w \in Workers : \A j \in DOMAIN snap[w] :
        pc[w] = "expire" /\ snap[w][j].version = row[j].version => j \in lapsed

\* The row that fail() decides on is the row of the attempt that failed.
FailFresh ==
    \A w \in Workers : pc[w] = "failWrite" =>
        snap[w][view[w].job].attempts = view[w].attempt

NewRowsUntried == \A j \in Jobs : row[j].status = "absent" => row[j].attempts = 0

LeaseInv == LeaseHeld /\ SweepFresh /\ FailFresh /\ NewRowsUntried /\ WithinBudget

\* Nothing is leased, claimed or swept in the initial state.
LEMMA InitLeaseInv == Init => LeaseInv
<1> SUFFICES ASSUME Init PROVE LeaseInv
    OBVIOUS
<1>1. LeaseHeld /\ SweepFresh /\ FailFresh /\ NewRowsUntried
    BY DEF Init, LeaseHeld, SweepFresh, FailFresh, NewRowsUntried, Active, Busy, NoRows
<1>2. WithinBudget
    BY QueueAssumption DEF Init, WithinBudget
<1> QED
    BY <1>1, <1>2 DEF LeaseInv

(***************************************************************************)
(* The five things that can happen to a row in a step.                     *)
(***************************************************************************)
Entered(j) == row[j].status = "absent" /\ row'[j] = Inserted(row[j])

Swept(j) ==
    /\ row[j].status = "running"
    /\ j \in lapsed
    /\ \/ row'[j] = Requeued(row[j]) /\ row[j].attempts < MaxAttempts[j]
       \/ row'[j] = Failed(row[j])

EndedBy(w, j) ==
    /\ Active(w, j)
    /\ pc'[w] \notin Busy
    /\ \/ row'[j] = Requeued(row[j]) /\ row[j].attempts < MaxAttempts[j]
       \/ row'[j] = Failed(row[j])
       \/ row'[j] = Succeeded(row[j])

RowMove(j) ==
    \/ row'[j] = row[j]
    \/ Entered(j)
    \/ Swept(j)
    \/ \E w \in Workers : WonJob(w, j)
    \/ \E w \in Workers : EndedBy(w, j)

\* A row is only inserted, swept after its lease, claimed while queued, or
\* ended by the worker that holds it.
LEMMA RowMoves ==
    ASSUME LockInv, LeaseInv, [Next]_vars
    PROVE  \A j \in Jobs : RowMove(j)
<1> USE DEF RowMove
<1>1. ASSUME NEW j \in Jobs, Enqueue(j), NEW k \in Jobs
      PROVE  RowMove(k)
    BY <1>1 DEF Enqueue, Entered, LockInv, TypeOK
<1>2. ASSUME NEW w \in Workers, ExpireWrite(w), NEW k \in Jobs
      PROVE  RowMove(k)
  <2>1. CASE k \in DOMAIN snap[w] /\ snap[w][k].version = row[k].version
    <3>1. snap[w][k] = row[k]
      BY <2>1 DEF LockInv, SnapshotsCoherent
    <3>2. row[k].status = "running" /\ k \in lapsed
      BY <1>2, <2>1, <3>1 DEF ExpireWrite, LockInv, SnapKept, LeaseInv, SweepFresh
    <3>3. row'[k] = IF row[k].attempts < MaxAttempts[k]
                    THEN Requeued(row[k]) ELSE Failed(row[k])
      BY <1>2, <2>1, <3>1 DEF ExpireWrite, AfterExpiry
    <3> QED
      BY <3>2, <3>3 DEF Swept
  <2>2. CASE ~(k \in DOMAIN snap[w] /\ snap[w][k].version = row[k].version)
    BY <1>2, <2>2 DEF ExpireWrite, AfterExpiry
  <2> QED
    BY <2>1, <2>2
<1>3. ASSUME NEW w \in Workers, ClaimWrite(w), NEW k \in Jobs
      PROVE  RowMove(k)
  <2>1. PICK j \in DOMAIN snap[w] :
            /\ row[j].version = snap[w][j].version
            /\ row' = [row EXCEPT ![j] = Claimed(@, w)]
            /\ view' = [view EXCEPT ![w] = [job |-> j,
                                            attempt |-> snap[w][j].attempts + 1]]
            /\ row[j].status = "queued"
            /\ Goto(w, IF Kind[j] \in Handled THEN "run" ELSE "fail")
    BY <1>3 DEF ClaimWrite
  <2>2. j \in Jobs /\ snap[w][j] = row[j]
    BY <2>1 DEF LockInv, TypeOK, SnapshotsCoherent
  <2>3. WonJob(w, j)
    BY <2>1, <2>2 DEF WonJob, LockInv, TypeOK, Goto
  <2> QED
    BY <2>1, <2>2, <2>3 DEF LockInv, TypeOK
<1>4. ASSUME NEW w \in Workers, Complete(w), NEW k \in Jobs
      PROVE  RowMove(k)
    BY <1>4 DEF Complete, EndedBy, Active, Busy, Goto, LockInv, TypeOK
<1>5. ASSUME NEW w \in Workers, FailWrite(w), NEW k \in Jobs
      PROVE  RowMove(k)
  <2>1. CASE k # view[w].job
    BY <1>5, <2>1 DEF FailWrite, LockInv, TypeOK
  <2>2. CASE k = view[w].job
    <3>1. Active(w, k) /\ pc'[w] \notin Busy
      BY <1>5, <2>2 DEF FailWrite, Active, Busy, Goto, LockInv, TypeOK
    <3>2. snap[w][k].attempts = row[k].attempts
      BY <1>5, <2>2, <3>1 DEF FailWrite, LeaseInv, LeaseHeld, FailFresh
    <3>3. row'[k] = AfterFail(k, snap[w][k], row[k])
      BY <1>5, <2>2 DEF FailWrite, LockInv, TypeOK
    <3> QED
      BY <3>1, <3>2, <3>3 DEF AfterFail, MayRetry, EndedBy
  <2> QED
    BY <2>1, <2>2
<1>6. ASSUME row' = row, NEW k \in Jobs
      PROVE  RowMove(k)
    BY <1>6
<1> QED
    BY <1>1, <1>2, <1>3, <1>4, <1>5, <1>6
    DEF Next, LoopStep, LeaseEnds, ExpireSelect, ClaimSelect, NothingToClaim,
        ClaimLost, HandlerEnds, CompleteRaises, FailSelect, Crash, Stop,
        Restart, vars

\* Without overruns a lease only ends under a worker that is gone.
LEMMA LapsesMove ==
    ASSUME ~Overrun, LockInv, [Next]_vars, NEW j \in Jobs, j \in lapsed'
    PROVE  \/ j \in lapsed
           \/ row' = row /\ view' = view /\ pc' = pc /\ \A w \in Workers : ~Active(w, j)
<1>1. ASSUME NEW k \in Jobs, LeaseEnds(k)
      PROVE  \/ j \in lapsed
             \/ row' = row /\ view' = view /\ pc' = pc /\ \A w \in Workers : ~Active(w, j)
    BY <1>1 DEF LeaseEnds
<1>2. ASSUME StillLapsed \/ lapsed' = lapsed
      PROVE  j \in lapsed
    BY <1>2 DEF StillLapsed
<1> QED
    BY <1>1, <1>2
    DEF Next, LoopStep, Enqueue, ExpireSelect, ExpireWrite, ClaimSelect,
        NothingToClaim, ClaimWrite, ClaimLost, HandlerEnds, Complete,
        CompleteRaises, FailSelect, FailWrite, Crash, Stop, Restart, vars

\* A lease that has ended stays so until the row moves.
LEMMA LapsesStay ==
    ASSUME TypeOK, [Next]_vars, NEW j \in lapsed, row'[j] = row[j]
    PROVE  j \in lapsed'
<1>1. row[j].status = "running"
    BY DEF TypeOK
<1>2. ASSUME StillLapsed
      PROVE  j \in lapsed'
    BY <1>1, <1>2 DEF StillLapsed
<1>3. ASSUME lapsed \subseteq lapsed'
      PROVE  j \in lapsed'
    BY <1>3
<1> QED
    BY <1>2, <1>3
    DEF Next, LoopStep, Enqueue, LeaseEnds, ExpireSelect, ExpireWrite,
        ClaimSelect, NothingToClaim, ClaimWrite, ClaimLost, HandlerEnds,
        Complete, CompleteRaises, FailSelect, FailWrite, Crash, Stop, Restart, vars

\* The row a worker holds is touched by no one else.
LEMMA LeaseHeldStep ==
    ASSUME ~Overrun, LockInv, LeaseInv, [Next]_vars
    PROVE  LeaseHeld'
<1> SUFFICES ASSUME NEW w \in Workers, NEW j \in Jobs, Active(w, j)'
             PROVE  /\ row'[j].status = "running"
                    /\ row'[j].leased_by = w
                    /\ row'[j].attempts = view'[w].attempt
                    /\ j \notin lapsed'
    BY DEF LeaseHeld
<1>1. CASE KeptJob(w)
  <2>1. Active(w, j)
    BY <1>1 DEF KeptJob, Active
  <2>2. /\ row[j].status = "running"
        /\ row[j].leased_by = w
        /\ row[j].attempts = view[w].attempt
        /\ j \notin lapsed
    BY <2>1 DEF LeaseInv, LeaseHeld
  <2>3. row'[j] = row[j]
    <3>1. pc'[w] \in Busy
      BY DEF Active
    <3>2. ASSUME NEW v \in Workers, EndedBy(v, j)
          PROVE  FALSE
      <4>1. v = w
        BY <2>2, <3>2 DEF EndedBy, LeaseInv, LeaseHeld
      <4> QED
        BY <3>1, <3>2, <4>1 DEF EndedBy
    <3>3. ~Entered(j) /\ ~Swept(j) /\ \A v \in Workers : ~WonJob(v, j)
      BY <2>2 DEF Entered, Swept, WonJob
    <3> QED
      BY <3>2, <3>3, RowMoves DEF RowMove
  <2>4. j \notin lapsed'
    BY <2>1, <2>2, LapsesMove
  <2> QED
    BY <1>1, <2>2, <2>3, <2>4 DEF KeptJob
<1>2. ASSUME NEW k \in Jobs, WonJob(w, k)
      PROVE  /\ row'[j].status = "running"
             /\ row'[j].leased_by = w
             /\ row'[j].attempts = view'[w].attempt
             /\ j \notin lapsed'
  <2>1. k = j /\ row[j] \in Row /\ row[j].status = "queued"
    BY <1>2 DEF WonJob, Active, LockInv, TypeOK
  <2>2. row'[j] = [status |-> "running", attempts |-> row[j].attempts + 1,
                   version |-> row[j].version + 1, leased_by |-> w]
    BY <1>2, <2>1, ClaimUpdate DEF WonJob
  <2>3. view'[w].attempt = row[j].attempts + 1
    BY <1>2, <2>1 DEF WonJob
  <2>4. j \notin lapsed
    BY <2>1 DEF LockInv, TypeOK
  <2>5. row'[j] # row[j]
    BY <2>1, <2>2
  <2>6. j \notin lapsed'
    BY <2>4, <2>5, LapsesMove
  <2> QED
    BY <2>2, <2>3, <2>6
<1> QED
    BY <1>1, <1>2, JobsMove DEF Active, LockInv

\* A sweep whose row moved on no longer matches it; otherwise the lease is
\* still over.
LEMMA SweepFreshStep ==
    ASSUME ~Overrun, LockInv, LeaseInv, [Next]_vars
    PROVE  SweepFresh'
<1> SUFFICES ASSUME NEW w \in Workers, NEW j \in DOMAIN snap'[w],
                    pc'[w] = "expire", snap'[w][j].version = row'[j].version
             PROVE  j \in lapsed'
    BY DEF SweepFresh
<1>1. CASE ExpireSelect(w)
    BY <1>1 DEF ExpireSelect, Read, LockInv, TypeOK
<1>2. CASE pc'[w] = pc[w] /\ snap'[w] = snap[w]
  <2>1. j \in DOMAIN snap[w] /\ j \in Jobs
    BY <1>2 DEF LockInv, TypeOK
  <2>2. /\ snap[w][j].version \in Nat
        /\ row[j].version \in Nat
        /\ snap[w][j].version <= row[j].version
        /\ snap[w][j].version = row[j].version => snap[w][j] = row[j]
        /\ snap[w][j].status # "absent"
    BY <2>1 DEF LockInv, TypeOK, Row, SnapshotsCoherent, SnapKept
  <2>3. Advanced(j)
    BY <2>1, RowsAdvance DEF LockInv
  <2>4. row'[j] = row[j]
    BY <1>2, <2>2, <2>3 DEF Advanced
  <2>5. j \in lapsed /\ row[j].status = "running"
    BY <1>2, <2>1, <2>4 DEF LeaseInv, SweepFresh, LockInv, TypeOK
  <2> QED
    BY <2>1, <2>4, <2>5, LapsesStay DEF LockInv
<1> QED
    BY <1>1, <1>2, WorkersMove DEF Moved, LockInv, FailSelect, Goto

\* fail() reads the row of the attempt it is about to fail.
LEMMA FailFreshStep ==
    ASSUME LockInv, LeaseInv, [Next]_vars
    PROVE  FailFresh'
<1> SUFFICES ASSUME NEW w \in Workers, pc'[w] = "failWrite"
             PROVE  snap'[w][view'[w].job].attempts = view'[w].attempt
    BY DEF FailFresh
<1>1. CASE pc'[w] = pc[w] /\ snap'[w] = snap[w] /\ view'[w] = view[w]
    BY <1>1 DEF LeaseInv, FailFresh
<1>2. CASE FailSelect(w)
  <2>1. view[w].job \in Jobs /\ Active(w, view[w].job)
    BY <1>2 DEF FailSelect, LockInv, SnapKept, Active, Busy
  <2>2. row[view[w].job].attempts = view[w].attempt
    BY <2>1 DEF LeaseInv, LeaseHeld
  <2>3. view' = view /\ snap'[w][view[w].job] = row[view[w].job]
    BY <1>2 DEF FailSelect, Read, LockInv, TypeOK
  <2> QED
    BY <2>2, <2>3
<1> QED
    BY <1>1, <1>2, WorkersMove DEF Moved, LockInv, ExpireSelect

\* A row in the queue has an attempt left, so a claim cannot exceed the budget.
LEMMA WithinBudgetStep ==
    ASSUME LockInv, LeaseInv, [Next]_vars
    PROVE  NewRowsUntried' /\ WithinBudget'
<1> SUFFICES ASSUME NEW j \in Jobs
             PROVE  /\ row'[j].status = "absent" => row'[j].attempts = 0
                    /\ row'[j].attempts <= MaxAttempts[j]
                    /\ row'[j].status = "queued" => row'[j].attempts < MaxAttempts[j]
    BY DEF NewRowsUntried, WithinBudget
<1>1. /\ row[j] \in Row
      /\ row[j].attempts \in Nat
      /\ MaxAttempts[j] \in Nat \ {0}
      /\ row[j].status = "absent" => row[j].attempts = 0
      /\ row[j].attempts <= MaxAttempts[j]
      /\ row[j].status = "queued" => row[j].attempts < MaxAttempts[j]
    BY QueueAssumption DEF LockInv, TypeOK, Row, LeaseInv, NewRowsUntried, WithinBudget
<1>2. CASE row'[j] = row[j]
    BY <1>1, <1>2
<1>3. CASE Entered(j)
    BY <1>1, <1>3, RowUpdates DEF Entered
<1>4. CASE Swept(j)
    BY <1>1, <1>4, RowUpdates DEF Swept
<1>5. ASSUME NEW w \in Workers, WonJob(w, j)
      PROVE  /\ row'[j].status = "running"
             /\ row'[j].attempts <= MaxAttempts[j]
    BY <1>1, <1>5, ClaimUpdate DEF WonJob
<1>6. ASSUME NEW w \in Workers, EndedBy(w, j)
      PROVE  /\ row'[j].status # "absent"
             /\ row'[j].attempts <= MaxAttempts[j]
             /\ row'[j].status = "queued" => row'[j].attempts < MaxAttempts[j]
    BY <1>1, <1>6, RowUpdates DEF EndedBy
<1> QED
    BY <1>2, <1>3, <1>4, <1>5, <1>6, RowMoves DEF RowMove

\* Without overruns, LockInv and LeaseInv together are inductive.
THEOREM LeaseInvariant ==
    ASSUME ~Overrun
    PROVE  Spec => [](LockInv /\ LeaseInv)
<1>1. Init => LeaseInv
    BY InitLeaseInv
<1>2. LockInv /\ LeaseInv /\ [Next]_vars => LeaseInv'
    BY LeaseHeldStep, SweepFreshStep, FailFreshStep, WithinBudgetStep DEF LeaseInv
<1> QED
    BY <1>1, <1>2, LockInvariant, PTL DEF Spec

\* A worker that processes a job within its lease owns the job's row: no
\* other worker processes it and it is not queued meanwhile.
THEOREM OneRunner ==
    ASSUME ~Overrun
    PROVE  Spec => []LeaseHeld
BY LeaseInvariant, PTL DEF LeaseInv

\* No job is ever claimed more than max_attempts times.
THEOREM AttemptBudget ==
    ASSUME ~Overrun
    PROVE  Spec => []WithinBudget
BY LeaseInvariant, PTL DEF LeaseInv

\* A row that succeeded or failed is never written again.
THEOREM ResultsFinal ==
    ASSUME ~Overrun
    PROVE  Spec => TerminalFinal
<1>1. LockInv /\ LeaseInv /\ [Next]_vars =>
        [\A j \in Jobs : row[j].status \in Terminal => row'[j] = row[j]]_vars
  <2> SUFFICES ASSUME LockInv, LeaseInv, [Next]_vars, NEW j \in Jobs,
                      row[j].status \in Terminal
               PROVE  row'[j] = row[j]
    OBVIOUS
  <2>1. \A w \in Workers : ~WonJob(w, j) /\ ~EndedBy(w, j)
    BY DEF WonJob, EndedBy, Terminal, LeaseInv, LeaseHeld
  <2>2. ~Entered(j) /\ ~Swept(j)
    BY DEF Entered, Swept, Terminal
  <2> QED
    BY <2>1, <2>2, RowMoves DEF RowMove
<1> QED
    BY <1>1, LeaseInvariant, PTL DEF Spec, TerminalFinal

\* The queue implements JobLifecycle: every step moves each job along its
\* life cycle or leaves it alone.
THEOREM QueueRefinesLifecycle ==
    ASSUME ~Overrun
    PROVE  Spec => ImplementsLifecycle
<1> DEFINE st == [j \in Jobs |-> row[j].status]
           tries == [j \in Jobs |-> row[j].attempts]
<1>1. Init => Lifecycle!Init
    BY DEF Init, Lifecycle!Init
<1>2. LockInv /\ LockInv' /\ LeaseInv /\ [Next]_vars => [Lifecycle!Next]_(Lifecycle!jobVars)
  <2> SUFFICES ASSUME LockInv, LockInv', LeaseInv, [Next]_vars
               PROVE  Lifecycle!Next
    OBVIOUS
  <2>1. /\ st' \in [Jobs -> Lifecycle!JobStatus]
        /\ tries' \in [Jobs -> Nat]
    BY DEF LockInv, TypeOK, Row, JobStatus, Lifecycle!JobStatus
  <2>2. ASSUME NEW j \in Jobs
        PROVE  Lifecycle!Move(j) \/ Lifecycle!Stays(j)
    <3> USE DEF Lifecycle!Move, Lifecycle!Stays, Lifecycle!Submitted,
                Lifecycle!Started, Lifecycle!Finished, Lifecycle!Retried,
                Lifecycle!Terminal
    <3>1. /\ row[j] \in Row
          /\ row[j].status = "queued" => row[j].attempts < MaxAttempts[j]
      BY DEF LockInv, TypeOK, LeaseInv, WithinBudget
    <3>2. CASE row'[j] = row[j]
      BY <3>2
    <3>3. CASE Entered(j)
      BY <3>1, <3>3, RowUpdates DEF Entered
    <3>4. CASE Swept(j)
      BY <3>1, <3>4, RowUpdates DEF Swept
    <3>5. ASSUME NEW w \in Workers, WonJob(w, j)
          PROVE  Lifecycle!Started(j)
      BY <3>1, <3>5, ClaimUpdate DEF WonJob
    <3>6. ASSUME NEW w \in Workers, EndedBy(w, j)
          PROVE  Lifecycle!Finished(j) \/ Lifecycle!Retried(j)
      <4>1. row[j].status = "running"
        BY <3>6 DEF EndedBy, LeaseInv, LeaseHeld
      <4> QED
        BY <3>1, <3>6, <4>1, RowUpdates DEF EndedBy
    <3> QED
      BY <3>2, <3>3, <3>4, <3>5, <3>6, RowMoves DEF RowMove
  <2> QED
    BY <2>1, <2>2 DEF Lifecycle!Next
<1> QED
    BY <1>1, <1>2, LeaseInvariant, PTL DEF Spec, ImplementsLifecycle, Lifecycle!Spec
=============================================================================
