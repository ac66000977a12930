----------------------- MODULE JobQueueOverrunProofs -----------------------
(***************************************************************************)
(* How far the attempt budget can be exceeded when handlers outlive their  *)
(* leases: a fail() decides to retry on the row it read, and any number of *)
(* claims may come before it writes.                                       *)
(***************************************************************************)
EXTENDS JobQueueProofs, FiniteSetTheorems

\* The workers that will requeue job j whatever has become of it.
Stale(j) ==
    {w \in Workers : /\ pc[w] = "failWrite" /\ view[w].job = j
                     /\ MayRetry(j, snap[w][j])}

\* A queued job can be claimed once more, unless every worker is busy
\* requeueing it.
Room(j) == IF row[j].status = "queued" /\ Stale(j) # Workers THEN 1 ELSE 0

\* Attempts taken and attempts still to be had.
Within(j) ==
    row[j].attempts + Room(j) + Cardinality(Stale(j))
        <= MaxAttempts[j] + Cardinality(Workers) - 1

OverrunInv ==
    \A j \in Jobs : Within(j) /\ (row[j].status = "absent" => row[j].attempts = 0)

LEMMA StaleCount ==
    ASSUME IsFiniteSet(Workers), NEW j
    PROVE  /\ IsFiniteSet(Stale(j))
           /\ Cardinality(Stale(j)) \in Nat /\ Cardinality(Workers) \in Nat
           /\ Room(j) \in 0..1
           /\ Room(j) + Cardinality(Stale(j)) <= Cardinality(Workers)
<1>1. Stale(j) \subseteq Workers
    BY DEF Stale
<1>2. /\ IsFiniteSet(Stale(j)) /\ Cardinality(Stale(j)) <= Cardinality(Workers)
      /\ Cardinality(Stale(j)) = Cardinality(Workers) => Stale(j) = Workers
    BY <1>1, FS_Subset
<1>3. Cardinality(Stale(j)) \in Nat /\ Cardinality(Workers) \in Nat
    BY <1>2, FS_CardinalityType
<1> QED
    BY <1>2, <1>3 DEF Room

\* A job with an attempt left is within the bound, whoever is late.
LEMMA BudgetLeft ==
    ASSUME IsFiniteSet(Workers), TypeOK, NEW j \in Jobs,
           row[j].attempts < MaxAttempts[j]
    PROVE  Within(j)
<1>1. row[j].attempts \in Nat /\ MaxAttempts[j] \in Nat
    BY QueueAssumption DEF TypeOK, Row
<1> QED
    BY <1>1, StaleCount DEF Within

\* How a step changes what the bound counts.
Same(j) ==
    /\ row'[j].attempts = row[j].attempts
    /\ Stale(j)' \subseteq Stale(j)
    /\ row'[j].status = "queued" =>
         row[j].status = "queued" \/ Stale(j)' # Stale(j)

Won(j) ==
    /\ row[j].status = "queued" /\ row'[j].status # "queued"
    /\ row'[j].attempts = row[j].attempts + 1
    /\ Stale(j)' \subseteq Stale(j) /\ Stale(j) # Workers

\* Only a fail() that reads a job with an attempt left gets stale.
LEMMA StaleShrinks ==
    ASSUME LockInv, [Next]_vars, NEW j \in Jobs
    PROVE  row'[j].attempts < MaxAttempts[j] \/ Stale(j)' \subseteq Stale(j)
<1> SUFFICES ASSUME NEW w \in Stale(j)', w \notin Stale(j)
             PROVE  row'[j].attempts < MaxAttempts[j]
    OBVIOUS
<1>1. /\ w \in Workers /\ pc'[w] = "failWrite" /\ view'[w].job = j
      /\ MayRetry(j, snap'[w][j])
    BY DEF Stale, MayRetry
<1>2. FailSelect(w)
    BY <1>1, WorkersMove DEF Moved, Stale, LockInv
<1>3. view[w].job = j /\ snap'[w][j] = row[j] /\ row' = row
    BY <1>1, <1>2 DEF FailSelect, Read, LockInv, TypeOK
<1> QED
    BY <1>1, <1>3 DEF MayRetry

\* A row that is not there yet is inserted as it is.
LEMMA UntriedStays ==
    ASSUME LockInv, [Next]_vars, NEW j \in Jobs, row[j].status = "absent"
    PROVE  row'[j].attempts = row[j].attempts
<1>1. row[j] \in Row
    BY DEF LockInv, TypeOK
<1>2. ASSUME NEW k \in Jobs, Enqueue(k) PROVE row'[j] \in {row[j], Inserted(row[j])}
    BY <1>2 DEF Enqueue, LockInv, TypeOK
<1>3. ASSUME NEW w \in Workers, ExpireWrite(w) PROVE row'[j] = row[j]
    BY <1>3 DEF ExpireWrite, AfterExpiry, LockInv, SnapKept, SnapshotsCoherent
<1>4. ASSUME NEW w \in Workers, ClaimWrite(w) PROVE row'[j] = row[j]
    BY <1>4 DEF ClaimWrite, LockInv, TypeOK
<1>5. ASSUME NEW w \in Workers, Complete(w) \/ FailWrite(w) PROVE row'[j] = row[j]
    BY <1>5 DEF Complete, FailWrite, LockInv, TypeOK, SnapKept, Busy
<1>6. row' = row \/ \E k \in Jobs : Enqueue(k)
      \/ \E w \in Workers : \/ ExpireWrite(w) \/ ClaimWrite(w)
                            \/ Complete(w) \/ FailWrite(w)
    BY DEF Next, LoopStep, LeaseEnds, ExpireSelect, ClaimSelect, NothingToClaim,
        ClaimLost, HandlerEnds, CompleteRaises, FailSelect, Crash, Stop,
        Restart, vars
<1> QED
    BY <1>1, <1>2, <1>3, <1>4, <1>5, <1>6, RowUpdates

LEMMA CountMoves ==
    ASSUME LockInv, [Next]_vars, NEW j \in Jobs
    PROVE  \/ row'[j].attempts < MaxAttempts[j]
           \/ row[j].status = "absent" /\ row'[j].attempts = row[j].attempts
           \/ Same(j) \/ Won(j)
<1> SUFFICES ASSUME Stale(j)' \subseteq Stale(j), row[j].status # "absent"
             PROVE  row'[j].attempts < MaxAttempts[j] \/ Same(j) \/ Won(j)
    BY StaleShrinks, UntriedStays
<1>1. row[j] \in Row
    BY DEF LockInv, TypeOK
<1>2. row'[j] = row[j] => Same(j)
    BY DEF Same
<1>3. ASSUME NEW k \in Jobs, Enqueue(k) PROVE row'[j] = row[j]
    BY <1>3 DEF Enqueue, LockInv, TypeOK
<1>4. ASSUME NEW w \in Workers, ExpireWrite(w)
      PROVE  row'[j].attempts < MaxAttempts[j] \/ Same(j)
    <2>1. CASE j \in DOMAIN snap[w] /\ snap[w][j].version = row[j].version
        <3>1. snap[w][j] = row[j]
            BY <2>1 DEF LockInv, SnapshotsCoherent
        <3>2. row'[j] = IF row[j].attempts < MaxAttempts[j]
                        THEN Requeued(row[j]) ELSE Failed(row[j])
            BY <1>4, <2>1, <3>1 DEF ExpireWrite, AfterExpiry
        <3> QED
            BY <1>1, <3>2, RowUpdates DEF Same
    <2>2. CASE ~(j \in DOMAIN snap[w] /\ snap[w][j].version = row[j].version)
        BY <1>2, <1>4, <2>2 DEF ExpireWrite, AfterExpiry
    <2> QED
        BY <2>1, <2>2
<1>5. ASSUME NEW w \in Workers, ClaimWrite(w) PROVE Same(j) \/ Won(j)
    <2>1. PICK k \in DOMAIN snap[w] :
             /\ row[k].status = "queued"
             /\ row' = [row EXCEPT ![k] = Claimed(@, w)]
        BY <1>5 DEF ClaimWrite
    <2>2. CASE k = j
        <3>1. row'[j] = Claimed(row[j], w)
            BY <2>1, <2>2 DEF LockInv, TypeOK
        <3>2. w \notin Stale(j)
            BY <1>5 DEF ClaimWrite, Stale
        <3> QED
            BY <1>1, <2>1, <2>2, <3>1, <3>2, ClaimUpdate DEF Won
    <2>3. CASE k # j
        BY <1>2, <2>1, <2>3 DEF LockInv, TypeOK
    <2> QED
        BY <2>2, <2>3
<1>6. ASSUME NEW w \in Workers, Complete(w) PROVE Same(j)
    <2>1. row'[j] \in {row[j], Succeeded(row[j])}
        BY <1>6 DEF Complete, LockInv, TypeOK
    <2> QED
        BY <1>1, <2>1, RowUpdates DEF Same
<1>7. ASSUME NEW w \in Workers, FailWrite(w) PROVE Same(j)
    <2>1. CASE view[w].job # j
        BY <1>2, <1>7, <2>1 DEF FailWrite, LockInv, TypeOK
    <2>2. CASE view[w].job = j
        <3>1. row'[j] = AfterFail(j, snap[w][j], row[j])
            BY <1>7, <2>2 DEF FailWrite, LockInv, TypeOK
        <3>2. CASE MayRetry(j, snap[w][j])
            <4>1. w \in Stale(j)
                BY <1>7, <2>2, <3>2 DEF Stale, FailWrite
            <4>2. w \notin Stale(j)'
                BY <1>7 DEF Stale, FailWrite, Goto, LockInv, TypeOK
            <4> QED
                BY <1>1, <3>1, <3>2, <4>1, <4>2, RowUpdates DEF Same, AfterFail
        <3>3. CASE ~MayRetry(j, snap[w][j])
            BY <1>1, <3>1, <3>3, RowUpdates DEF Same, AfterFail
        <3> QED
            BY <3>2, <3>3
    <2> QED
        BY <2>1, <2>2
<1>8. CASE row' = row
    BY <1>2, <1>8
<1> QED
    BY <1>2, <1>3, <1>4, <1>5, <1>6, <1>7, <1>8
    DEF Next, LoopStep, LeaseEnds, ExpireSelect, ClaimSelect, NothingToClaim,
        ClaimLost, HandlerEnds, CompleteRaises, FailSelect, Crash, Stop,
        Restart, vars

LEMMA WithinStep ==
    ASSUME IsFiniteSet(Workers), LockInv, LockInv', OverrunInv, [Next]_vars,
           NEW j \in Jobs
    PROVE  Within(j)'
<1>1. /\ row[j].attempts \in Nat /\ row'[j].attempts \in Nat
      /\ MaxAttempts[j] \in Nat \ {0}
    BY QueueAssumption DEF LockInv, TypeOK, Row
<1>2. CASE row'[j].attempts < MaxAttempts[j]
    <2>1. Room(j)' \in 0..1 /\ Cardinality(Stale(j)') \in Nat
          /\ Cardinality(Workers) \in Nat
          /\ Room(j)' + Cardinality(Stale(j)') <= Cardinality(Workers)
        <3>1. Stale(j)' \subseteq Workers
            BY DEF Stale
        <3>2. /\ IsFiniteSet(Stale(j)')
              /\ Cardinality(Stale(j)') <= Cardinality(Workers)
              /\ Cardinality(Stale(j)') = Cardinality(Workers) => Stale(j)' = Workers
            BY <3>1, FS_Subset
        <3>3. Cardinality(Stale(j)') \in Nat /\ Cardinality(Workers) \in Nat
            BY <3>2, FS_CardinalityType
        <3> QED
            BY <3>2, <3>3 DEF Room
    <2> QED
        BY <1>1, <1>2, <2>1 DEF Within
<1>3. CASE Same(j) \/ Won(j)
    <2>1. /\ Cardinality(Stale(j)) \in Nat /\ Cardinality(Workers) \in Nat
          /\ Room(j) \in 0..1 /\ IsFiniteSet(Stale(j))
        BY StaleCount
    <2>2. Stale(j)' \subseteq Stale(j)
        BY <1>3 DEF Same, Won
    <2>3. /\ Cardinality(Stale(j)') \in Nat
          /\ Cardinality(Stale(j)') <= Cardinality(Stale(j))
          /\ Cardinality(Stale(j)') = Cardinality(Stale(j)) => Stale(j)' = Stale(j)
        BY <2>1, <2>2, FS_Subset, FS_CardinalityType
    <2>4. Room(j)' \in 0..1
        BY DEF Room
    <2>5. Within(j)
        BY DEF OverrunInv
    <2>6. CASE Same(j) /\ Stale(j)' = Stale(j)
        <3>1. Room(j)' <= Room(j)
            BY <2>6 DEF Same, Room
        <3> QED
            BY <1>1, <2>1, <2>3, <2>4, <2>5, <2>6, <3>1 DEF Same, Within
    <2>7. CASE Same(j) /\ Stale(j)' # Stale(j)
        BY <1>1, <2>1, <2>3, <2>4, <2>5, <2>7 DEF Same, Within
    <2>8. CASE Won(j)
        <3>1. Room(j) = 1 /\ Room(j)' = 0
            BY <2>8 DEF Won, Room
        <3> QED
            BY <1>1, <2>1, <2>3, <2>5, <2>8, <3>1 DEF Won, Within
    <2> QED
        BY <1>3, <2>6, <2>7, <2>8
<1>4. row[j].status = "absent" /\ row'[j].attempts = row[j].attempts
        => row'[j].attempts < MaxAttempts[j]
    BY <1>1 DEF OverrunInv
<1> QED
    BY <1>2, <1>3, <1>4, CountMoves

\* However late the handlers are, a job is claimed at most one time more than
\* its budget for each other worker: a worker that claims is not one of those
\* that are about to requeue.
THEOREM OverrunLimited ==
    ASSUME IsFiniteSet(Workers)
    PROVE  Spec => []OverrunBounded
<1>1. Init => OverrunInv
    <2> SUFFICES ASSUME Init, NEW j \in Jobs
                 PROVE  Within(j) /\ row[j].attempts = 0
        BY DEF OverrunInv
    <2>1. row[j].attempts = 0 /\ MaxAttempts[j] \in Nat \ {0}
        BY QueueAssumption DEF Init
    <2>2. TypeOK
        BY InitLockInv DEF LockInv
    <2> QED
        BY <2>1, <2>2, BudgetLeft
<1>2. LockInv /\ LockInv' /\ OverrunInv /\ [Next]_vars => OverrunInv'
    <2> SUFFICES ASSUME LockInv, LockInv', OverrunInv, [Next]_vars, NEW j \in Jobs
                 PROVE  /\ Within(j)'
                        /\ row'[j].status = "absent" => row'[j].attempts = 0
        BY DEF OverrunInv
    <2>1. row'[j].status = "absent" => row'[j] = row[j]
        BY RowsAdvance DEF Advanced, LockInv
    <2> QED
        BY <2>1, WithinStep DEF OverrunInv
<1>3. LockInv /\ OverrunInv => OverrunBounded
    <2> SUFFICES ASSUME LockInv, OverrunInv, NEW j \in Jobs
                 PROVE  row[j].attempts <= MaxAttempts[j] + Cardinality(Workers) - 1
        BY DEF OverrunBounded
    <2>1. /\ row[j].attempts \in Nat /\ MaxAttempts[j] \in Nat
          /\ Cardinality(Stale(j)) \in Nat /\ Cardinality(Workers) \in Nat
          /\ Room(j) \in 0..1
        BY QueueAssumption, StaleCount DEF LockInv, TypeOK, Row
    <2> QED
        BY <2>1 DEF OverrunInv, Within
<1> QED
    BY <1>1, <1>2, <1>3, LockInvariant, PTL DEF Spec
=============================================================================
