-------------------------- MODULE DocumentsProofs --------------------------
(***************************************************************************)
(* Proofs about the documents: the ingestion queue (IngestQueue) for any   *)
(* documents, workers, attempt limit and backoffs, where what rests on the *)
(* fence assumes UniqueIds; and the first version's index and cache        *)
(* (RagService, Chunking) for any documents, window, questions, requests   *)
(* and operations.                                                         *)
(***************************************************************************)
EXTENDS IngestQueue, RagService, ListLemmas

\* The step of each action, by name, for the case splits below.
LEMMA NextCases ==
  ASSUME [Next]_vars
  PROVE  \/ \E d \in Docs : Upload(d)
         \/ \E d \in Docs : LeaseExpires(d)
         \/ \E w \in Workers : ReclaimExpired(w)
         \/ \E w \in Workers, d \in Docs : Claim(w, d)
         \/ \E w \in Workers : NothingDue(w)
         \/ \E w \in Workers : Index(w)
         \/ \E w \in Workers : ReplaceChunks(w)
         \/ \E w \in Workers : Fail(w)
         \/ \E w \in Workers : RetryLater(w)
         \/ \E w \in Workers : Crash(w)
         \/ \E w \in Workers : Restart(w)
         \/ Tick
         \/ UNCHANGED vars
  BY DEF Next, WorkerStep

\* A worker between its claim and its outcome has a well-formed job.
LEMMA BusyHasJob ==
  ASSUME TypeOK, NEW w \in Workers, phase[w] \in Busy
  PROVE  /\ job[w].doc \in Docs
         /\ job[w].attempts \in Nat
         /\ job[w] \in Snapshot
  BY DEF TypeOK, Snapshot

\* The end of a round keeps the shape of the workers.
LEMMA NextRoundType ==
  ASSUME TypeOK, NEW w \in Workers, NextRound(w)
  PROVE  /\ phase' \in [Workers -> Phases]
         /\ job' \in [Workers -> Snapshot \cup {NoJob}]
         /\ \A v \in Workers : phase'[v] \in Busy <=> job'[v] # NoJob
<1> USE DEF NextRound, TypeOK
<1>1. phase' \in [Workers -> Phases]
  BY DEF Phases
<1>2. job' \in [Workers -> Snapshot \cup {NoJob}]
  OBVIOUS
<1>3. ASSUME NEW v \in Workers PROVE phase'[v] \in Busy <=> job'[v] # NoJob
  BY <1>1, <1>2 DEF Busy, Failing
<1> QED
  BY <1>1, <1>2, <1>3

\* A settling write keeps the shape of the job table.
LEMMA SettleType ==
  ASSUME TypeOK, NEW w \in Workers, phase[w] \in Busy,
         NEW to \in JobStates \ {"running"}, NEW error \in Errors,
         Settle(w, to, error)
  PROVE  /\ state' \in [Docs -> JobStates]
         /\ attempts' \in [Docs -> Nat]
         /\ lockedBy' \in [Docs -> Ids \cup {NoOne}]
         /\ lastError' \in [Docs -> Errors]
         /\ leaseExpired' \in [Docs -> BOOLEAN]
         /\ \A d \in Docs : state'[d] = "running" <=> lockedBy'[d] # NoOne
<1>1. job[w].doc \in Docs
  BY BusyHasJob
<1> QED
  BY <1>1 DEF Settle, TypeOK

-----------------------------------------------------------------------------
\* Type correctness of Spec.
THEOREM TypeCorrect == Spec => []TypeOK
<1> USE IngestAssumption DEF TypeOK, JobStates, Statuses, Errors, Failing, Phases, Busy, Snapshot
<1>1. Init => TypeOK
  BY DEF Init
<1>2. TypeOK /\ [Next]_vars => TypeOK'
  <2> SUFFICES ASSUME TypeOK, [Next]_vars PROVE TypeOK'
    OBVIOUS
  <2>1. ASSUME NEW d \in Docs, Upload(d) PROVE TypeOK'
    BY <2>1 DEF Upload, workers
  <2>2. ASSUME NEW d \in Docs, LeaseExpires(d) PROVE TypeOK'
    BY <2>2 DEF LeaseExpires, documents, workers
  <2>3. ASSUME NEW w \in Workers, ReclaimExpired(w) PROVE TypeOK'
    BY <2>3 DEF ReclaimExpired, Expired, AfterLease, StatusAfterLease
  <2>4. ASSUME NEW w \in Workers, NEW d \in Docs, Claim(w, d) PROVE TypeOK'
    BY <2>4 DEF Claim, Due
  <2>5. ASSUME NEW w \in Workers, NothingDue(w) PROVE TypeOK'
    BY <2>5 DEF NothingDue, NextRound, jobs, documents
  <2>6. ASSUME NEW w \in Workers, Index(w) PROVE TypeOK'
    BY <2>6 DEF Index, jobs, documents
  <2>7. ASSUME NEW w \in Workers, ReplaceChunks(w) PROVE TypeOK'
    <3>1. phase[w] \in Busy
      BY <2>7 DEF ReplaceChunks
    <3>2. job[w].doc \in Docs /\ job[w].attempts \in Nat
      BY <3>1, BusyHasJob
    <3>3. NextRound(w) /\ runAfter' = runAfter /\ now' = now
      BY <2>7 DEF ReplaceChunks
    <3>4. CASE HoldsLease(w)
      <4>1. /\ Settle(w, "succeeded", "none")
            /\ status' = [status EXCEPT ![job[w].doc] = "ready"]
            /\ chunks' = [chunks EXCEPT ![job[w].doc] = job[w].attempts]
        BY <2>7, <3>4 DEF ReplaceChunks
      <4> QED
        BY <3>1, <3>2, <3>3, <4>1, SettleType, NextRoundType
    <3>5. CASE ~HoldsLease(w)
      <4>1. UNCHANGED <<state, attempts, lockedBy, lastError, leaseExpired, documents>>
        BY <2>7, <3>5 DEF ReplaceChunks
      <4> QED
        BY <3>3, <4>1, NextRoundType DEF documents
    <3> QED
      BY <3>4, <3>5
  <2>8. ASSUME NEW w \in Workers, Fail(w) PROVE TypeOK'
    <3>1. phase[w] \in Busy /\ phase[w] \in Errors
      BY <2>8 DEF Fail
    <3>2. job[w].doc \in Docs
      BY <3>1, BusyHasJob
    <3>3. NextRound(w) /\ UNCHANGED <<runAfter, chunks, now>>
      BY <2>8 DEF Fail
    <3>4. CASE HoldsLease(w)
      <4>1. /\ Settle(w, "failed", phase[w])
            /\ status' = [status EXCEPT ![job[w].doc] = "failed"]
        BY <2>8, <3>4 DEF Fail
      <4> QED
        BY <3>1, <3>2, <3>3, <4>1, SettleType, NextRoundType
    <3>5. CASE ~HoldsLease(w)
      <4>1. UNCHANGED <<state, attempts, lockedBy, lastError, leaseExpired, status>>
        BY <2>8, <3>5 DEF Fail
      <4> QED
        BY <3>3, <4>1, NextRoundType
    <3> QED
      BY <3>4, <3>5
  <2>9. ASSUME NEW w \in Workers, RetryLater(w) PROVE TypeOK'
    <3>1. phase[w] \in Busy /\ phase[w] \in Errors
      BY <2>9 DEF RetryLater
    <3>2. job[w].doc \in Docs
      BY <3>1, BusyHasJob
    <3>3. NextRound(w) /\ UNCHANGED <<chunks, now>>
      BY <2>9 DEF RetryLater
    <3>4. CASE HoldsLease(w)
      <4>1. /\ Settle(w, "queued", phase[w])
            /\ status' = [status EXCEPT ![job[w].doc] = "pending"]
        BY <2>9, <3>4 DEF RetryLater
      <4>2. PICK delay \in Delays : runAfter' = [runAfter EXCEPT ![job[w].doc] = now + delay]
        BY <2>9, <3>4 DEF RetryLater
      <4>3. runAfter' \in [Docs -> Nat]
        BY <3>2, <4>2, now + delay \in Nat
      <4>4. status' \in [Docs -> Statuses]
        BY <3>2, <4>1
      <4>5. "queued" \in JobStates \ {"running"}
        OBVIOUS
      <4>6. /\ state' \in [Docs -> JobStates]
            /\ attempts' \in [Docs -> Nat]
            /\ lockedBy' \in [Docs -> Ids \cup {NoOne}]
            /\ lastError' \in [Docs -> Errors]
            /\ leaseExpired' \in [Docs -> BOOLEAN]
            /\ \A d \in Docs : state'[d] = "running" <=> lockedBy'[d] # NoOne
        BY <3>1, <4>1, <4>5, SettleType
      <4> QED
        BY <3>3, <4>3, <4>4, <4>6, NextRoundType
    <3>5. CASE ~HoldsLease(w)
      <4>1. UNCHANGED <<jobs, status>>
        BY <2>9, <3>5 DEF RetryLater
      <4> QED
        BY <3>3, <4>1, NextRoundType DEF jobs
    <3> QED
      BY <3>4, <3>5
  <2>10. ASSUME NEW w \in Workers, Crash(w) PROVE TypeOK'
    BY <2>10 DEF Crash, jobs, documents
  <2>11. ASSUME NEW w \in Workers, Restart(w) PROVE TypeOK'
    BY <2>11 DEF Restart, NextRound, jobs, documents
  <2>12. CASE Tick
    BY <2>12 DEF Tick, jobs, documents, workers
  <2>13. CASE UNCHANGED vars
    BY <2>13 DEF vars, jobs, documents, workers
  <2> QED
    BY <2>1, <2>2, <2>3, <2>4, <2>5, <2>6, <2>7, <2>8, <2>9, <2>10, <2>11, <2>12, <2>13,
       NextCases
<1> QED
  BY <1>1, <1>2, PTL DEF Spec

-----------------------------------------------------------------------------
\* With worker ids of their own, a worker whose fence holds works on the running
\* attempt: another worker's claim changes locked_by, and its own next claim
\* comes after it has let go of this job.
LEMMA FenceStep ==
  ASSUME UniqueIds, TypeOK, TypeOK', FenceIsExact, [Next]_vars
  PROVE  FenceIsExact'
<1> SUFFICES ASSUME NEW v \in Workers, job'[v] # NoJob, HoldsLease(v)'
             PROVE  attempts'[job'[v].doc] = job'[v].attempts
  BY DEF FenceIsExact
<1> DEFINE Preserved == /\ job'[v] = job[v]
                   /\ attempts' = attempts
                   /\ HoldsLease(v)
<1>1. Preserved => attempts'[job'[v].doc] = job'[v].attempts
  BY DEF FenceIsExact
<1>2. job'[v] \in Snapshot
  BY DEF TypeOK
<1>3. ASSUME NEW w \in Workers, NextRound(w) PROVE job'[v] = job[v]
  BY <1>3 DEF NextRound, TypeOK
<1>4. ASSUME NEW w \in Workers, phase[w] \in Busy, NEW to \in JobStates \ {"running"},
             NEW error \in Errors, Settle(w, to, error), NextRound(w)
      PROVE  Preserved
  <2>1. job'[v] = job[v]
    BY <1>3, <1>4
  <2>2. attempts' = attempts
    BY <1>4 DEF Settle
  <2>3. job[w].doc \in Docs /\ job[v].doc \in Docs
    BY <1>2, <1>4, <2>1, BusyHasJob DEF Snapshot
  <2>4. state'[job[v].doc] = "running" /\ lockedBy'[job[v].doc] = IdOf[v]
    BY <2>1 DEF HoldsLease
  <2>5. job[v].doc # job[w].doc
    BY <1>4, <2>3, <2>4 DEF Settle, TypeOK
  <2> QED
    BY <1>4, <2>1, <2>2, <2>3, <2>4, <2>5 DEF Settle, HoldsLease, TypeOK
<1>5. ASSUME UNCHANGED <<state, attempts, lockedBy>>, job'[v] = job[v] PROVE Preserved
  BY <1>5 DEF HoldsLease
<1>6. ASSUME NEW d \in Docs, Upload(d) PROVE Preserved
  <2>1. job' = job /\ attempts' = attempts /\ lockedBy' = lockedBy
    BY <1>6 DEF Upload, workers
  <2>2. job[v].doc \in Docs
    BY <1>2, <2>1 DEF Snapshot
  <2>3. job[v].doc # d
    BY <1>6, <2>1, <2>2 DEF Upload, HoldsLease, TypeOK
  <2> QED
    BY <1>6, <2>1, <2>2, <2>3 DEF Upload, HoldsLease, TypeOK
<1>7. ASSUME NEW w \in Workers, ReclaimExpired(w) PROVE Preserved
  <2>1. job' = job /\ attempts' = attempts
    BY <1>7 DEF ReclaimExpired
  <2>2. job[v].doc \in Docs
    BY <1>2, <2>1 DEF Snapshot
  <2>3. job[v].doc \notin Expired
    BY <1>7, <2>1, <2>2 DEF ReclaimExpired, AfterLease, HoldsLease
  <2> QED
    BY <1>7, <2>1, <2>2, <2>3 DEF ReclaimExpired, HoldsLease
<1>8. ASSUME NEW w \in Workers, NEW d \in Docs, Claim(w, d)
      PROVE  attempts'[job'[v].doc] = job'[v].attempts
  <2>1. CASE v = w
    <3>1. job'[v] = [doc |-> d, attempts |-> attempts[d] + 1]
      BY <1>8, <2>1 DEF Claim, TypeOK
    <3>2. attempts'[d] = attempts[d] + 1
      BY <1>8 DEF Claim, TypeOK
    <3> QED
      BY <3>1, <3>2
  <2>2. CASE v # w
    <3>1. job'[v] = job[v]
      BY <1>8, <2>2 DEF Claim, TypeOK
    <3>2. job[v].doc \in Docs
      BY <1>2, <3>1 DEF Snapshot
    <3>3. lockedBy'[job[v].doc] = IdOf[v] /\ lockedBy'[d] = IdOf[w]
      BY <1>8, <3>1 DEF HoldsLease, Claim, TypeOK
    <3>4. job[v].doc # d
      BY <2>2, <3>3 DEF UniqueIds
    <3>5. HoldsLease(v) /\ attempts'[job[v].doc] = attempts[job[v].doc]
      BY <1>8, <3>1, <3>2, <3>4 DEF HoldsLease, Claim, TypeOK
    <3> QED
      BY <3>1, <3>5 DEF FenceIsExact
  <2> QED
    BY <2>1, <2>2
<1>9. ASSUME NEW w \in Workers, ReplaceChunks(w) PROVE Preserved
  <2>1. phase[w] \in Busy /\ NextRound(w)
    BY <1>9 DEF ReplaceChunks, Busy
  <2>2. CASE HoldsLease(w)
    BY <1>4, <1>9, <2>1, <2>2 DEF ReplaceChunks, JobStates, Errors
  <2>3. CASE ~HoldsLease(w)
    BY <1>3, <1>5, <1>9, <2>1, <2>3 DEF ReplaceChunks
  <2> QED
    BY <2>2, <2>3
<1>10. ASSUME NEW w \in Workers, Fail(w) PROVE Preserved
  <2>1. phase[w] \in Busy /\ phase[w] \in Errors /\ NextRound(w)
    BY <1>10 DEF Fail, Busy, Failing, Errors
  <2>2. CASE HoldsLease(w)
    BY <1>4, <1>10, <2>1, <2>2 DEF Fail, JobStates
  <2>3. CASE ~HoldsLease(w)
    BY <1>3, <1>5, <1>10, <2>1, <2>3 DEF Fail
  <2> QED
    BY <2>2, <2>3
<1>11. ASSUME NEW w \in Workers, RetryLater(w) PROVE Preserved
  <2>1. phase[w] \in Busy /\ phase[w] \in Errors /\ NextRound(w)
    BY <1>11 DEF RetryLater, Busy, Failing, Errors
  <2>2. CASE HoldsLease(w)
    BY <1>4, <1>11, <2>1, <2>2 DEF RetryLater, JobStates
  <2>3. CASE ~HoldsLease(w)
    BY <1>3, <1>5, <1>11, <2>1, <2>3 DEF RetryLater, jobs
  <2> QED
    BY <2>2, <2>3
<1>12. ASSUME NEW w \in Workers, NothingDue(w) \/ Index(w) \/ Crash(w) \/ Restart(w)
       PROVE  Preserved
  <2>1. UNCHANGED <<state, attempts, lockedBy>>
    BY <1>12 DEF NothingDue, Index, Crash, Restart, jobs
  <2>2. job'[v] = job[v]
    BY <1>3, <1>12 DEF NothingDue, Index, Crash, Restart, TypeOK
  <2> QED
    BY <1>5, <2>1, <2>2
<1>13. ASSUME NEW d \in Docs, LeaseExpires(d) PROVE Preserved
  BY <1>5, <1>13 DEF LeaseExpires, workers
<1>14. ASSUME Tick \/ UNCHANGED vars PROVE Preserved
  BY <1>5, <1>14 DEF Tick, vars, jobs, workers
<1> QED
  BY <1>1, <1>6, <1>7, <1>8, <1>9, <1>10, <1>11, <1>12, <1>13, <1>14, NextCases

\* The fence identifies the running attempt, in every deployment that gives each
\* worker an id of its own.
THEOREM FenceExact ==
  ASSUME UniqueIds
  PROVE  Spec => []FenceIsExact
<1>1. Init => FenceIsExact
  BY DEF Init, FenceIsExact
<1>2. TypeOK /\ TypeOK' /\ FenceIsExact /\ [Next]_vars => FenceIsExact'
  BY FenceStep
<1> QED
  BY <1>1, <1>2, TypeCorrect, PTL DEF Spec

-----------------------------------------------------------------------------
\* What the tables say of one document.
RowOK(d) ==
  /\ status[d] = StatusOf(state[d])
  /\ chunks[d] = IF state[d] = "succeeded" THEN attempts[d] ELSE 0
  /\ attempts[d] <= MaxAttempts
  /\ state[d] = "queued" => attempts[d] < MaxAttempts
  /\ state[d] = "failed" => attempts[d] = MaxAttempts \/ IsPermanent(lastError[d])
  /\ state[d] = "none" => attempts[d] = 0

RowsOK == \A d \in Docs : RowOK(d)

\* A row whose columns a step leaves alone stays in order.
LEMMA RowUnchanged ==
  ASSUME NEW d \in Docs, RowOK(d),
         state'[d] = state[d], attempts'[d] = attempts[d], lastError'[d] = lastError[d],
         status'[d] = status[d], chunks'[d] = chunks[d]
  PROVE  RowOK(d)'
  BY DEF RowOK

\* Every step keeps the rows in order, given that the fence is exact: the attempt
\* a worker counts with is then the attempt in the row.
LEMMA RowsStep ==
  ASSUME TypeOK, TypeOK', FenceIsExact, RowsOK, [Next]_vars
  PROVE  RowsOK'
<1> SUFFICES ASSUME NEW e \in Docs PROVE RowOK(e)'
  BY DEF RowsOK
<1>0. RowOK(e) /\ MaxAttempts \in Nat \ {0} /\ attempts[e] \in Nat
  BY IngestAssumption DEF RowsOK, TypeOK
<1>1. ASSUME UNCHANGED <<state, attempts, lastError, documents>> PROVE RowOK(e)'
  BY <1>0, <1>1, RowUnchanged DEF documents
<1>2. ASSUME NEW w \in Workers, phase[w] \in Busy, HoldsLease(w)
      PROVE  /\ job[w].doc \in Docs
             /\ state[job[w].doc] = "running"
             /\ attempts[job[w].doc] = job[w].attempts
  BY <1>2, BusyHasJob DEF HoldsLease, FenceIsExact, TypeOK
<1>3. ASSUME NEW d \in Docs, Upload(d) PROVE RowOK(e)'
  <2>1. CASE e = d
    BY <1>0, <1>3, <2>1 DEF Upload, RowOK, StatusOf, TypeOK
  <2>2. CASE e # d
    BY <1>0, <1>3, <2>2, RowUnchanged DEF Upload, TypeOK
  <2> QED
    BY <2>1, <2>2
<1>4. ASSUME NEW w \in Workers, ReclaimExpired(w) PROVE RowOK(e)'
  <2>1. CASE e \in Expired
    <3>1. /\ state[e] = "running"
          /\ state'[e] = AfterLease(e) /\ status'[e] = StatusAfterLease(e)
          /\ attempts'[e] = attempts[e] /\ chunks'[e] = chunks[e]
      BY <1>4, <2>1 DEF ReclaimExpired, Expired
    <3> QED
      BY <1>0, <3>1 DEF AfterLease, StatusAfterLease, RowOK, StatusOf
  <2>2. CASE e \notin Expired
    BY <1>0, <1>4, <2>2, RowUnchanged DEF ReclaimExpired
  <2> QED
    BY <2>1, <2>2
<1>5. ASSUME NEW w \in Workers, NEW d \in Docs, Claim(w, d) PROVE RowOK(e)'
  <2>1. CASE e = d
    BY <1>0, <1>5, <2>1 DEF Claim, Due, RowOK, StatusOf, TypeOK
  <2>2. CASE e # d
    BY <1>0, <1>5, <2>2, RowUnchanged DEF Claim, TypeOK
  <2> QED
    BY <2>1, <2>2
<1>6. ASSUME NEW w \in Workers, ReplaceChunks(w) PROVE RowOK(e)'
  <2>1. CASE HoldsLease(w) /\ e = job[w].doc
    <3>1. state[e] = "running" /\ attempts[e] = job[w].attempts
      BY <1>2, <1>6, <2>1 DEF ReplaceChunks, Busy
    <3>2. /\ state'[e] = "succeeded" /\ status'[e] = "ready"
          /\ chunks'[e] = job[w].attempts /\ attempts'[e] = attempts[e]
      BY <1>6, <2>1 DEF ReplaceChunks, Settle, TypeOK
    <3> QED
      BY <1>0, <3>1, <3>2 DEF RowOK, StatusOf
  <2>2. CASE HoldsLease(w) /\ e # job[w].doc
    BY <1>0, <1>6, <2>2, RowUnchanged DEF ReplaceChunks, Settle, TypeOK
  <2>3. CASE ~HoldsLease(w)
    BY <1>1, <1>6, <2>3 DEF ReplaceChunks
  <2> QED
    BY <2>1, <2>2, <2>3
<1>7. ASSUME NEW w \in Workers, Fail(w) PROVE RowOK(e)'
  <2>1. CASE HoldsLease(w) /\ e = job[w].doc
    <3>1. /\ state[e] = "running" /\ attempts[e] = job[w].attempts
          /\ IsPermanent(phase[w]) \/ job[w].attempts >= MaxAttempts
      BY <1>2, <1>7, <2>1 DEF Fail, Busy
    <3>2. /\ state'[e] = "failed" /\ status'[e] = "failed"
          /\ chunks'[e] = chunks[e] /\ attempts'[e] = attempts[e]
          /\ lastError'[e] = phase[w]
      BY <1>7, <2>1 DEF Fail, Settle, TypeOK
    <3> QED
      BY <1>0, <3>1, <3>2 DEF RowOK, StatusOf, IsPermanent
  <2>2. CASE HoldsLease(w) /\ e # job[w].doc
    BY <1>0, <1>7, <2>2, RowUnchanged DEF Fail, Settle, TypeOK
  <2>3. CASE ~HoldsLease(w)
    BY <1>1, <1>7, <2>3 DEF Fail, documents
  <2> QED
    BY <2>1, <2>2, <2>3
<1>8. ASSUME NEW w \in Workers, RetryLater(w) PROVE RowOK(e)'
  <2>1. CASE HoldsLease(w) /\ e = job[w].doc
    <3>1. /\ state[e] = "running" /\ attempts[e] = job[w].attempts
          /\ job[w].attempts < MaxAttempts
      BY <1>2, <1>8, <2>1 DEF RetryLater, Busy
    <3>2. /\ state'[e] = "queued" /\ status'[e] = "pending"
          /\ chunks'[e] = chunks[e] /\ attempts'[e] = attempts[e]
      BY <1>8, <2>1 DEF RetryLater, Settle, TypeOK
    <3> QED
      BY <1>0, <3>1, <3>2 DEF RowOK, StatusOf
  <2>2. CASE HoldsLease(w) /\ e # job[w].doc
    BY <1>0, <1>8, <2>2, RowUnchanged DEF RetryLater, Settle, TypeOK
  <2>3. CASE ~HoldsLease(w)
    BY <1>1, <1>8, <2>3 DEF RetryLater, jobs, documents
  <2> QED
    BY <2>1, <2>2, <2>3
<1>9. ASSUME NEW w \in Workers, NothingDue(w) \/ Index(w) \/ Crash(w) \/ Restart(w)
      PROVE  RowOK(e)'
  BY <1>1, <1>9 DEF NothingDue, Index, Crash, Restart, jobs
<1>10. ASSUME NEW d \in Docs, LeaseExpires(d) PROVE RowOK(e)'
  BY <1>1, <1>10 DEF LeaseExpires
<1>11. ASSUME Tick \/ UNCHANGED vars PROVE RowOK(e)'
  BY <1>1, <1>11 DEF Tick, vars, jobs
<1> QED
  BY <1>3, <1>4, <1>5, <1>6, <1>7, <1>8, <1>9, <1>10, <1>11, NextCases

\* The rows are always in order.
THEOREM RowsAlwaysOK ==
  ASSUME UniqueIds
  PROVE  Spec => []RowsOK
<1>1. Init => RowsOK
  <2> SUFFICES ASSUME Init, NEW d \in Docs PROVE RowOK(d)
    BY DEF RowsOK
  <2>1. state[d] = "none" /\ attempts[d] = 0 /\ status[d] = "absent" /\ chunks[d] = 0
    BY DEF Init
  <2> QED
    BY <2>1, IngestAssumption DEF RowOK, StatusOf
<1>2. TypeOK /\ TypeOK' /\ FenceIsExact /\ RowsOK /\ [Next]_vars => RowsOK'
  BY RowsStep
<1> QED
  BY <1>1, <1>2, TypeCorrect, FenceExact, PTL DEF Spec

\* Documents and jobs agree, and only a finished job has chunks.
THEOREM TablesAgree ==
  ASSUME UniqueIds
  PROVE  Spec => []DocumentAgreesWithJob
<1>1. RowsOK => DocumentAgreesWithJob
  BY DEF RowsOK, RowOK, DocumentAgreesWithJob
<1> QED
  BY <1>1, RowsAlwaysOK, PTL

\* No job is attempted more than max_attempts times, whatever crashes.
THEOREM AttemptsAreBounded ==
  ASSUME UniqueIds
  PROVE  Spec => []AttemptsBounded
<1>1. RowsOK => AttemptsBounded
  BY DEF RowsOK, RowOK, AttemptsBounded
<1> QED
  BY <1>1, RowsAlwaysOK, PTL

\* No document fails while it has attempts left and no permanent error.
THEOREM FailuresAreEarned ==
  ASSUME UniqueIds
  PROVE  Spec => []FailureIsEarned
<1>1. RowsOK => FailureIsEarned
  BY DEF RowsOK, RowOK, FailureIsEarned
<1> QED
  BY <1>1, RowsAlwaysOK, PTL

-----------------------------------------------------------------------------
\* A worker that lost its lease writes nothing when it comes back.
THEOREM LostLeaseIsHarmless ==
  ASSUME UniqueIds
  PROVE  Spec => LostLeaseWritesNothing
<1> DEFINE Harmless == \A w \in Workers :
                         phase[w] \in Busy /\ phase'[w] = "reclaim" /\ LeaseLost(w)
                           => UNCHANGED <<jobs, documents>>
<1>1. TypeOK /\ FenceIsExact /\ [Next]_vars => Harmless
  <2> SUFFICES ASSUME TypeOK, FenceIsExact, [Next]_vars, NEW w \in Workers,
                      phase[w] \in Busy, phase'[w] = "reclaim", LeaseLost(w)
               PROVE  UNCHANGED <<jobs, documents>>
    OBVIOUS
  <2>1. ~HoldsLease(w)
    BY BusyHasJob DEF FenceIsExact, HoldsLease, LeaseLost, TypeOK
  <2>2. phase[w] # "reclaim" /\ phase[w] # "claim" /\ phase[w] # "down"
    BY DEF Busy, Failing
  <2>3. ASSUME NEW v \in Workers, NextRound(v) PROVE v = w
    BY <2>2, <2>3 DEF NextRound, TypeOK
  <2>4. ASSUME NEW v \in Workers, ReplaceChunks(v) PROVE UNCHANGED <<jobs, documents>>
    BY <2>1, <2>3, <2>4 DEF ReplaceChunks, jobs
  <2>5. ASSUME NEW v \in Workers, Fail(v) PROVE UNCHANGED <<jobs, documents>>
    BY <2>1, <2>3, <2>5 DEF Fail, jobs, documents
  <2>6. ASSUME NEW v \in Workers, RetryLater(v) PROVE UNCHANGED <<jobs, documents>>
    BY <2>1, <2>3, <2>6 DEF RetryLater, documents
  <2>7. ASSUME NEW v \in Workers, NothingDue(v) \/ Index(v) \/ Crash(v) \/ Restart(v)
        PROVE  UNCHANGED <<jobs, documents>>
    BY <2>7 DEF NothingDue, Index, Crash, Restart
  <2>8. ASSUME NEW v \in Workers, ReclaimExpired(v) PROVE FALSE
    BY <2>2, <2>8 DEF ReclaimExpired, TypeOK
  <2>9. ASSUME NEW v \in Workers, NEW d \in Docs, Claim(v, d) PROVE FALSE
    BY <2>2, <2>9 DEF Claim, TypeOK
  <2>10. ASSUME NEW d \in Docs, Upload(d) \/ LeaseExpires(d) PROVE FALSE
    BY <2>2, <2>10 DEF Upload, LeaseExpires, workers
  <2>11. CASE Tick
    BY <2>11 DEF Tick
  <2>12. CASE UNCHANGED vars
    BY <2>12 DEF vars
  <2> QED
    BY <2>4, <2>5, <2>6, <2>7, <2>8, <2>9, <2>10, <2>11, <2>12, NextCases
<1>2. TypeOK /\ FenceIsExact /\ [Next]_vars => [Harmless]_vars
  BY <1>1
<1> QED
  BY <1>2, TypeCorrect, FenceExact, PTL DEF Spec, LostLeaseWritesNothing

-----------------------------------------------------------------------------
\* Every step of the queue is a step of the document lifecycle, or changes no
\* document.
LEMMA LifecycleStep ==
  ASSUME TypeOK, FenceIsExact, RowsOK, [Next]_vars
  PROVE  [Promised!Next]_(Promised!lifecycle)
<1> SUFFICES Promised!Next \/ UNCHANGED <<status, attempts, chunks>>
  BY DEF Promised!lifecycle
<1>1. ASSUME NEW w \in Workers, phase[w] \in Busy, HoldsLease(w)
      PROVE  /\ job[w].doc \in Docs
             /\ status[job[w].doc] = "indexing"
             /\ chunks[job[w].doc] = 0
             /\ attempts[job[w].doc] = job[w].attempts
  <2>1. job[w].doc \in Docs /\ state[job[w].doc] = "running"
    BY <1>1, BusyHasJob DEF HoldsLease
  <2>2. RowOK(job[w].doc)
    BY <2>1 DEF RowsOK
  <2> QED
    BY <1>1, <2>1, <2>2 DEF RowOK, StatusOf, FenceIsExact, TypeOK
<1>2. ASSUME NEW d \in Docs, Upload(d) PROVE Promised!Submit(d)
  <2>1. RowOK(d)
    BY DEF RowsOK
  <2> QED
    BY <1>2, <2>1 DEF Upload, Promised!Submit, RowOK, StatusOf
<1>3. ASSUME NEW w \in Workers, ReclaimExpired(w) PROVE Promised!Release(Expired)
  <2>1. ASSUME NEW d \in Expired PROVE status[d] = "indexing" /\ d \in Docs
    <3>1. state[d] = "running" /\ RowOK(d) /\ d \in Docs
      BY <2>1 DEF Expired, RowsOK
    <3> QED
      BY <3>1 DEF RowOK, StatusOf
  <2>2. ASSUME NEW d \in Docs
        PROVE  StatusAfterLease(d) = IF attempts[d] < MaxAttempts THEN "pending" ELSE "failed"
    BY <2>2, IngestAssumption DEF StatusAfterLease, AfterLease, TypeOK
  <2> QED
    BY <1>3, <2>1, <2>2 DEF ReclaimExpired, Promised!Release
<1>4. ASSUME NEW w \in Workers, NEW d \in Docs, Claim(w, d) PROVE Promised!Attempt(d)
  <2>1. RowOK(d) /\ state[d] = "queued"
    BY <1>4 DEF Claim, Due, RowsOK
  <2> QED
    BY <1>4, <2>1 DEF Claim, Promised!Attempt, RowOK, StatusOf
<1>5. ASSUME NEW w \in Workers, ReplaceChunks(w), HoldsLease(w)
      PROVE  Promised!Publish(job[w].doc) /\ job[w].doc \in Docs
  <2>1. phase[w] \in Busy
    BY <1>5 DEF ReplaceChunks, Busy
  <2> QED
    BY <1>1, <1>5, <2>1 DEF ReplaceChunks, Settle, Promised!Publish
<1>6. ASSUME NEW w \in Workers, Fail(w), HoldsLease(w)
      PROVE  Promised!GiveUp(job[w].doc) /\ job[w].doc \in Docs
  <2>1. phase[w] \in Busy
    BY <1>6 DEF Fail, Busy
  <2> QED
    BY <1>1, <1>6, <2>1 DEF Fail, Settle, Promised!GiveUp
<1>7. ASSUME NEW w \in Workers, RetryLater(w), HoldsLease(w)
      PROVE  Promised!Release({job[w].doc}) /\ job[w].doc \in Docs
  <2>1. phase[w] \in Busy
    BY <1>7 DEF RetryLater, Busy
  <2>2. attempts[job[w].doc] < MaxAttempts
    BY <1>1, <1>7, <2>1 DEF RetryLater
  <2>3. status' = [status EXCEPT ![job[w].doc] = "pending"] /\ UNCHANGED <<attempts, chunks>>
    BY <1>7 DEF RetryLater, Settle
  <2>4. status' = [d \in Docs |-> IF d \notin {job[w].doc} THEN status[d]
                                  ELSE IF attempts[d] < MaxAttempts THEN "pending" ELSE "failed"]
    BY <2>2, <2>3 DEF TypeOK
  <2> QED
    BY <1>1, <1>7, <2>1, <2>3, <2>4 DEF Promised!Release
<1>8. ASSUME NEW w \in Workers, ReplaceChunks(w) \/ Fail(w) \/ RetryLater(w), ~HoldsLease(w)
      PROVE  UNCHANGED <<status, attempts, chunks>>
  BY <1>8 DEF ReplaceChunks, Fail, RetryLater, jobs, documents
<1>9. ASSUME NEW w \in Workers, NothingDue(w) \/ Index(w) \/ Crash(w) \/ Restart(w)
      PROVE  UNCHANGED <<status, attempts, chunks>>
  BY <1>9 DEF NothingDue, Index, Crash, Restart, jobs, documents
<1>10. ASSUME \/ \E d \in Docs : LeaseExpires(d)
              \/ Tick
              \/ UNCHANGED vars
       PROVE  UNCHANGED <<status, attempts, chunks>>
  BY <1>10 DEF LeaseExpires, Tick, vars, jobs, documents
<1>11. Expired \in SUBSET Docs
  BY DEF Expired
<1> QED
  BY <1>2, <1>3, <1>4, <1>5, <1>6, <1>7, <1>8, <1>9, <1>10, <1>11, NextCases
     DEF Promised!Next

\* The queue implements the document lifecycle.
THEOREM QueueImplementsLifecycle ==
  ASSUME UniqueIds
  PROVE  Spec => Lifecycle
<1>1. Init => Promised!Init
  BY DEF Init, Promised!Init
<1>2. TypeOK /\ FenceIsExact /\ RowsOK /\ [Next]_vars
        => [Promised!Next]_(Promised!lifecycle)
  BY LifecycleStep
<1> QED
  BY <1>1, <1>2, TypeCorrect, FenceExact, RowsAlwaysOK, PTL
     DEF Spec, Lifecycle, Promised!Spec

----------------------------------------------------------------------------
(* The chunker: every character of a document ends up in a chunk with its page. *)
Marks == {0, 1}
Filled == Seq(Marks) \ {<<>>}

LEMMA PagesFilled ==
  ASSUME NEW document \in Seq(Seq(Marks))
  PROVE  WithText(document) \in Seq(Filled)
<1> DEFINE P == Seq(Marks)
           pages == WithText(document)
<1>1. document \in Seq(P)
  OBVIOUS
<1> HIDE DEF P
<1>2. pages \in Seq(P) /\ Range(pages) = Range(document) \cap (Range(document) \ {<<>>})
  BY <1>1, KeptProperties DEF WithText
<1> HIDE DEF pages
<1>3. \A i \in DOMAIN pages : pages[i] \in Range(pages) /\ pages[i] \in P
  BY <1>2 DEF Range
<1>4. Len(pages) \in Nat /\ DOMAIN pages = 1 .. Len(pages)
  BY <1>2
<1>5. pages \in [1 .. Len(pages) -> Filled]
  BY <1>2, <1>3, <1>4 DEF Filled, P
<1>6. pages \in Seq(Filled)
  BY <1>4, <1>5, ListOf
<1> QED
  BY <1>6 DEF pages

(* The text up to each page, and where each page begins. *)
IsText(f, pages) ==
  /\ f \in [0 .. Len(pages) -> Seq(Marks)] /\ f[0] = <<>>
  /\ \A i \in 1 .. Len(pages) :
       f[i] = (IF i = 1 THEN <<>> ELSE Append(f[i - 1], 0)) \o pages[i]

LEMMA TextUnfolds ==
  ASSUME NEW pages \in Seq(Filled)
  PROVE  \E f : IsText(f, pages) /\ Text(pages) = f[Len(pages)]
<1> DEFINE m == Len(pages)
           V == Seq(Marks)
           Joined(t, i) == (IF i = 1 THEN <<>> ELSE Append(t, 0)) \o pages[i]
           Body(f) == [i \in 0 .. m |-> IF i = 0 THEN <<>> ELSE Joined(f[i - 1], i)]
           F == [i \in 1 .. m |-> [t \in V |-> Joined(t, i)]]
           text == CHOOSE f : f = Body(f)
<1>1. m \in Nat /\ (\A i \in 1 .. m : pages[i] \in V) /\ <<>> \in V
  BY DEF Filled
<1>2. \A t \in V, i \in 1 .. m : Joined(t, i) \in V
  <2> TAKE t \in V, i \in 1 .. m
  <2>1. Append(t, 0) \in V /\ <<>> \in V
    BY DEF Marks
  <2> QED
    BY <1>1, <2>1
<1>3. Text(pages) = text[m]
  BY DEF Text
<1> HIDE DEF Joined, V, m
<1>4. F \in Steps(m, V)
  BY <1>2 DEF Steps
<1>5. PICK f : IsIteration(f, m, V, <<>>, F)
  <2> HIDE DEF F
  <2> QED
    BY <1>1, <1>4, Iterates
<1>6. f \in [0 .. m -> V] /\ f[0] = <<>> /\ \A i \in 1 .. m : f[i] = Joined(f[i - 1], i)
  <2>1. \A i \in 1 .. m : i - 1 \in 0 .. m
    BY <1>1
  <2> QED
    BY <1>5, <2>1 DEF IsIteration
<1>7. f = Body(f)
  <2>1. \A i \in 0 .. m : i = 0 \/ i \in 1 .. m
    BY <1>1
  <2>2. \A i \in 0 .. m : f[i] = IF i = 0 THEN <<>> ELSE Joined(f[i - 1], i)
    BY <1>1, <1>6, <2>1
  <2> QED
    BY <1>6, <2>2
<1>8. text = Body(text)
  BY <1>7
<1> HIDE DEF text
<1>9. text[0] = <<>> /\ \A i \in 1 .. m : text[i] = Joined(text[i - 1], i)
  <2>1. 0 \in 0 .. m /\ \A i \in 1 .. m : i \in 0 .. m /\ i # 0
    BY <1>1
  <2> QED
    BY <1>8, <2>1
<1>10. IsIteration(text, m, V, <<>>, F)
  <2>1. \A i \in 1 .. m : text[i - 1] \in V => text[i] = F[i][text[i - 1]]
    BY <1>9
  <2>2. text = [i \in 0 .. m |-> text[i]]
    BY <1>8
  <2> HIDE DEF F
  <2> QED
    BY <1>1, <1>4, <1>9, <2>1, <2>2, Computed
<1>11. IsText(text, pages)
  BY <1>9, <1>10 DEF IsIteration, IsText, Joined, V, m
<1> QED
  BY <1>3, <1>11 DEF m

LEMMA StartsUnfold ==
  ASSUME NEW pages \in Seq(Filled), pages # <<>>
  PROVE  /\ StartOf(pages, 1) = 0
         /\ \A i \in 1 .. Len(pages) : StartOf(pages, i) \in Nat
         /\ \A i \in 2 .. Len(pages) :
              StartOf(pages, i) = StartOf(pages, i - 1) + Len(pages[i - 1]) + 1
<1> DEFINE m == Len(pages)
           Body(f) == [j \in DOMAIN pages |-> IF j = 1 THEN 0 ELSE f[j - 1] + Len(pages[j - 1]) + 1]
           F == [i \in 1 .. m - 1 |-> [n \in Nat |-> n + Len(pages[i]) + 1]]
           start == CHOOSE f : f = Body(f)
<1>1. /\ m \in Nat /\ m > 0 /\ DOMAIN pages = 1 .. m /\ m - 1 \in Nat
      /\ \A i \in 1 .. m : Len(pages[i]) \in Nat
  <2>1. m \in Nat /\ m > 0 /\ DOMAIN pages = 1 .. m /\ \A i \in 1 .. m : pages[i] \in Filled
    OBVIOUS
  <2>2. \A s \in Filled : Len(s) \in Nat
    BY DEF Filled
  <2> QED
    BY <2>1, <2>2
<1>2. \A i : StartOf(pages, i) = start[i]
  BY DEF StartOf
<1> HIDE DEF m
<1>3. F \in Steps(m - 1, Nat)
  <2>1. \A i \in 1 .. m - 1 : Len(pages[i]) \in Nat
    BY <1>1
  <2> QED
    BY <2>1 DEF Steps
<1>4. PICK g : IsIteration(g, m - 1, Nat, 0, F)
  <2> HIDE DEF F
  <2> QED
    BY <1>1, <1>3, Iterates
<1> DEFINE h == [i \in 1 .. m |-> g[i - 1]]
<1>5. h \in [1 .. m -> Nat] /\ h[1] = 0 /\ \A i \in 2 .. m : h[i] = h[i - 1] + Len(pages[i - 1]) + 1
  <2>1. \A i \in 1 .. m : i - 1 \in 0 .. m - 1
    BY <1>1
  <2>2. h \in [1 .. m -> Nat] /\ h[1] = 0
    BY <1>1, <1>4, <2>1 DEF IsIteration
  <2>3. ASSUME NEW i \in 2 .. m PROVE h[i] = h[i - 1] + Len(pages[i - 1]) + 1
    <3>1. i - 1 \in 1 .. m - 1 /\ i - 1 \in 1 .. m /\ i \in 1 .. m /\ (i - 1) - 1 \in 0 .. m - 1
      BY <1>1
    <3>2. h[i] = g[i - 1] /\ h[i - 1] = g[(i - 1) - 1] /\ g[(i - 1) - 1] \in Nat
      BY <1>4, <3>1 DEF IsIteration
    <3>3. g[i - 1] = F[i - 1][g[(i - 1) - 1]]
      BY <1>4, <3>1 DEF IsIteration
    <3> QED
      BY <3>1, <3>2, <3>3
  <2> QED
    BY <2>2, <2>3
<1> HIDE DEF h, F
<1>6. h = Body(h)
  <2>1. \A i \in 1 .. m : i = 1 \/ i \in 2 .. m
    BY <1>1
  <2>2. \A i \in 1 .. m : h[i] = IF i = 1 THEN 0 ELSE h[i - 1] + Len(pages[i - 1]) + 1
    BY <1>5, <2>1
  <2> QED
    BY <1>1, <1>5, <2>2
<1>7. start = Body(start)
  BY <1>6
<1> HIDE DEF start
<1>8. start[1] = 0 /\ \A i \in 2 .. m : start[i] = start[i - 1] + Len(pages[i - 1]) + 1
  <2>1. 1 \in 1 .. m /\ \A i \in 2 .. m : i \in 1 .. m /\ i # 1
    BY <1>1
  <2> QED
    BY <1>1, <1>7, <2>1
<1> DEFINE same == {n \in Nat : n + 1 <= m => start[n + 1] = h[n + 1]}
<1>9. 0 \in same
  BY <1>5, <1>8
<1>10. ASSUME NEW n \in 0 .. (m - 1) - 1, n \in same PROVE n + 1 \in same
  <2>1. n \in Nat /\ n + 1 <= m /\ (n + 1) + 1 \in 2 .. m /\ ((n + 1) + 1) - 1 = n + 1 /\ n + 1 \in Nat
    BY <1>1
  <2>2. start[(n + 1) + 1] = start[n + 1] + Len(pages[n + 1]) + 1
    BY <1>8, <2>1
  <2>3. h[(n + 1) + 1] = h[n + 1] + Len(pages[n + 1]) + 1
    BY <1>5, <2>1
  <2>4. start[n + 1] = h[n + 1]
    BY <1>10, <2>1
  <2> QED
    BY <2>1, <2>2, <2>3, <2>4
<1>11. 0 .. m - 1 \subseteq same
  <2> HIDE DEF same
  <2> QED
    BY <1>1, <1>9, <1>10, BoundedInduction
<1>12. \A i \in 1 .. m : start[i] \in Nat
  <2> TAKE i \in 1 .. m
  <2>1. i - 1 \in 0 .. m - 1 /\ (i - 1) + 1 = i /\ i <= m
    BY <1>1
  <2>2. i - 1 \in same
    BY <1>11, <2>1
  <2>3. start[i] = h[i]
    BY <2>1, <2>2
  <2> QED
    BY <1>5, <2>3
<1> QED
  BY <1>2, <1>8, <1>12 DEF m

(* The text ends where its last page ends, and a newline stands between any two. *)
Newline(pages, j) == StartOf(pages, j) + Len(pages[j])

LEMMA LayoutRight ==
  ASSUME NEW pages \in Seq(Filled), pages # <<>>
  PROVE  /\ Text(pages) \in Seq(Marks) /\ Len(Text(pages)) = Newline(pages, Len(pages))
         /\ \A j \in 1 .. Len(pages) - 1 : Text(pages)[Newline(pages, j) + 1] = 0
<1> DEFINE m == Len(pages)
<1>1. PICK f : IsText(f, pages) /\ Text(pages) = f[m]
  BY TextUnfolds
<1>2. /\ m \in Nat /\ m > 0 /\ m - 1 \in Nat
      /\ \A i \in 1 .. m : pages[i] \in Seq(Marks) /\ Len(pages[i]) \in Nat
  <2>1. m \in Nat /\ m > 0 /\ \A i \in 1 .. m : pages[i] \in Filled
    OBVIOUS
  <2>2. \A s \in Filled : s \in Seq(Marks) /\ Len(s) \in Nat
    BY DEF Filled
  <2> QED
    BY <2>1, <2>2
<1>3. /\ StartOf(pages, 1) = 0 /\ \A i \in 1 .. m : StartOf(pages, i) \in Nat
      /\ \A i \in 2 .. m : StartOf(pages, i) = Newline(pages, i - 1) + 1
  BY StartsUnfold DEF Newline
<1>4. \A i \in 1 .. m : Newline(pages, i) \in Nat
  BY <1>2, <1>3 DEF Newline
<1>5. /\ f \in [0 .. m -> Seq(Marks)] /\ f[0] = <<>> /\ f[1] = <<>> \o pages[1]
      /\ \A i \in 2 .. m : f[i] = Append(f[i - 1], 0) \o pages[i]
  <2>1. 1 \in 1 .. m /\ \A i \in 2 .. m : i \in 1 .. m /\ i # 1
    BY <1>2
  <2> QED
    BY <1>1, <2>1 DEF IsText
<1> DEFINE Right(i) ==
             /\ Len(f[i]) = Newline(pages, i)
             /\ \A j \in 1 .. i - 1 : Newline(pages, j) + 1 <= Len(f[i]) /\ f[i][Newline(pages, j) + 1] = 0
           S == {n \in Nat : n + 1 <= m => Right(n + 1)}
<1> HIDE DEF m
<1>6. 0 \in S
  <2>1. pages[1] \in Seq(Marks)
    BY <1>2
  <2>2. f[1] = pages[1]
    BY <1>5, <2>1, ConcatEmptySeq
  <2>3. Len(f[1]) = Newline(pages, 1)
    BY <1>2, <1>3, <2>2 DEF Newline
  <2> QED
    BY <2>3
<1>7. ASSUME NEW n \in 0 .. (m - 1) - 1, n \in S PROVE n + 1 \in S
  <2> DEFINE i == n + 1
             old == f[i]
             p == pages[i + 1]
             new == f[i + 1]
             mid == Append(old, 0)
  <2>1. /\ n \in Nat /\ i \in Nat /\ i <= m /\ i \in 1 .. m /\ i + 1 \in 2 .. m /\ i + 1 \in 1 .. m
        /\ (i + 1) - 1 = i /\ i \in 0 .. m
    BY <1>2
  <2>2. Right(i)
    BY <1>7, <2>1
  <2> HIDE DEF i
  <2>3. new = mid \o p /\ old \in Seq(Marks) /\ p \in Seq(Marks)
    BY <1>2, <1>5, <2>1
  <2> HIDE DEF old, new, p
  <2>4. /\ mid \in Seq(Marks) /\ Len(mid) = Len(old) + 1 /\ mid[Len(old) + 1] = 0
        /\ \A k \in 1 .. Len(old) : mid[k] = old[k]
    <3>1. 0 \in Marks
      BY DEF Marks
    <3> QED
      BY <2>3, <3>1, AppendProperties
  <2> HIDE DEF mid
  <2>5. /\ Len(new) = Len(mid) + Len(p) /\ Len(p) \in Nat /\ Len(old) \in Nat
        /\ \A k \in 1 .. Len(mid) : new[k] = mid[k]
    <3>1. /\ Len(mid \o p) = Len(mid) + Len(p)
          /\ \A k \in 1 .. Len(mid) + Len(p) : (mid \o p)[k] = IF k <= Len(mid) THEN mid[k]
                                                             ELSE p[k - Len(mid)]
      BY <2>3, <2>4, ConcatProperties
    <3>2. Len(p) \in Nat /\ Len(old) \in Nat /\ Len(mid) \in Nat
      BY <2>3, <2>4
    <3> QED
      BY <2>3, <3>1, <3>2
  <2>6. Newline(pages, i + 1) = (Newline(pages, i) + 1) + Len(p)
    BY <1>3, <2>1 DEF Newline, p
  <2>7. Len(old) = Newline(pages, i)
    BY <2>2 DEF old
  <2>8. Len(new) = Newline(pages, i + 1)
    BY <2>4, <2>5, <2>6, <2>7
  <2>9. ASSUME NEW j \in 1 .. i
        PROVE  Newline(pages, j) + 1 <= Len(new) /\ new[Newline(pages, j) + 1] = 0
    <3>1. CASE j = i
      <4>1. Newline(pages, j) + 1 = Len(old) + 1 /\ Len(old) + 1 \in 1 .. Len(mid)
        BY <2>4, <2>5, <2>7, <3>1
      <4> QED
        BY <2>4, <2>5, <4>1
    <3>2. CASE j # i
      <4> DEFINE k == Newline(pages, j) + 1
      <4>1. j \in 1 .. i - 1 /\ j \in 1 .. m
        BY <1>2, <2>1, <3>2
      <4>2. k <= Len(old) /\ old[k] = 0
        BY <2>2, <4>1 DEF old
      <4>3. k \in Nat /\ k > 0
        BY <1>4, <4>1
      <4> HIDE DEF k
      <4>4. k \in 1 .. Len(old) /\ k \in 1 .. Len(mid)
        BY <2>4, <2>5, <4>2, <4>3
      <4>5. new[k] = 0 /\ k <= Len(new)
        BY <2>4, <2>5, <4>2, <4>4
      <4> QED
        BY <4>5 DEF k
    <3> QED
      BY <3>1, <3>2
  <2>10. Right(i + 1)
    BY <2>1, <2>8, <2>9 DEF new
  <2> QED
    BY <2>1, <2>10 DEF i
<1>8. Right(m)
  <2>1. 0 .. m - 1 \subseteq S
    <3> HIDE DEF S
    <3> QED
      BY <1>2, <1>6, <1>7, BoundedInduction
  <2>2. m - 1 \in S /\ (m - 1) + 1 = m /\ m <= m
    <3> HIDE DEF S
    <3> QED
      BY <1>2, <2>1
  <2> QED
    BY <2>2
<1>9. Text(pages) \in Seq(Marks)
  <2>1. m \in 0 .. m
    BY <1>2
  <2> QED
    BY <1>1, <1>5, <2>1
<1> QED
  BY <1>1, <1>8, <1>9 DEF m

(* Some window holds any position. *)
Holds(step, k, p) == k * step <= p /\ p < k * step + step

LEMMA WindowFound ==
  ASSUME NEW step \in Nat, step > 0, NEW p \in Nat
  PROVE  \E k \in 0 .. p : Holds(step, k, p)
<1> DEFINE S == {n \in Nat : \E k \in 0 .. n : Holds(step, k, n)}
<1>1. 0 \in S
  <2>1. 0 * step = 0
    OBVIOUS
  <2>2. 0 \in 0 .. 0 /\ Holds(step, 0, 0)
    BY <2>1 DEF Holds
  <2> QED
    BY <2>2
<1>2. ASSUME NEW n \in S PROVE n + 1 \in S
  <2>1. PICK k \in 0 .. n : Holds(step, k, n)
    OBVIOUS
  <2>2. (k + 1) * step = k * step + step /\ k * step \in Nat /\ n \in Nat
    BY <2>1
  <2>3. CASE n + 1 < k * step + step
    <3>1. k \in 0 .. n + 1 /\ Holds(step, k, n + 1)
      BY <2>1, <2>2, <2>3 DEF Holds
    <3> QED
      BY <2>2, <3>1
  <2>4. CASE ~(n + 1 < k * step + step)
    <3>1. (k + 1) * step = n + 1
      BY <2>1, <2>2, <2>4 DEF Holds
    <3>2. k + 1 \in 0 .. n + 1 /\ Holds(step, k + 1, n + 1)
      BY <2>1, <2>2, <3>1 DEF Holds
    <3> QED
      BY <2>2, <3>2
  <2> QED
    BY <2>3, <2>4
<1>3. S = Nat
  <2>1. S \in SUBSET Nat
    OBVIOUS
  <2> HIDE DEF S
  <2> QED
    BY <1>1, <1>2, <2>1, NatSets
<1>4. p \in S
  BY <1>3
<1> QED
  BY <1>4

LEMMA PageFound ==
  ASSUME NEW pages \in Seq(Filled), NEW p \in 0 .. Len(Text(pages)) - 1, Text(pages)[p + 1] = 1
  PROVE  /\ PageAt(pages, p) \in DOMAIN pages
         /\ p \in StartOf(pages, PageAt(pages, p)) ..
                  (StartOf(pages, PageAt(pages, p)) + Len(pages[PageAt(pages, p)]) - 1)
<1> DEFINE m == Len(pages)
           i == PageAt(pages, p)
<1>1. m \in Nat /\ DOMAIN pages = 1 .. m /\ \A k \in 1 .. m : Len(pages[k]) \in Nat
  <2>1. m \in Nat /\ DOMAIN pages = 1 .. m /\ \A k \in 1 .. m : pages[k] \in Filled
    OBVIOUS
  <2>2. \A s \in Filled : Len(s) \in Nat
    BY DEF Filled
  <2> QED
    BY <2>1, <2>2
<1>2. pages # <<>>
  <2> SUFFICES ASSUME pages = <<>> PROVE FALSE
    OBVIOUS
  <2>1. PICK f : IsText(f, pages) /\ Text(pages) = f[Len(pages)]
    BY TextUnfolds
  <2>2. Text(pages) = <<>>
    BY <2>1 DEF IsText
  <2> QED
    BY <2>2
<1>3. /\ Text(pages) \in Seq(Marks) /\ Len(Text(pages)) = Newline(pages, m)
      /\ \A j \in 1 .. m - 1 : Text(pages)[Newline(pages, j) + 1] = 0
  BY <1>2, LayoutRight
<1>4. /\ StartOf(pages, 1) = 0 /\ \A k \in 1 .. m : StartOf(pages, k) \in Nat
      /\ \A k \in 2 .. m : StartOf(pages, k) = Newline(pages, k - 1) + 1
  BY <1>2, StartsUnfold DEF Newline
<1>5. m > 0 /\ p \in Nat /\ p < Newline(pages, m)
  <2>1. m > 0
    BY <1>2
  <2>2. Len(Text(pages)) \in Nat
    BY <1>3
  <2> QED
    BY <1>3, <2>1, <2>2
<1> HIDE DEF m
<1> DEFINE T == {k \in 1 .. m : StartOf(pages, k) <= p}
<1>6. i \in T /\ \A k \in T : k <= i
  <2>1. T # {} /\ T \in SUBSET (0 .. m)
    BY <1>1, <1>4, <1>5
  <2>2. i = Max(T)
    BY <1>1 DEF PageAt
  <2> HIDE DEF T, i
  <2> QED
    BY <1>1, <2>1, <2>2, MaxIn
<1> HIDE DEF i
<1>7. i \in 1 .. m /\ StartOf(pages, i) <= p /\ StartOf(pages, i) \in Nat /\ Len(pages[i]) \in Nat
  BY <1>1, <1>4, <1>6
<1>8. p < Newline(pages, i)
  <2>1. CASE i = m
    BY <1>5, <2>1
  <2>2. CASE i # m
    <3>1. i + 1 \in 2 .. m /\ i + 1 \in 1 .. m /\ (i + 1) - 1 = i /\ i \in 1 .. m - 1
      BY <1>1, <1>7, <2>2
    <3>2. i + 1 \notin T
      BY <1>6, <1>7
    <3>3. p < Newline(pages, i) + 1
      BY <1>4, <1>5, <3>1, <3>2
    <3>4. p # Newline(pages, i)
      BY <1>3, <3>1
    <3>5. Newline(pages, i) \in Nat
      BY <1>7 DEF Newline
    <3> QED
      BY <1>5, <3>3, <3>4, <3>5
  <2> QED
    BY <2>1, <2>2
<1>9. i \in DOMAIN pages /\ p \in StartOf(pages, i) .. (StartOf(pages, i) + Len(pages[i]) - 1)
  BY <1>1, <1>5, <1>7, <1>8 DEF Newline
<1> QED
  BY <1>9 DEF i

(* Every character that is not white space is in a chunk, which names the page that
   the chunk's own first character is on: for any pages, window and overlap. *)
THEOREM EveryCharacterFound ==
  ASSUME NEW document \in Seq(Seq(Marks)), NEW size \in Nat, NEW overlap \in Nat, overlap < size,
         NEW p \in 0 .. Len(Text(WithText(document))) - 1,
         Text(WithText(document))[p + 1] = 1
  PROVE  \E c \in Chunks(document, size, overlap) :
           /\ p \in c.from .. c.to
           /\ c.from \in StartOf(WithText(document), c.page) ..
                (StartOf(WithText(document), c.page) + Len(WithText(document)[c.page]) - 1)
<1> DEFINE pages == WithText(document)
           text == Text(pages)
           step == size - overlap
           Ink(start) == {q \in start .. (start + size - 1) : q < Len(text) /\ text[q + 1] = 1}
<1>1. pages \in Seq(Filled)
  BY PagesFilled
<1> HIDE DEF pages
<1>2. text \in Seq(Marks) /\ Len(text) \in Nat /\ p \in Nat /\ p < Len(text) /\ text[p + 1] = 1
  <2>1. PICK f : IsText(f, pages) /\ text = f[Len(pages)]
    BY <1>1, TextUnfolds
  <2>2. Len(pages) \in 0 .. Len(pages)
    BY <1>1
  <2>3. text \in Seq(Marks)
    BY <2>1, <2>2 DEF IsText
  <2>4. text[p + 1] = 1 /\ p \in 0 .. Len(text) - 1
    BY DEF pages
  <2> HIDE DEF text
  <2>5. Len(text) \in Nat
    BY <2>3
  <2> QED
    BY <2>3, <2>4, <2>5
<1> HIDE DEF text
<1>3. step \in Nat /\ step > 0 /\ step <= size
  OBVIOUS
<1> HIDE DEF step
<1>4. PICK k \in 0 .. p : k * step <= p /\ p < k * step + step
  BY <1>2, <1>3, WindowFound DEF Holds
<1> DEFINE start == k * step
           ink == Ink(start)
<1>5. start \in Nat /\ start <= p /\ p < start + size /\ k \in 0 .. Len(text) /\ start < Len(text)
  <2>1. start \in Nat
    BY <1>3, <1>4
  <2> QED
    BY <1>2, <1>3, <1>4, <2>1
<1>6. [start |-> start, ink |-> ink] \in Windows(text, size, overlap)
  BY <1>5 DEF Windows, step
<1> HIDE DEF start
<1>7. p \in ink /\ ink \in SUBSET (0 .. start + size) /\ start + size \in Nat /\ ink \in SUBSET Nat
  BY <1>2, <1>5
<1>8. /\ Min(ink) \in ink /\ Min(ink) <= p /\ Max(ink) \in ink /\ p <= Max(ink)
  <2> HIDE DEF ink
  <2> QED
    BY <1>7, MinIn, MaxIn
<1> DEFINE first == Min(ink)
           c == [from |-> first, to |-> Max(ink), page |-> PageAt(pages, first)]
<1>9. c \in Chunks(document, size, overlap)
  <2> DEFINE w == [start |-> start, ink |-> ink]
  <2>1. w \in Windows(Text(pages), size, overlap) /\ w.ink # {} /\ w.ink = ink
    BY <1>6, <1>7 DEF text
  <2>2. Chunks(document, size, overlap) =
          {[from |-> Min(v.ink), to |-> Max(v.ink), page |-> PageAt(pages, Min(v.ink))] :
             v \in {v \in Windows(Text(pages), size, overlap) : v.ink # {}}}
    BY DEF Chunks, pages
  <2> HIDE DEF w, ink
  <2> QED
    BY <2>1, <2>2
<1>10. first \in 0 .. Len(text) - 1 /\ text[first + 1] = 1 /\ first \in Nat /\ Max(ink) \in Nat
  BY <1>2, <1>5, <1>8
<1> HIDE DEF first, ink
<1>11. first \in StartOf(pages, PageAt(pages, first)) ..
                 (StartOf(pages, PageAt(pages, first)) + Len(pages[PageAt(pages, first)]) - 1)
  BY <1>1, <1>10, PageFound DEF text
<1>12. c.from = first /\ c.to = Max(ink) /\ c.page = PageAt(pages, first) /\ p \in c.from .. c.to
  BY <1>2, <1>8, <1>10 DEF first
<1> HIDE DEF c
<1> QED
  BY <1>9, <1>11, <1>12 DEF pages

----------------------------------------------------------------------------
(* rag-service. *)
AskRecords ==
  [pc : {"free", "cache", "embed", "generate", "pieces", "store"}, kind : {None, "own", "openai"},
   q : Questions \cup {None}, key : {None, "provider", "server"}, got : Nat, want : Nat]
OpRecords ==
  [pc : {"free", "prepare", "obtain", "act", "scan", "delete", "told"},
   kind : {None, "upload", "clear", "cache"}, doc : Documents \cup {None}, coll : Nat,
   left : SUBSET Questions, old : SUBSET Questions, alone : BOOLEAN, failed : BOOLEAN]

Cached == {q \in Questions : cache[q] # None}

(* A caller's key is kept only until it is known where the question goes; what is about
   to be stored is whole. *)
AskRight(r) ==
  /\ r.pc # "free" => r.q \in Questions
  /\ r.pc \in {"cache", "embed", "generate"} => r.key \in {None, "provider"}
  /\ r.pc = "pieces" =>
       IF r.q \in CloudOnes THEN r.key \in {"provider", "server"} ELSE r.key = None
  /\ r.pc = "store" => r.got = r.want

(* What was cached before an operation's change, and still is, is among what its scan
   has met and not yet deleted. *)
OpRight(r, cached) ==
  /\ r.pc \in {"prepare", "obtain", "act"} /\ r.kind = "upload" => r.doc \in Documents
  /\ r.old \subseteq cached
  /\ r.pc = "delete" => r.old \subseteq r.left
  /\ r.pc = "told" /\ ~r.failed => r.old = {}

AsksInv == asks \in [Asks -> AskRecords] /\ \A a \in Asks : AskRight(asks[a])
OpsInv == ops \in [Ops -> OpRecords] /\ \A o \in Ops : OpRight(ops[o], Cached)
StoreInv ==
  /\ cache \in [Questions -> {None, TRUE}]
  /\ index \in [coll : Nat, docs : SUBSET Documents, made : Nat]
  /\ acked \subseteq index.docs

RagInv == AsksInv /\ OpsInv /\ StoreInv

LEMMA NothingAsked == NoAsk \in AskRecords /\ AskRight(NoAsk) /\ NoAsk.pc = "free"
BY DEF NoAsk, AskRecords, AskRight

LEMMA NothingDone ==
  /\ NoOp \in OpRecords /\ NoOp.old = {} /\ NoOp.left = {} /\ NoOp.pc = "free"
  /\ \A cached : OpRight(NoOp, cached)
BY DEF NoOp, OpRecords, OpRight

LEMMA OneAsk ==
  ASSUME AsksInv, NEW a \in Asks, NEW r \in AskRecords, AskRight(r), asks' = [asks EXCEPT ![a] = r]
  PROVE  AsksInv'
<1>1. asks' \in [Asks -> AskRecords]
  BY DEF AsksInv
<1>2. ASSUME NEW b \in Asks PROVE AskRight(asks[b])'
  BY DEF AsksInv, AskRight
<1> QED
  BY <1>1, <1>2 DEF AsksInv

LEMMA OneOp ==
  ASSUME OpsInv, NEW o \in Ops, NEW r \in OpRecords, OpRight(r, Cached), UNCHANGED cache,
         ops' = [ops EXCEPT ![o] = r]
  PROVE  OpsInv'
<1>1. ops' \in [Ops -> OpRecords] /\ Cached' = Cached
  BY DEF OpsInv, Cached
<1>2. ASSUME NEW u \in Ops PROVE OpRight(ops'[u], Cached)
  BY DEF OpsInv
<1>3. OpsInv' <=> ops' \in [Ops -> OpRecords] /\ \A u \in Ops : OpRight(ops'[u], Cached')
  BY DEF OpsInv, OpRight
<1> QED
  BY <1>1, <1>2, <1>3

(* A step of an operation that leaves what it remembers. *)
LEMMA OpTurns ==
  ASSUME OpsInv, NEW o \in Ops, NEW pc \in {"free", "obtain"}, Turns(o, pc), UNCHANGED cache,
         ops[o].pc \in {"prepare", "obtain", "act"}
  PROVE  OpsInv'
<1> DEFINE r == [ops[o] EXCEPT !.pc = pc]
<1>1. PICK old \in OpRecords : ops[o] = old /\ OpRight(old, Cached)
  BY DEF OpsInv
<1>2. r \in OpRecords /\ r.pc = pc /\ r.kind = old.kind /\ r.doc = old.doc /\ r.old = old.old
  BY <1>1 DEF OpRecords
<1>3. OpRight(r, Cached)
  <2> HIDE DEF r
  <2> QED
    BY <1>1, <1>2 DEF OpRight
<1>4. ops' = [ops EXCEPT ![o] = r]
  BY DEF Turns
<1> HIDE DEF r
<1> QED
  BY <1>2, <1>3, <1>4, OneOp

(* An entry is replaced or goes, and no operation remembers it any longer. *)
LEMMA EntryChanges ==
  ASSUME OpsInv, NEW q \in Questions, NEW value, cache \in [Questions -> {None, TRUE}],
         cache' = [cache EXCEPT ![q] = value],
         \/ value # None /\ ops' = Replaced(q)
         \/ ops' = Gone(q)
  PROVE  OpsInv'
<1>1. ASSUME NEW o \in Ops PROVE ops'[o] \in OpRecords /\ OpRight(ops'[o], Cached')
  <2>1. PICK old \in OpRecords : ops[o] = old /\ OpRight(old, Cached)
    BY DEF OpsInv
  <2>2. PICK left \in SUBSET Questions :
          /\ ops'[o] = [old EXCEPT !.old = @ \ {q}, !.left = left]
          /\ left = old.left \/ left = old.left \ {q}
    <3>1. CASE ops' = Replaced(q)
      <4>1. ops'[o] = [old EXCEPT !.old = @ \ {q}]
        BY <2>1, <3>1 DEF Replaced
      <4>2. old.left \in SUBSET Questions
        BY DEF OpRecords
      <4>3. [old EXCEPT !.old = @ \ {q}] = [old EXCEPT !.old = @ \ {q}, !.left = old.left]
        BY DEF OpRecords
      <4> QED
        BY <4>1, <4>2, <4>3
    <3>2. CASE ops' = Gone(q)
      <4>1. ops'[o] = [old EXCEPT !.old = @ \ {q}, !.left = old.left \ {q}]
        BY <2>1, <3>2 DEF Gone
      <4>2. old.left \ {q} \in SUBSET Questions
        BY DEF OpRecords
      <4> QED
        BY <4>1, <4>2
    <3> QED
      BY <3>1, <3>2
  <2> DEFINE r == [old EXCEPT !.old = @ \ {q}, !.left = left]
  <2>3. /\ r \in OpRecords /\ r.pc = old.pc /\ r.kind = old.kind /\ r.doc = old.doc
        /\ r.failed = old.failed /\ r.old = old.old \ {q} /\ r.left = left
    BY DEF OpRecords
  <2>4. Cached \ {q} \subseteq Cached'
    BY DEF Cached
  <2> HIDE DEF r
  <2>5. OpRight(r, Cached')
    BY <2>1, <2>2, <2>3, <2>4 DEF OpRight
  <2> QED
    BY <2>2, <2>3, <2>5 DEF r
<1>2. ops' = [o \in Ops |-> ops'[o]]
  BY DEF Replaced, Gone
<1>3. ops' \in [Ops -> OpRecords]
  BY <1>1, <1>2
<1>4. OpsInv' <=> ops' \in [Ops -> OpRecords] /\ \A u \in Ops : OpRight(ops'[u], Cached')
  BY DEF OpsInv, OpRight
<1> QED
  BY <1>1, <1>3, <1>4

(* The requests: each step of one, and that no other step touches them. *)
LEMMA AskSteps ==
  ASSUME RagInv, NEW a \in Asks,
         \/ \E q \in Questions, bearer \in Bearers :
              (\E key \in {None, "provider"} : Ask(a, q, bearer, key)) \/ AskOpenAI(a, q, bearer)
         \/ \E q \in Questions : CallTool(a, q)
         \/ Answer(a) \/ Store(a)
  PROVE  AsksInv'
<1> DEFINE r == asks[a]
<1>1. AsksInv /\ r \in AskRecords /\ AskRight(r)
  BY DEF RagInv, AsksInv
<1>2. ASSUME Ends(a) PROVE AsksInv'
  BY <1>1, <1>2, NothingAsked, OneAsk DEF Ends
<1>3. ASSUME NEW q \in Questions, NEW key \in {None, "provider"}, NEW kind \in {"own", "openai"},
             NEW pc \in {"cache", "embed"},
             asks' = [asks EXCEPT ![a] = [NoAsk EXCEPT !.pc = pc, !.kind = kind, !.q = q, !.key = key]]
      PROVE  AsksInv'
  <2> DEFINE s == [NoAsk EXCEPT !.pc = pc, !.kind = kind, !.q = q, !.key = key]
  <2>1. PICK rest \in AskRecords : rest = NoAsk
    BY NothingAsked
  <2>3. s = [rest EXCEPT !.pc = pc, !.kind = kind, !.q = q, !.key = key]
    BY <2>1
  <2>4. s \in AskRecords /\ s.pc = pc /\ s.q = q /\ s.key = key
    BY <2>3 DEF AskRecords
  <2> HIDE DEF s
  <2>2. s \in AskRecords /\ AskRight(s)
    BY <2>4 DEF AskRight
  <2> HIDE DEF s
  <2> QED
    BY <1>1, <1>3, <2>2, OneAsk DEF s
<1>4. ASSUME NEW q \in Questions, NEW bearer \in Bearers \cup {"identity"}, NEW key \in {None, "provider"},
             Ask(a, q, bearer, key)
      PROVE  AsksInv'
  BY <1>3, <1>4 DEF Ask
<1>5. ASSUME NEW q \in Questions, NEW bearer \in Bearers, AskOpenAI(a, q, bearer) PROVE AsksInv'
  <2>1. BearerKey(Authenticate(bearer), bearer) \in {None, "provider"}
    BY DEF BearerKey
  <2> QED
    BY <1>3, <1>5, <2>1 DEF AskOpenAI
<1>6. ASSUME NEW q \in Questions, CallTool(a, q) PROVE AsksInv'
  BY <1>4, <1>6 DEF CallTool, AskTool
<1>7. ASSUME NEW pc \in {"embed", "generate", "store"}, Goes(a, pc),
             pc = "embed" => r.pc = "cache", pc = "generate" => r.pc = "embed",
             pc = "store" => r.pc = "pieces" /\ r.got = r.want
      PROVE  AsksInv'
  <2> DEFINE s == [r EXCEPT !.pc = pc]
  <2>1. s \in AskRecords /\ s.pc = pc /\ s.q = r.q /\ s.key = r.key /\ s.got = r.got /\ s.want = r.want
    BY <1>1 DEF AskRecords
  <2>2. asks' = [asks EXCEPT ![a] = s]
    BY <1>7 DEF Goes
  <2> HIDE DEF s
  <2>3. AskRight(s)
    BY <1>1, <1>7, <2>1 DEF AskRight
  <2> QED
    BY <1>1, <2>1, <2>2, <2>3, OneAsk
<1>8. ASSUME Lookup(a) PROVE AsksInv'
  BY <1>2, <1>7, <1>8 DEF Lookup
<1>9. ASSUME Retrieve(a) PROVE AsksInv'
  BY <1>7, <1>9 DEF Retrieve
<1>10. ASSUME Generate(a) PROVE AsksInv'
  <2>1. CASE Ends(a)
    BY <1>2, <2>1
  <2>2. CASE ~Ends(a)
    <3> DEFINE key == KeyFor(a)
    <3>1. PICK n \in 0 .. MaxPieces :
            asks' = [asks EXCEPT ![a].pc = "pieces", ![a].key = key, ![a].want = n]
      BY <1>10, <2>2 DEF Generate
    <3>2. r.pc = "generate" /\ ~(Route(r.q) = "cloud" /\ key = None)
      BY <1>10, <2>2 DEF Generate
    <3>3. r.key \in {None, "provider"} /\ r.q \in Questions
      BY <1>1, <3>2 DEF AskRight
    <3>4. key \in {None, "provider", "server"} /\ IF r.q \in CloudOnes THEN key \in {"provider", "server"}
                                                                        ELSE key = None
      BY <3>2, <3>3 DEF KeyFor, Route
    <3> HIDE DEF key
    <3> DEFINE s == [r EXCEPT !.pc = "pieces", !.key = key, !.want = n]
    <3>5. s \in AskRecords /\ s.pc = "pieces" /\ s.q = r.q /\ s.key = key
      <4>1. PICK old \in AskRecords : r = old
        BY <1>1
      <4>2. n \in Nat /\ s = [old EXCEPT !.pc = "pieces", !.key = key, !.want = n]
        BY <4>1
      <4> QED
        BY <3>4, <4>1, <4>2 DEF AskRecords
    <3>6. asks' = [asks EXCEPT ![a] = s]
      BY <3>1
    <3> HIDE DEF s
    <3>7. AskRight(s)
      BY <3>3, <3>4, <3>5 DEF AskRight
    <3> QED
      BY <1>1, <3>5, <3>6, <3>7, OneAsk
  <2> QED
    BY <2>1, <2>2
<1>11. ASSUME Piece(a) PROVE AsksInv'
  <2> DEFINE s == [r EXCEPT !.got = @ + 1]
  <2>1. s \in AskRecords /\ s.pc = r.pc /\ s.q = r.q /\ s.key = r.key
    BY <1>1 DEF AskRecords
  <2>2. asks' = [asks EXCEPT ![a] = s] /\ r.pc = "pieces"
    BY <1>11 DEF Piece
  <2> HIDE DEF s
  <2>3. AskRight(s)
    BY <1>1, <2>1, <2>2 DEF AskRight
  <2> QED
    BY <1>1, <2>1, <2>2, <2>3, OneAsk
<1>12. ASSUME Complete(a) PROVE AsksInv'
  BY <1>2, <1>7, <1>12 DEF Complete
<1>13. ASSUME Break(a) \/ Store(a) PROVE AsksInv'
  BY <1>2, <1>13 DEF Break, Store
<1> QED
  BY <1>4, <1>5, <1>6, <1>8, <1>9, <1>10, <1>11, <1>12, <1>13 DEF Answer

(* The index, and what getting or creating its collection leaves of it. *)
LEMMA IndexFields ==
  ASSUME StoreInv
  PROVE  /\ index \in [coll : Nat, docs : SUBSET Documents, made : Nat]
         /\ index.coll \in Nat /\ index.docs \subseteq Documents /\ index.made \in Nat
         /\ acked \subseteq index.docs
BY DEF StoreInv

LEMMA CollectionMade ==
  ASSUME StoreInv, index' = Collection, UNCHANGED <<cache, acked>>
  PROVE  StoreInv' /\ Collection.coll \in Nat
<1> DEFINE coll == IF index.coll = 0 THEN index.made + 1 ELSE index.coll
           made == Max({index.made, coll})
<1>1. PICK x \in [coll : Nat, docs : SUBSET Documents, made : Nat] : index = x
  BY IndexFields
<1>2. coll \in Nat /\ index.made \in Nat
  BY IndexFields
<1>3. Collection = [index EXCEPT !.coll = coll, !.made = made]
  BY DEF Collection
<1> HIDE DEF coll
<1>4. made \in Nat
  <2>1. {index.made, coll} \subseteq 0 .. index.made + coll /\ index.made + coll \in Nat
    BY <1>2
  <2>2. made \in {index.made, coll}
    BY <2>1, MaxIn
  <2> QED
    BY <1>2, <2>2
<1> HIDE DEF made
<1>5. /\ Collection \in [coll : Nat, docs : SUBSET Documents, made : Nat]
      /\ Collection.docs = index.docs /\ Collection.coll = coll
  BY <1>1, <1>2, <1>3, <1>4
<1> QED
  BY <1>2, <1>5 DEF StoreInv

(* What the steps of a request do to the store. *)
LEMMA AskStepsStore ==
  ASSUME RagInv, NEW a \in Asks,
         \/ \E q \in Questions, bearer \in Bearers :
              (\E key \in {None, "provider"} : Ask(a, q, bearer, key)) \/ AskOpenAI(a, q, bearer)
         \/ \E q \in Questions : CallTool(a, q)
         \/ Answer(a) \/ Store(a)
  PROVE  OpsInv' /\ StoreInv'
<1>1. ASSUME UNCHANGED <<index, cache, ops, acked>> PROVE OpsInv' /\ StoreInv'
  BY <1>1 DEF RagInv, OpsInv, OpRight, StoreInv, Cached
<1>2. ASSUME Store(a) PROVE OpsInv' /\ StoreInv'
  <2> DEFINE q == asks[a].q
  <2>1. q \in Questions /\ asks[a].got = asks[a].want
    BY <1>2 DEF Store, RagInv, AsksInv, AskRight
  <2>2. CASE UNCHANGED <<cache, ops>>
    BY <1>1, <1>2, <2>2 DEF Store
  <2>3. CASE cache' = [cache EXCEPT ![q] = asks[a].got = asks[a].want] /\ ops' = Replaced(q)
    <3>1. cache' = [cache EXCEPT ![q] = TRUE]
      BY <2>1, <2>3
    <3>2. None # TRUE
      BY InstanceAssumption
    <3>3. OpsInv'
      BY <2>1, <2>3, <3>1, <3>2, EntryChanges DEF RagInv, StoreInv
    <3>4. StoreInv'
      BY <1>2, <2>1, <3>1 DEF Store, RagInv, StoreInv
    <3> QED
      BY <3>3, <3>4
  <2> QED
    BY <1>2, <2>2, <2>3 DEF Store
<1>3. ASSUME Retrieve(a) PROVE OpsInv' /\ StoreInv'
  <2>1. CASE UNCHANGED index
    BY <1>1, <1>3, <2>1 DEF Retrieve
  <2>2. CASE index' = Collection
    <3>1. UNCHANGED <<cache, ops, acked>>
      BY <1>3 DEF Retrieve
    <3>2. OpsInv'
      BY <3>1 DEF RagInv, OpsInv, OpRight, Cached
    <3> QED
      BY <2>2, <3>1, <3>2, CollectionMade DEF RagInv
  <2> QED
    BY <1>3, <2>1, <2>2 DEF Retrieve
<1> QED
  BY <1>1, <1>2, <1>3 DEF Ask, AskOpenAI, CallTool, AskTool, Answer, Lookup, Generate, Piece, Complete, Break

(* An operation that starts, goes on to the scan, or remembers less. *)
LEMMA OpStarts ==
  ASSUME OpsInv, NEW o \in Ops, UNCHANGED cache,
         \/ \E d \in Documents : UploadFile(o, d)
         \/ ClearIndex(o) \/ ClearCache(o)
  PROVE  OpsInv'
<1>1. PICK rest \in OpRecords : rest = NoOp /\ rest.old = {}
  BY NothingDone
<1>2. CASE \E d \in Documents : UploadFile(o, d)
  <2>1. PICK d \in Documents : UploadFile(o, d)
    BY <1>2
  <2> DEFINE s == [rest EXCEPT !.pc = "prepare", !.kind = "upload", !.doc = d]
  <2>2. s \in OpRecords /\ s.pc = "prepare" /\ s.doc = d /\ s.old = {}
    BY <1>1 DEF OpRecords
  <2>3. ops' = [ops EXCEPT ![o] = s]
    BY <1>1, <2>1 DEF UploadFile
  <2> HIDE DEF s
  <2>4. OpRight(s, Cached)
    BY <2>2 DEF OpRight
  <2> QED
    BY <2>2, <2>3, <2>4, OneOp
<1>3. CASE ClearIndex(o)
  <2> DEFINE s == [rest EXCEPT !.pc = "obtain", !.kind = "clear"]
  <2>2. s \in OpRecords /\ s.pc = "obtain" /\ s.kind = "clear" /\ s.old = {}
    BY <1>1 DEF OpRecords
  <2>3. ops' = [ops EXCEPT ![o] = s]
    BY <1>1, <1>3 DEF ClearIndex
  <2> HIDE DEF s
  <2>4. OpRight(s, Cached)
    BY <2>2 DEF OpRight
  <2> QED
    BY <2>2, <2>3, <2>4, OneOp
<1>4. CASE ClearCache(o)
  <2> DEFINE s == [rest EXCEPT !.pc = "scan", !.kind = "cache", !.old = Cached]
  <2>1. Cached \in SUBSET Questions
    BY DEF Cached
  <2>2. s \in OpRecords /\ s.pc = "scan" /\ s.old = Cached
    BY <1>1, <2>1 DEF OpRecords
  <2>3. ops' = [ops EXCEPT ![o] = s]
    BY <1>1, <1>4 DEF ClearCache, Cached
  <2> HIDE DEF s
  <2>4. OpRight(s, Cached)
    BY <2>2 DEF OpRight
  <2> QED
    BY <2>2, <2>3, <2>4, OneOp
<1> QED
  BY <1>2, <1>3, <1>4

LEMMA OpProceeds ==
  ASSUME OpsInv, NEW o \in Ops, Proceeds(o), UNCHANGED cache
  PROVE  OpsInv'
<1>1. PICK old \in OpRecords : ops[o] = old
  BY DEF OpsInv
<1> DEFINE pc == IF old.alone THEN "free" ELSE "scan"
           s == [old EXCEPT !.pc = pc, !.old = Cached]
<1>2. Cached \in SUBSET Questions /\ pc \in {"free", "scan"}
  BY DEF Cached
<1>3. ops' = [ops EXCEPT ![o] = s]
  <2>1. ops' = [ops EXCEPT ![o] = [ops[o] EXCEPT !.pc = pc, !.old = Cached]]
    BY <1>1 DEF Proceeds, Cached
  <2> QED
    BY <1>1, <2>1
<1> HIDE DEF pc
<1>4. s \in OpRecords /\ s.pc = pc /\ s.old = Cached
  BY <1>2 DEF OpRecords
<1> HIDE DEF s
<1>5. OpRight(s, Cached)
  BY <1>2, <1>4 DEF OpRight
<1> QED
  BY <1>3, <1>4, <1>5, OneOp

LEMMA OpScans ==
  ASSUME OpsInv, NEW o \in Ops, UNCHANGED cache,
         GiveUp(o) \/ Scan(o) \/ ScanFails(o) \/ Told(o) \/ Over(o)
  PROVE  OpsInv'
<1>1. PICK old \in OpRecords : ops[o] = old /\ OpRight(old, Cached)
  BY DEF OpsInv
<1>2. CASE GiveUp(o)
  <2> DEFINE s == [old EXCEPT !.alone = TRUE]
  <2>1. /\ s \in OpRecords /\ s.pc = old.pc /\ s.kind = old.kind /\ s.doc = old.doc /\ s.old = old.old
        /\ s.left = old.left /\ s.failed = old.failed
    BY <1>1 DEF OpRecords
  <2>2. ops' = [ops EXCEPT ![o] = s]
    BY <1>1, <1>2 DEF GiveUp
  <2> HIDE DEF s
  <2>3. OpRight(s, Cached)
    BY <1>1, <2>1 DEF OpRight
  <2> QED
    BY <2>1, <2>2, <2>3, OneOp
<1>3. CASE Scan(o)
  <2> DEFINE s == [old EXCEPT !.pc = "delete", !.left = Cached]
  <2>0. Cached \in SUBSET Questions
    BY DEF Cached
  <2>1. s \in OpRecords /\ s.pc = "delete" /\ s.left = Cached /\ s.old = old.old
    BY <1>1, <2>0 DEF OpRecords
  <2>2. ops' = [ops EXCEPT ![o] = s]
    BY <1>1, <1>3 DEF Scan, Cached
  <2> HIDE DEF s
  <2>3. OpRight(s, Cached)
    BY <1>1, <2>1 DEF OpRight
  <2> QED
    BY <2>1, <2>2, <2>3, OneOp
<1>4. CASE ScanFails(o)
  <2> DEFINE s == [old EXCEPT !.pc = "told", !.failed = TRUE, !.left = {}]
  <2>1. s \in OpRecords /\ s.pc = "told" /\ s.failed = TRUE /\ s.old = old.old
    BY <1>1 DEF OpRecords
  <2>2. ops' = [ops EXCEPT ![o] = s]
    BY <1>1, <1>4 DEF ScanFails
  <2> HIDE DEF s
  <2>3. OpRight(s, Cached)
    BY <1>1, <2>1 DEF OpRight
  <2> QED
    BY <2>1, <2>2, <2>3, OneOp
<1>5. CASE Told(o)
  <2> DEFINE s == [old EXCEPT !.pc = "told"]
  <2>1. s \in OpRecords /\ s.pc = "told" /\ s.old = old.old
    BY <1>1 DEF OpRecords
  <2>2. ops' = [ops EXCEPT ![o] = s] /\ old.pc = "delete" /\ old.left = {}
    BY <1>1, <1>5 DEF Told, Turns
  <2> HIDE DEF s
  <2>3. OpRight(s, Cached)
    BY <1>1, <2>1, <2>2 DEF OpRight
  <2> QED
    BY <2>1, <2>2, <2>3, OneOp
<1>6. CASE Over(o)
  BY <1>6, NothingDone, OneOp DEF Over
<1> QED
  BY <1>2, <1>3, <1>4, <1>5, <1>6

(* The operations' steps on the index: an acknowledged document is in it. *)
LEMMA IndexSteps ==
  ASSUME RagInv, NEW o \in Ops, Obtain(o) \/ Upsert(o) \/ Drop(o)
  PROVE  RagInv'
<1>1. OpsInv /\ StoreInv /\ UNCHANGED cache /\ UNCHANGED asks /\ AsksInv'
  BY DEF RagInv, Obtain, Upsert, Drop, AsksInv, AskRight
<1>2. PICK old \in OpRecords : ops[o] = old /\ OpRight(old, Cached)
  BY <1>1 DEF OpsInv
<1>3. ASSUME Turns(o, "free"), old.pc \in {"prepare", "obtain", "act"} PROVE OpsInv'
  BY <1>1, <1>2, <1>3, OpTurns
<1>4. ASSUME UNCHANGED <<index, acked>> PROVE StoreInv'
  BY <1>1, <1>4 DEF StoreInv
<1>5. CASE Obtain(o)
  <2> DEFINE coll == Collection.coll
  <2>1. CASE Turns(o, "free") /\ UNCHANGED index
    BY <1>1, <1>2, <1>3, <1>4, <1>5, <2>1 DEF Obtain, RagInv
  <2>2. CASE index' = Collection /\ ops' = [ops EXCEPT ![o].pc = "act", ![o].coll = coll]
    <3>1. StoreInv' /\ coll \in Nat
      BY <1>1, <1>5, <2>2, CollectionMade DEF Obtain
    <3> HIDE DEF coll
    <3> DEFINE s == [old EXCEPT !.pc = "act", !.coll = coll]
    <3>2. s \in OpRecords /\ s.pc = "act" /\ s.kind = old.kind /\ s.doc = old.doc /\ s.old = old.old
      BY <1>2, <3>1 DEF OpRecords
    <3>3. ops' = [ops EXCEPT ![o] = s] /\ old.pc = "obtain"
      BY <1>2, <1>5, <2>2 DEF Obtain
    <3> HIDE DEF s
    <3>4. OpRight(s, Cached)
      BY <1>2, <3>2, <3>3 DEF OpRight
    <3>5. OpsInv'
      BY <1>1, <3>2, <3>3, <3>4, OneOp
    <3> QED
      BY <1>1, <3>1, <3>5 DEF RagInv
  <2> QED
    BY <1>5, <2>1, <2>2 DEF Obtain
<1>6. CASE Upsert(o)
  <2>1. old.pc = "act" /\ old.kind = "upload" /\ old.doc \in Documents
    BY <1>2, <1>6 DEF Upsert, OpRight
  <2>2. CASE Turns(o, "free") /\ UNCHANGED <<index, acked>>
    BY <1>1, <1>3, <1>4, <2>1, <2>2 DEF RagInv
  <2>3. CASE /\ index' = [index EXCEPT !.docs = @ \cup {old.doc}]
             /\ \/ acked' = acked \cup {old.doc} /\ Proceeds(o)
                \/ Turns(o, "free") /\ UNCHANGED acked
    <3>1. StoreInv'
      <4>1. PICK x \in [coll : Nat, docs : SUBSET Documents, made : Nat] : index = x
        BY <1>1, IndexFields
      <4>2. /\ index' \in [coll : Nat, docs : SUBSET Documents, made : Nat]
            /\ index'.docs = index.docs \cup {old.doc}
        BY <2>1, <2>3, <4>1
      <4>3. acked' \subseteq index'.docs
        BY <1>1, <2>3, <4>2, IndexFields
      <4> QED
        BY <1>1, <4>2, <4>3 DEF StoreInv
    <3>2. OpsInv'
      BY <1>1, <1>3, <2>1, <2>3, OpProceeds
    <3> QED
      BY <1>1, <3>1, <3>2 DEF RagInv
  <2> QED
    BY <1>2, <1>6, <2>2, <2>3 DEF Upsert
<1>7. CASE Drop(o)
  <2>1. old.pc = "act"
    BY <1>2, <1>7 DEF Drop
  <2>2. CASE Turns(o, "free") /\ UNCHANGED <<index, acked>>
    BY <1>1, <1>3, <1>4, <2>1, <2>2 DEF RagInv
  <2>3. CASE /\ index' = [index EXCEPT !.coll = 0, !.docs = {}]
             /\ acked' = {}
             /\ Proceeds(o) \/ Turns(o, "free")
    <3>1. acked' = {}
      BY <1>7, <2>3 DEF Drop
    <3>2. StoreInv'
      <4>1. PICK x \in [coll : Nat, docs : SUBSET Documents, made : Nat] : index = x
        BY <1>1, IndexFields
      <4>2. index' \in [coll : Nat, docs : SUBSET Documents, made : Nat]
        BY <2>3, <4>1
      <4> QED
        BY <1>1, <3>1, <4>2 DEF StoreInv
    <3>3. OpsInv'
      BY <1>1, <1>3, <2>1, <2>3, OpProceeds
    <3> QED
      BY <1>1, <3>2, <3>3 DEF RagInv
  <2> QED
    BY <1>7, <2>2, <2>3 DEF Drop
<1> QED
  BY <1>5, <1>6, <1>7

LEMMA RagStep ==
  ASSUME RagInv, [RagNext]_ragVars
  PROVE  RagInv'
<1>1. CASE UNCHANGED ragVars
  BY <1>1 DEF ragVars, RagInv, AsksInv, AskRight, OpsInv, OpRight, Cached, StoreInv
<1>2. ASSUME NEW a \in Asks,
             \/ \E q \in Questions, bearer \in Bearers :
                  (\E key \in {None, "provider"} : Ask(a, q, bearer, key)) \/ AskOpenAI(a, q, bearer)
             \/ \E q \in Questions : CallTool(a, q)
             \/ Answer(a) \/ Store(a)
      PROVE  RagInv'
  BY <1>2, AskSteps, AskStepsStore DEF RagInv
<1>3. ASSUME UNCHANGED asks PROVE AsksInv'
  BY <1>3 DEF RagInv, AsksInv, AskRight
<1>4. ASSUME UNCHANGED <<index, cache, acked>> PROVE StoreInv'
  BY <1>4 DEF RagInv, StoreInv
<1>5. ASSUME NEW q \in Questions, cache' = [cache EXCEPT ![q] = None], ops' = Gone(q),
             UNCHANGED <<index, asks, acked>>
      PROVE  RagInv'
  <2>1. OpsInv'
    BY <1>5, EntryChanges DEF RagInv, StoreInv
  <2>2. StoreInv'
    BY <1>5 DEF RagInv, StoreInv
  <2> QED
    BY <1>3, <1>5, <2>1, <2>2 DEF RagInv
<1>6. ASSUME NEW q \in Questions, Expire(q) PROVE RagInv'
  BY <1>5, <1>6 DEF Expire
<1>7. ASSUME NEW o \in Ops, DocumentsPanel(o) PROVE RagInv'
  <2>1. UNCHANGED <<index, cache, asks, acked>>
    BY <1>7 DEF DocumentsPanel, UploadFile, ClearIndex, ClearCache
  <2> QED
    BY <1>3, <1>4, <1>7, <2>1, OpStarts DEF RagInv, DocumentsPanel
<1>8. ASSUME NEW o \in Ops, Prepare(o) PROVE RagInv'
  <2>1. UNCHANGED <<index, cache, asks, acked>> /\ ops[o].pc = "prepare"
        /\ (Turns(o, "obtain") \/ Turns(o, "free"))
    BY <1>8 DEF Prepare
  <2> QED
    BY <1>3, <1>4, <2>1, OpTurns DEF RagInv
<1>9. ASSUME NEW o \in Ops, GiveUp(o) \/ Scan(o) \/ ScanFails(o) \/ Told(o) \/ Over(o) PROVE RagInv'
  <2>1. UNCHANGED <<index, cache, asks, acked>>
    BY <1>9 DEF GiveUp, Scan, ScanFails, Told, Over
  <2> QED
    BY <1>3, <1>4, <1>9, <2>1, OpScans DEF RagInv
<1>10. ASSUME NEW o \in Ops, NEW q \in Questions, DeleteKey(o, q) PROVE RagInv'
  BY <1>5, <1>10 DEF DeleteKey
<1> QED
  BY <1>1, <1>2, <1>6, <1>7, <1>8, <1>9, <1>10, IndexSteps DEF RagNext, AdminService, Clear

LEMMA RagStarts == RagInit => RagInv
<1> SUFFICES ASSUME RagInit PROVE RagInv
  OBVIOUS
<1>1. AsksInv
  BY NothingAsked DEF RagInit, AsksInv
<1>2. OpsInv
  BY NothingDone DEF RagInit, OpsInv
<1>3. StoreInv
  BY DEF RagInit, StoreInv
<1> QED
  BY <1>1, <1>2, <1>3 DEF RagInv

(* The inductive invariant of rag-service: requests carry a caller's key no further than
   to where the question goes, what is stored is whole, and whatever an operation still
   remembers of the cache is among what its scan has yet to delete. *)
THEOREM RagInvariant == RagSpec => []RagInv
<1>1. RagInit => RagInv
  BY RagStarts
<1>2. RagInv /\ [RagNext]_ragVars => RagInv'
  BY RagStep
<1> QED
  BY <1>1, <1>2, PTL DEF RagSpec

(* The cache never holds part of an answer, and once an upload or a clear has answered
   with Redis at work, nothing that was cached when its change was made is left: for any
   questions, requests and operations at once. *)
THEOREM CacheStaysCurrent == RagSpec => []CacheIsCurrent
<1>1. RagInv => CacheIsCurrent
  BY DEF RagInv, StoreInv, OpsInv, OpRight, CacheIsCurrent
<1> QED
  BY <1>1, RagInvariant, PTL

(* What proves a caller's identity never reaches a provider, and the local one gets no key. *)
THEOREM IdentityNeverLeaves == RagSpec => []IdentityStaysHome
<1>1. RagInv => IdentityStaysHome
  BY DEF RagInv, AsksInv, AskRight, IdentityStaysHome
<1> QED
  BY <1>1, RagInvariant, PTL

(* A document that was acknowledged and not cleared since is in the index, and every
   character of it is in a chunk with the right page, for any documents and any window. *)
THEOREM AcknowledgedStaysFound == RagSpec => []AcknowledgedIsFound
<1>1. RagInv => AcknowledgedIsFound
  <2> SUFFICES ASSUME RagInv, NEW d \in acked
      PROVE  LET pages == WithText(d)
                 text == Text(pages)
                 On(p, i) == p \in StartOf(pages, i)..(StartOf(pages, i) + Len(pages[i]) - 1)
             IN /\ d \in index.docs
                /\ \A p \in 0..(Len(text) - 1) : text[p + 1] = 1 =>
                     \E c \in Chunks(d, Size, Overlap) : p \in c.from..c.to /\ On(c.from, c.page)
    BY DEF AcknowledgedIsFound
  <2>1. d \in index.docs /\ d \in Documents
    BY IndexFields DEF RagInv
  <2>2. d \in Seq(Seq(Marks)) /\ Size \in Nat /\ Overlap \in Nat /\ Overlap < Size
    BY <2>1, InstanceAssumption DEF Marks
  <2> QED
    BY <2>1, <2>2, EveryCharacterFound
<1> QED
  BY <1>1, RagInvariant, PTL
=============================================================================
