----------------------------- MODULE IngestQueue -----------------------------
(***************************************************************************)
(* The ingestion job queue of core-api (tables core.ingestion_jobs,        *)
(* core.documents and core.chunks in Postgres) and the ingest-worker       *)
(* processes that drain it.  Every operation of PostgresStore is one       *)
(* transaction under the job's row lock, hence one atomic action here; the *)
(* slow work between two transactions (parse, chunk, embed) is a step of   *)
(* its own, during which the lease may run out, other workers may take the *)
(* job, and the process may die.                                           *)
(***************************************************************************)
EXTENDS Naturals

CONSTANTS
  Docs,         \* the uploads: one element per (workspace_id, content_hash)
  Workers,      \* the ingest-worker processes
  Reliable,     \* the workers whose indexing always ends (see Fairness)
  Ids,          \* values of settings.worker_id
  IdOf,         \* the worker_id each process runs with (default: the hostname)
  MaxAttempts,  \* core.ingestion_jobs.max_attempts, 5 in the migration
  Delays,       \* the values backoff_seconds can return, in clock units
  NoOne,        \* locked_by IS NULL
  NoJob         \* the worker has claimed nothing

Snapshot == [doc : Docs, attempts : Nat]   \* ports/jobs.py Job, as claimed

ASSUME IngestAssumption ==
  /\ Reliable \subseteq Workers
  /\ IdOf \in [Workers -> Ids]
  /\ MaxAttempts \in Nat \ {0}
  /\ Delays \subseteq Nat \ {0}
  /\ NoOne \notin Ids
  /\ NoJob \notin Snapshot

VARIABLES
  \* core.ingestion_jobs: the one job a document's upload creates
  state,        \* "none" before the upload, then the state column
  attempts, runAfter, lockedBy, lastError,
  leaseExpired, \* locked_at < now() - lease_seconds
  \* core.documents and core.chunks
  status,       \* "absent" before the upload, then the status column
  chunks,       \* the attempt that wrote the document's chunks, 0 for no chunks
  \* the worker processes
  phase,        \* where each process is in its loop
  job,          \* the Job it works on
  \* the clock of the database, in units in which run_after values differ
  now

jobs == <<state, attempts, runAfter, lockedBy, lastError, leaseExpired>>
documents == <<status, chunks>>
workers == <<phase, job>>
vars == <<jobs, documents, workers, now>>

JobStates == {"none", "queued", "running", "succeeded", "failed"}
Statuses == {"absent", "pending", "indexing", "ready", "failed"}
\* What last_error can say: the lease ran out, the parser refused the file,
\* model-gateway answered 400 or 422, or anything else went wrong.
Errors == {"none", "lease", "unreadable", "refused", "unavailable"}
Failing == {"unreadable", "refused", "unavailable"}
Phases == {"reclaim", "claim", "index", "indexed", "down"} \cup Failing
Busy == {"index", "indexed"} \cup Failing
-----------------------------------------------------------------------------
\* The WHERE clause of claim.
Due(d) == state[d] = "queued" /\ runAfter[d] <= now

\* Mutant: only jobs that may run again are reclaimed.
Expired_RetryableOnly ==
  {d \in Docs : state[d] = "running" /\ leaseExpired[d] /\ attempts[d] < MaxAttempts}

\* The WHERE clause of reclaim_expired.
Expired == {d \in Docs : state[d] = "running" /\ leaseExpired[d]}

\* Mutants: one attempt too many; a crash is final.
AfterLease_OneMore(d) == IF attempts[d] > MaxAttempts THEN "failed" ELSE "queued"
AfterLease_Final(d) == "failed"

\* The CASE of reclaim_expired: the attempt that lost its lease still counts.
AfterLease(d) == IF attempts[d] >= MaxAttempts THEN "failed" ELSE "queued"

\* Mutant: the document always waits again.
StatusAfterLease_Pending(d) == "pending"

\* The document update of reclaim_expired.
StatusAfterLease(d) == IF AfterLease(d) = "failed" THEN "failed" ELSE "pending"

\* Mutants: the fence forgets the worker, or the state.
HoldsLease_AnyWorker(w) == state[job[w].doc] = "running"
HoldsLease_Always(w) == TRUE

\* The fence of replace_chunks, fail and retry_later: the row is running and
\* locked by the worker_id this job was claimed with.
HoldsLease(w) ==
  /\ state[job[w].doc] = "running"
  /\ lockedBy[job[w].doc] = IdOf[w]

\* domain/ingestion.py: every INVALID_REQUEST is permanent, whether the parser
\* or model-gateway raised it.
IsPermanent(error) == error \in {"unreadable", "refused"}

\* Mutant: the lock is not cleared.
Settle_KeepsLock(w, to, error) ==
  LET d == job[w].doc IN
  /\ state' = [state EXCEPT ![d] = to]
  /\ lastError' = [lastError EXCEPT ![d] = error]
  /\ UNCHANGED <<attempts, lockedBy, leaseExpired>>

\* The claimed job of w leaves the running state.
Settle(w, to, error) ==
  LET d == job[w].doc IN
  /\ state' = [state EXCEPT ![d] = to]
  /\ lastError' = [lastError EXCEPT ![d] = error]
  /\ lockedBy' = [lockedBy EXCEPT ![d] = NoOne]
  /\ leaseExpired' = [leaseExpired EXCEPT ![d] = FALSE]
  /\ UNCHANGED attempts

\* process_next returns, and the worker starts the next round of its loop.
NextRound(w) ==
  /\ phase' = [phase EXCEPT ![w] = "reclaim"]
  /\ job' = [job EXCEPT ![w] = NoJob]
-----------------------------------------------------------------------------
Init ==
  /\ state = [d \in Docs |-> "none"]
  /\ attempts = [d \in Docs |-> 0]
  /\ runAfter = [d \in Docs |-> 0]
  /\ lockedBy = [d \in Docs |-> NoOne]
  /\ lastError = [d \in Docs |-> "none"]
  /\ leaseExpired = [d \in Docs |-> FALSE]
  /\ status = [d \in Docs |-> "absent"]
  /\ chunks = [d \in Docs |-> 0]
  /\ phase = [w \in Workers |-> "reclaim"]
  /\ job = [w \in Workers |-> NoJob]
  /\ now = 0

\* create_upload of new bytes: document, blob and job in one transaction, the
\* job due at once.  The same bytes again write none of these variables.
\* Uploads happen at distinct instants, so the clock moves with each one.
Upload(d) ==
  /\ state[d] = "none"
  /\ now' = now + 1
  /\ state' = [state EXCEPT ![d] = "queued"]
  /\ runAfter' = [runAfter EXCEPT ![d] = now + 1]
  /\ status' = [status EXCEPT ![d] = "pending"]
  /\ UNCHANGED <<attempts, lockedBy, lastError, leaseExpired, chunks, workers>>

\* The first statement of a worker's round: every job whose lease ran out goes
\* back to the queue, or fails when its attempts are used up.
ReclaimExpired(w) ==
  /\ phase[w] = "reclaim"
  /\ phase' = [phase EXCEPT ![w] = "claim"]
  /\ state' = [d \in Docs |-> IF d \in Expired THEN AfterLease(d) ELSE state[d]]
  /\ status' = [d \in Docs |->
                  IF d \in Expired THEN StatusAfterLease(d) ELSE status[d]]
  /\ lastError' = [d \in Docs |-> IF d \in Expired THEN "lease" ELSE lastError[d]]
  /\ lockedBy' = [d \in Docs |-> IF d \in Expired THEN NoOne ELSE lockedBy[d]]
  /\ leaseExpired' = [d \in Docs |-> leaseExpired[d] /\ d \notin Expired]
  /\ UNCHANGED <<attempts, runAfter, chunks, job, now>>

\* The due job with the earliest run_after goes to w; equal run_after values
\* are ordered by id in the code and by choice here.
Claim(w, d) ==
  /\ phase[w] = "claim"
  /\ Due(d)
  /\ \A e \in Docs : Due(e) => runAfter[d] <= runAfter[e]
  /\ state' = [state EXCEPT ![d] = "running"]
  /\ attempts' = [attempts EXCEPT ![d] = @ + 1]
  /\ lockedBy' = [lockedBy EXCEPT ![d] = IdOf[w]]
  /\ leaseExpired' = [leaseExpired EXCEPT ![d] = FALSE]
  /\ status' = [status EXCEPT ![d] = "indexing"]
  /\ phase' = [phase EXCEPT ![w] = "index"]
  /\ job' = [job EXCEPT ![w] = [doc |-> d, attempts |-> attempts[d] + 1]]
  /\ UNCHANGED <<runAfter, lastError, chunks, now>>

\* Nothing is due: wait poll_seconds, then start over.
NothingDue(w) ==
  /\ phase[w] = "claim"
  /\ \A d \in Docs : ~Due(d)
  /\ NextRound(w)
  /\ UNCHANGED <<jobs, documents, now>>

\* _index: read the blob, parse it, chunk it and embed the chunks.  It touches
\* no table; it ends with all chunks embedded or with the first error.
Index(w) ==
  /\ phase[w] = "index"
  /\ \E end \in {"indexed"} \cup Failing : phase' = [phase EXCEPT ![w] = end]
  /\ UNCHANGED <<jobs, documents, job, now>>

\* replace_chunks: delete, insert, finish the document and the job, if the
\* fence lets this worker through; otherwise nothing.
ReplaceChunks(w) ==
  /\ phase[w] = "indexed"
  /\ IF HoldsLease(w)
       THEN /\ Settle(w, "succeeded", "none")
            /\ status' = [status EXCEPT ![job[w].doc] = "ready"]
            /\ chunks' = [chunks EXCEPT ![job[w].doc] = job[w].attempts]
       ELSE UNCHANGED <<state, attempts, lockedBy, lastError, leaseExpired, documents>>
  /\ NextRound(w)
  /\ UNCHANGED <<runAfter, now>>

\* The branch of _settle_failure that gives up, then fail.
Fail(w) ==
  /\ phase[w] \in Failing
  /\ IsPermanent(phase[w]) \/ job[w].attempts >= MaxAttempts
  /\ IF HoldsLease(w)
       THEN /\ Settle(w, "failed", phase[w])
            /\ status' = [status EXCEPT ![job[w].doc] = "failed"]
       ELSE UNCHANGED <<state, attempts, lockedBy, lastError, leaseExpired, status>>
  /\ NextRound(w)
  /\ UNCHANGED <<runAfter, chunks, now>>

\* The other branch of _settle_failure, then retry_later after the backoff.
RetryLater(w) ==
  /\ phase[w] \in Failing
  /\ ~IsPermanent(phase[w]) /\ job[w].attempts < MaxAttempts
  /\ IF HoldsLease(w)
       THEN /\ Settle(w, "queued", phase[w])
            /\ \E delay \in Delays :
                 runAfter' = [runAfter EXCEPT ![job[w].doc] = now + delay]
            /\ status' = [status EXCEPT ![job[w].doc] = "pending"]
       ELSE UNCHANGED <<jobs, status>>
  /\ NextRound(w)
  /\ UNCHANGED <<chunks, now>>

\* The process dies, at any point: killed, or by an exception that process_next
\* does not catch (the database refuses reclaim_expired, claim or a settling
\* write).  A graceful stop is the same between two rounds.
Crash(w) ==
  /\ phase[w] # "down"
  /\ phase' = [phase EXCEPT ![w] = "down"]
  /\ job' = [job EXCEPT ![w] = NoJob]
  /\ UNCHANGED <<jobs, documents, now>>

\* The process is started again, with the same worker_id.
Restart(w) ==
  /\ phase[w] = "down"
  /\ NextRound(w)
  /\ UNCHANGED <<jobs, documents, now>>

\* A running job's lease becomes older than lease_seconds, whatever its worker
\* is doing.
LeaseExpires(d) ==
  /\ state[d] = "running"
  /\ ~leaseExpired[d]
  /\ leaseExpired' = [leaseExpired EXCEPT ![d] = TRUE]
  /\ UNCHANGED <<state, attempts, runAfter, lockedBy, lastError, documents, workers, now>>

\* Time passes; only modelled while a queued job waits for it, which keeps the
\* clock bounded by the uploads and the backoffs.
Tick ==
  /\ \E d \in Docs : state[d] = "queued" /\ runAfter[d] > now
  /\ now' = now + 1
  /\ UNCHANGED <<jobs, documents, workers>>

WorkerStep(w) ==
  \/ ReclaimExpired(w)
  \/ \E d \in Docs : Claim(w, d)
  \/ NothingDue(w)
  \/ Index(w)
  \/ ReplaceChunks(w)
  \/ Fail(w)
  \/ RetryLater(w)
  \/ Crash(w)
  \/ Restart(w)

Next ==
  \/ \E d \in Docs : Upload(d) \/ LeaseExpires(d)
  \/ \E w \in Workers : WorkerStep(w)
  \/ Tick

Spec == Init /\ [][Next]_vars

\* What the schedule of the deployment guarantees.  A reliable worker is started
\* again after a crash, its parser and its HTTP calls end (GatewayEmbedder has a
\* timeout), and it is not killed for ever at the same point of its loop, which
\* is why reclaiming and claiming are strongly fair.  Of the other workers
\* nothing is assumed: they may hang in Index or stay down.  Leases age and
\* backoffs pass by themselves.
Round(w) ==
  Index(w) \/ ReplaceChunks(w) \/ Fail(w) \/ RetryLater(w) \/ NothingDue(w) \/ Restart(w)

Fairness ==
  /\ \A w \in Reliable : /\ WF_vars(Round(w))
                         /\ SF_vars(ReclaimExpired(w))
                         /\ SF_vars(\E d \in Docs : Claim(w, d))
  /\ \A d \in Docs : WF_vars(LeaseExpires(d))
  /\ WF_vars(Tick)

FairSpec == Spec /\ Fairness
-----------------------------------------------------------------------------
\* No two processes run with the same worker_id.  The default worker_id is the
\* hostname, so this is a property of the deployment, not of the code.
UniqueIds == \A v, w \in Workers : IdOf[v] = IdOf[w] => v = w

\* The shape of the tables and of a worker's loop: a job is locked exactly while
\* it runs, and a worker has a job exactly between its claim and its outcome.
TypeOK ==
  /\ state \in [Docs -> JobStates]
  /\ attempts \in [Docs -> Nat]
  /\ runAfter \in [Docs -> Nat]
  /\ lockedBy \in [Docs -> Ids \cup {NoOne}]
  /\ lastError \in [Docs -> Errors]
  /\ leaseExpired \in [Docs -> BOOLEAN]
  /\ status \in [Docs -> Statuses]
  /\ chunks \in [Docs -> Nat]
  /\ phase \in [Workers -> Phases]
  /\ job \in [Workers -> Snapshot \cup {NoJob}]
  /\ now \in Nat
  /\ \A d \in Docs : state[d] = "running" <=> lockedBy[d] # NoOne
  /\ \A w \in Workers : phase[w] \in Busy <=> job[w] # NoJob

\* The two tables never disagree, although five transactions write both: the
\* status a user sees is the state of the document's job, and the document has
\* chunks exactly when its job succeeded, namely those of the last attempt.
StatusOf(s) ==
  CASE s = "none" -> "absent"
    [] s = "queued" -> "pending"
    [] s = "running" -> "indexing"
    [] s = "succeeded" -> "ready"
    [] s = "failed" -> "failed"

DocumentAgreesWithJob ==
  \A d \in Docs :
    /\ status[d] = StatusOf(state[d])
    /\ chunks[d] = IF state[d] = "succeeded" THEN attempts[d] ELSE 0

\* No job runs more often than max_attempts allows, crashes included, and a job
\* waits in the queue only while it has an attempt left: claim itself does not
\* look at max_attempts, so this rests on every path back into the queue.
AttemptsBounded ==
  \A d \in Docs :
    /\ attempts[d] <= MaxAttempts
    /\ state[d] = "queued" => attempts[d] < MaxAttempts

\* A worker that passes the fence works on the attempt that is running now.  The
\* fence compares worker_id only, not the attempt: a worker that claimed the job
\* long ago must not pass because the same id has claimed it again.
FenceIsExact ==
  \A w \in Workers :
    job[w] # NoJob /\ HoldsLease(w) => attempts[job[w].doc] = job[w].attempts

\* The attempt w works on is no longer the running one.
LeaseLost(w) ==
  LET d == job[w].doc IN state[d] # "running" \/ attempts[d] # job[w].attempts

\* ports/jobs.py and replace_chunks: once the lease was lost, a worker that
\* comes back from a stall changes neither the job nor the document.
LostLeaseWritesNothing ==
  [][\A w \in Workers :
       phase[w] \in Busy /\ phase'[w] = "reclaim" /\ LeaseLost(w)
         => UNCHANGED <<jobs, documents>>]_vars

\* A document fails for a reason: an error that retrying cannot help, or a last
\* attempt that also failed or lost its lease.
FailureIsEarned ==
  \A d \in Docs :
    state[d] = "failed" => attempts[d] = MaxAttempts \/ IsPermanent(lastError[d])

\* Every document follows the lifecycle that ingestion promises.
Promised == INSTANCE DocumentLifecycle WITH Docs <- Docs, MaxAttempts <- MaxAttempts,
                                            status <- status, attempts <- attempts, chunks <- chunks
Lifecycle == Promised!Spec

\* As long as one worker is reliable, every accepted upload ends up searchable
\* or failed, whatever the other workers do with its job.
EveryUploadSettles ==
  \A d \in Docs : status[d] = "pending" ~> status[d] \in {"ready", "failed"}
=============================================================================
