------------------------- MODULE DocumentLifecycle -------------------------
(***************************************************************************)
(* What ingestion promises about every uploaded document, with no workers, *)
(* leases, clocks or queue order in it: a document is attempted at most    *)
(* MaxAttempts times, it is published by exactly one of its attempts, all  *)
(* chunks at once, and it ends up ready or failed.  IngestQueue implements *)
(* this specification.                                                     *)
(***************************************************************************)
EXTENDS Naturals

CONSTANTS Docs,         \* the uploads, one per (workspace, content_hash)
          MaxAttempts   \* core.ingestion_jobs.max_attempts

VARIABLES status,       \* core.documents.status, "absent" before the upload
          attempts,     \* attempts started so far
          chunks        \* the attempt whose chunks readers see, 0 for none

lifecycle == <<status, attempts, chunks>>

Init ==
  /\ status = [d \in Docs |-> "absent"]
  /\ attempts = [d \in Docs |-> 0]
  /\ chunks = [d \in Docs |-> 0]

\* The upload is accepted and waits for its first attempt.
Submit(d) ==
  /\ status[d] = "absent"
  /\ status' = [status EXCEPT ![d] = "pending"]
  /\ UNCHANGED <<attempts, chunks>>

\* An attempt starts; there is one left.
Attempt(d) ==
  /\ status[d] = "pending"
  /\ attempts[d] < MaxAttempts
  /\ status' = [status EXCEPT ![d] = "indexing"]
  /\ attempts' = [attempts EXCEPT ![d] = @ + 1]
  /\ UNCHANGED chunks

\* The running attempt, and no earlier one, publishes its chunks.
Publish(d) ==
  /\ status[d] = "indexing"
  /\ chunks[d] = 0
  /\ status' = [status EXCEPT ![d] = "ready"]
  /\ chunks' = [chunks EXCEPT ![d] = attempts[d]]
  /\ UNCHANGED attempts

\* The running attempt is the last one: its error cannot be retried, or the
\* attempts are used up.
GiveUp(d) ==
  /\ status[d] = "indexing"
  /\ status' = [status EXCEPT ![d] = "failed"]
  /\ UNCHANGED <<attempts, chunks>>

\* Attempts of the documents S end without a result; each document waits for
\* the next attempt, or fails when that was the last one.
Release(S) ==
  /\ \A d \in S : status[d] = "indexing"
  /\ status' = [d \in Docs |->
                  IF d \notin S THEN status[d]
                  ELSE IF attempts[d] < MaxAttempts THEN "pending" ELSE "failed"]
  /\ UNCHANGED <<attempts, chunks>>

Next ==
  \/ \E d \in Docs : Submit(d) \/ Attempt(d) \/ Publish(d) \/ GiveUp(d)
  \/ \E S \in SUBSET Docs : Release(S)

Spec == Init /\ [][Next]_lifecycle
=============================================================================
