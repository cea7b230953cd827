\* Two documents, two workers with ids of their own, one of them unreliable.
SPECIFICATION FairSpec
CONSTANTS
  w1 = w1
  w2 = w2
  hostA = hostA
  hostB = hostB
  Docs = {d1, d2}
  Workers = {w1, w2}
  Reliable = {w1}
  Ids = {hostA, hostB}
  IdOf <- OwnIds
  MaxAttempts = 2
  Delays = {1}
  NoOne = NoOne
  NoJob = NoJob
INVARIANTS
  TypeOK
  DocumentAgreesWithJob
  AttemptsBounded
  FenceIsExact
  FailureIsEarned
PROPERTIES
  LostLeaseWritesNothing
  Lifecycle
  EveryUploadSettles
