---------------------------- MODULE MCIngestQueue ----------------------------
\* Small instances of IngestQueue for TLC.
EXTENDS IngestQueue, TLC

CONSTANTS w1, w2, hostA, hostB

\* Every process has a worker_id of its own.
OwnIds == w1 :> hostA @@ w2 :> hostB
=============================================================================
