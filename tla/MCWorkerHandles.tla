--------------------------- MODULE MCWorkerHandles ---------------------------
(* A client and a worker for WorkerHandles. *)
EXTENDS WorkerHandles

CONSTANTS client, worker, temp

MCProcs == {client, worker}
MCArrays == {temp}
MCSkewed == {client}
MCFlaky == {client}
=============================================================================
