---------------------------- MODULE MCWorkerPool ----------------------------
(* Small instances of WorkerPool for TLC: one process id more than slots,  *)
(* so that an id is reused as soon as it has been reaped.                  *)
EXTENDS WorkerPool, TLC

CONSTANTS p1, p2, p3

MCPid == {p1, p2, p3}

PidSymmetry == Permutations(MCPid)
=============================================================================
