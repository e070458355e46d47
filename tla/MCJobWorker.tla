----------------------------- MODULE MCJobWorker -----------------------------
(***************************************************************************)
(* Instances of JobWorker for TLC: three submissions, two of them the same *)
(* content under different job identifiers.                                *)
(***************************************************************************)
EXTENDS JobWorker

CONSTANTS j1, j2, j3, k1, k2

ThreeRequests == {[job |-> j1, key |-> k1], [job |-> j2, key |-> k1],
                  [job |-> j3, key |-> k2]}
TwoRequests == {[job |-> j1, key |-> k1], [job |-> j2, key |-> k1]}
OneRequest == {[job |-> j1, key |-> k1]}
=============================================================================
