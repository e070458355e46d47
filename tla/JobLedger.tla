------------------------------ MODULE JobLedger ------------------------------
(***************************************************************************)
(* What the local job store promises its callers, without the steps it     *)
(* takes (SDD 11.2): a job that was accepted stays open until it succeeds  *)
(* or fails for good, it succeeds only with a result on disk, and nothing  *)
(* about it, neither its outcome nor its result, changes after that.       *)
(***************************************************************************)
CONSTANTS Jobs,       \* job identifiers
          Results,    \* what a result file can hold
          NoResult    \* the job has no result file

VARIABLES phase,      \* phase[j]: "absent", "open", "succeeded" or "failed"
          result      \* result[j]: the result on disk, or NoResult

ledger == << phase, result >>

Init ==
    /\ phase = [j \in Jobs |-> "absent"]
    /\ result = [j \in Jobs |-> NoResult]

Accept(j) ==
    /\ phase[j] = "absent"
    /\ phase' = [phase EXCEPT ![j] = "open"]
    /\ UNCHANGED result

\* A result is written, or replaced by that of a later attempt.
Publish(j, r) ==
    /\ phase[j] = "open"
    /\ result' = [result EXCEPT ![j] = r]
    /\ UNCHANGED phase

Succeed(j) ==
    /\ phase[j] = "open"
    /\ result[j] # NoResult
    /\ phase' = [phase EXCEPT ![j] = "succeeded"]
    /\ UNCHANGED result

Fail(j) ==
    /\ phase[j] = "open"
    /\ phase' = [phase EXCEPT ![j] = "failed"]
    /\ UNCHANGED result

Next ==
    \E j \in Jobs :
        \/ Accept(j)
        \/ \E r \in Results : Publish(j, r)
        \/ Succeed(j)
        \/ Fail(j)

Spec == Init /\ [][Next]_ledger
=============================================================================
