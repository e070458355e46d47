--------------------------- MODULE KoreanBenchmark ---------------------------
(***************************************************************************)
(* What a corpus lock allows a benchmark to say (korean_benchmark.py).     *)
(*                                                                         *)
(* A lock is [role, origin, license, timeline, audit, audited,             *)
(* independence, capabilities, held, manifest, splits], where audited says *)
(* that it names an audit and held that the release holdout is locked.     *)
(***************************************************************************)
EXTENDS Integers, SequencesExt

\* What stands between a lock and gates on its metrics.
Blockers(lock, split) ==
    {b \in [what : {"license"}, is : {lock.license}] : b.is # "APPROVED_INTERNAL_EVALUATION"}
    \cup {b \in [what : {"role"}, is : {lock.role}] : b.is # "GOLD"}
    \cup {b \in [what : {"origin"}, is : {lock.origin}] : b.is \notin {"HUMAN", "PUBLISHER_HUMAN"}}
    \cup {b \in [what : {"timeline"}, is : {lock.timeline}] : b.is # "VERIFIED"}
    \cup {b \in [what : {"audit"}, is : {lock.audit}] : b.is # "VERIFIED" \/ ~lock.audited}
    \cup {b \in [what : {"independence"}, is : {lock.independence}] : b.is # "VERIFIED"}
    \cup {b \in [what : {"reference"}, is : {"diarization", "overlap", "scd"}] : b.is \notin lock.capabilities}
    \cup {b \in [what : {"split"}, is : {split}] : b.is # "RELEASE_HOLDOUT"}
    \cup {b \in [what : {"holdout"}, is : {"open"}] : ~lock.held}

\* Mutant: gates of another role are told apart only by the status.
Gated_AnyRole(lock, split) == \A b \in Blockers(lock, split) : b.what = "role"

\* eligible_for_metric_gating
Gated(lock, split) == Blockers(lock, split) = {}

\* evaluate_benchmark_eligibility
Standing(lock, split) ==
    IF Gated(lock, split) THEN "REVIEW_REQUIRED"
    ELSE IF lock.license \in {"PROHIBITED", "UNVERIFIED"} \/ lock.timeline = "ABSENT" THEN "DATA_INELIGIBLE"
    ELSE IF lock.license = "RESEARCH_ONLY" THEN "RESEARCH_ONLY"
    ELSE IF lock.role = "SILVER" THEN "DEV_ONLY"
    ELSE IF lock.role = "CHALLENGE" THEN "CHALLENGE_ONLY"
    ELSE "REVIEW_REQUIRED"

\* Gates whose metric there was no reference for are not decided.
Gates(measured, lock) ==
    [g \in DOMAIN measured |->
       CASE g = "scd_f1" /\ "scd" \notin lock.capabilities -> "none"
         [] g = "osd" /\ "overlap" \notin lock.capabilities -> "none"
         [] OTHER -> measured[g]]

\* evaluate_korean_release_gate
GateStatus(measured, lock, split) ==
    LET gates == {Gates(measured, lock)[g] : g \in DOMAIN measured}
    IN  IF ~Gated(lock, split) THEN Standing(lock, split)
        ELSE IF "fail" \in gates THEN "METRIC_GATES_FAIL"
        ELSE IF "none" \in gates THEN "METRIC_GATES_INCOMPLETE_REVIEW_REQUIRED"
        ELSE "METRIC_GATES_PASS_REVIEW_REQUIRED"
=============================================================================
