------------------------------ MODULE QualityGate ------------------------------
(***************************************************************************)
(* Whether a result may name speakers: quality.evaluate_file_quality, the  *)
(* reasons ProductionOrchestrator._quality hands to it, and the summary    *)
(* policy of service.py that reads its verdict.  Ratios and thresholds are *)
(* reduced to the reasons they produce; reason codes are kept as sets.     *)
(***************************************************************************)
EXTENDS Naturals

\* What the orchestrator holds as calibration, and how it compares with the run.
Calibrations == {"none", "unverified", "verified", "release"}

\* Relative to one run: the profile, model hashes, rate and config all agree.
Decisions == {"H1_CONFIRMED", "H2_CONFIRMED", "UNCERTAIN_1_OR_2"}

Statuses == {"PASS_HIGH", "PASS_STANDARD", "PASS_WITH_UNATTRIBUTED",
             "REVIEW_REQUIRED", "UNSUPPORTED"}
Modes == {"SPEAKER_AWARE", "SPEAKER_NEUTRAL", "MANUAL_REVIEW"}

Report(status, mode, reasons) ==
    [status |-> status, mode |-> mode, reasons |-> reasons]

When(condition, reason) == IF condition THEN {reason} ELSE {}

\* Only an exact VerifiedCalibrationBinding of release trust that agrees with
\* the run authorises anything.
CalibrationReasons(calibration, agrees) ==
    CASE calibration = "none" -> {"Q_CALIBRATION_MISSING"}
      [] calibration \in {"unverified", "verified"} -> {"Q_CALIBRATION_UNVERIFIED"}
      [] OTHER -> When(~agrees, "Q_CALIBRATION_MISMATCH")

\* quality.evaluate_file_quality; d holds the diagnostics.
EvaluateFileQuality(d, calibration, agrees) ==
    LET unauthorised == CalibrationReasons(calibration, agrees)
        reviews == d.reviews \cup When(d.uncertain, "Q_H1_H2_AMBIGUOUS")
    IN  IF d.outOfProfile
          THEN Report("UNSUPPORTED", "SPEAKER_NEUTRAL", {"Q_OUT_OF_PROFILE"})
        ELSE IF unauthorised # {}
          THEN Report("REVIEW_REQUIRED", "MANUAL_REVIEW", unauthorised \cup d.reviews)
        ELSE IF reviews # {}
          THEN Report("REVIEW_REQUIRED", "MANUAL_REVIEW", reviews)
        ELSE IF d.degrades # {}
          THEN Report("PASS_WITH_UNATTRIBUTED", "SPEAKER_NEUTRAL", d.degrades)
        ELSE IF d.highRules /\ d.osd # "NOT_EVALUATED"
          THEN Report("PASS_HIGH", "SPEAKER_AWARE", {})
        ELSE Report("PASS_STANDARD", "SPEAKER_AWARE", {})

-----------------------------------------------------------------------------
\* ProductionQualityEvidence, reduced to what _quality asks of it; NoEvidence
\* is a caller that supplies none.
NoEvidence == [given |-> FALSE, complete |-> FALSE, osd |-> "NOT_EVALUATED",
               thresholds |-> "MISSING", high |-> FALSE, degrades |-> FALSE]
FullEvidence == [given |-> TRUE, complete |-> TRUE, osd |-> "EVALUATED",
                 thresholds |-> "PASS", high |-> TRUE, degrades |-> FALSE]
Evidence == {NoEvidence} \cup
    [given : {TRUE}, complete : BOOLEAN, osd : {"EVALUATED", "PARTIAL", "NOT_EVALUATED"},
     thresholds : {"PASS", "FAIL", "MISSING"}, high : BOOLEAN, degrades : BOOLEAN]

\* Mutant: complete evidence is taken for release evidence.
EvidenceReasons_TrustsCaller(e) ==
    When(~e.given \/ ~e.complete, "Q_RELEASE_EVIDENCE_MISSING")

\* Evidence of a caller bears no seal, so even complete evidence is a reason.
EvidenceReasons(e) ==
    IF ~e.given \/ ~e.complete THEN {"Q_RELEASE_EVIDENCE_MISSING"}
                               ELSE {"Q_RELEASE_EVIDENCE_UNVERIFIED"}

\* ProductionOrchestrator._quality: run says what the run produced.
ReviewReasons(run, e) ==
    EvidenceReasons(e)
      \cup When(~run.authority, "Q_RELEASE_MODEL_AUTHORITY_MISSING")
      \cup When(e.osd # "EVALUATED", "Q_OSD_NOT_EVALUATED")
      \cup When(~run.words, "Q_WORD_TIMELINE_MISSING")
      \cup When(run.words /\ ~run.assigned, "Q_NO_ASSIGNED_WORDS")
      \cup When(run.speakers = 0, "Q_NO_ASSIGNED_SPEECH")
      \cup When(\/ run.decision = "H2_CONFIRMED" /\ run.speakers # 2
                \/ run.decision = "H1_CONFIRMED" /\ run.speakers # 1,
                "Q_SPEAKER_TOPOLOGY_OUTPUT_MISMATCH")
      \cup When(run.enhanced, "Q_ENHANCEMENT_UNVERIFIED")
      \cup When(run.calibrated /\ ~run.profileMatches,
                "Q_CALIBRATION_MODEL_PACK_MISMATCH")
      \cup When(e.thresholds = "FAIL", "Q_RELEASE_THRESHOLD_FAILED")
      \cup When(run.calibrated /\ e.thresholds # "PASS",
                "Q_RELEASE_THRESHOLD_EVIDENCE_INCOMPLETE")
      \cup When(run.failed, "Q_DIARIZATION_FAILED")

Quality(run, e, calibration, agrees) ==
    LET d == [outOfProfile |-> FALSE,
              reviews |-> ReviewReasons(run, e),
              uncertain |-> run.decision = "UNCERTAIN_1_OR_2",
              degrades |-> When(e.degrades, "Q_UNATTRIBUTED"),
              highRules |-> e.high,
              osd |-> e.osd]
        report == EvaluateFileQuality(d, calibration, agrees)
    IN  IF report.status = "REVIEW_REQUIRED"
          THEN [report EXCEPT !.mode = "SPEAKER_NEUTRAL"]
          ELSE report

-----------------------------------------------------------------------------
\* SummaryPolicyAdapter.decide: the mode it authorises, or "refused".
Blocked == {"REVIEW_REQUIRED", "UNSUPPORTED", "PASS_WITH_UNATTRIBUTED"}

Decide(report, requested) ==
    LET blocked == report.status \in Blocked
    IN  IF blocked /\ "SPEAKER_AWARE" \in {requested, report.mode} THEN "refused"
        ELSE IF blocked /\ requested = "AUTO"
          THEN IF report.status = "REVIEW_REQUIRED" THEN "MANUAL_REVIEW"
                                                    ELSE "SPEAKER_NEUTRAL"
        ELSE IF requested = "AUTO" THEN report.mode ELSE requested
=============================================================================
