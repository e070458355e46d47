-------------------------- MODULE MCSequenceDecoder --------------------------
(***************************************************************************)
(* Instances of SequenceDecoder for TLC.  Times are in units of 50 ms and  *)
(* costs in units of 1/1200, in which every default of DiarizationConfig   *)
(* is an integer, the gap relief (0.25 * gap / 1.5 s) included.            *)
(***************************************************************************)
EXTENDS SequenceDecoder

\* DiarizationConfig with the max_tracklet_us of LocalOnnxDiarizationConfig.
DefaultCfg ==
    [max_tracklet |-> 60, anchor_min_clean |-> 30, support_min_clean |-> 14,
     anchor_outlier_distance_max |-> 420, h2_min_independent_anchor_count |-> 2,
     isolated_run_max |-> 7, long_gap_reset |-> 30, switch_base |-> 420,
     gap_relief |-> 300, uncertainty_transition |-> 24, unknown_cost |-> 480,
     unknown_micro_cost |-> 24,
     stable_distance_ceiling |-> [ANCHOR |-> 420, SUPPORT |-> 420, MICRO |-> 300],
     absolute_distance_max |-> [ANCHOR |-> 480, SUPPORT |-> 480, MICRO |-> 360],
     margin_min |-> [ANCHOR |-> 36, SUPPORT |-> 36, MICRO |-> 96],
     include_non_speech |-> TRUE]

\* Consecutive regions of given lengths after given pauses.
Recorded(pauses, lengths) ==
    LET from[i \in 0..Len(lengths)] ==
          IF i = 0 THEN 0 ELSE from[i-1] + pauses[i] + lengths[i]
    IN  [regions |-> {[start |-> from[i] - lengths[i], end |-> from[i]] :
                        i \in DOMAIN lengths},
         duration |-> from[Len(lengths)] + 3]

\* Four anchors around a turn that is long and close to them, or short and far
\* from them; a region that is cut; nothing but short speech; silence.
SomeRecordings ==
    {Recorded(<< 2, 4, 4, 4, 4 >>, << 40, 40, 20, 40, 40 >>),
     Recorded(<< 0, 4, 30, 30, 4 >>, << 40, 40, 6, 40, 40 >>),
     Recorded(<< 3, 4 >>, << 125, 6 >>), Recorded(<< 3, 4 >>, << 6, 20 >>),
     Recorded(<< >>, << >>)}
Turns == {Recorded(<< 0, 6, 6, 6, 6 >>, << 40, 40, 40, 40, 40 >>)}

Near(near, far) == [SPEAKER_00 |-> near, SPEAKER_01 |-> far]
SomeEvidence == {Near(12, 1200), Near(1200, 120), Near(420, 440)}
ClearEvidence == {Near(120, 1200), Near(1200, 120)}
=============================================================================
