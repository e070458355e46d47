---------------------------- MODULE SpeechRegions ----------------------------
(***************************************************************************)
(* From frames of speech evidence to regions: hysteresis, tolerated        *)
(* silence, a longest region and padding (silero_temporal.py), and the     *)
(* merging and clipping of plain masks (segmentation.py).                  *)
(*                                                                         *)
(* A frame is [from, to, p] with the evidence p in hundredths; frames of a *)
(* file touch each other.  A configuration is [onset, negative, silence,   *)
(* pad, longest], the last 0 when there is no longest region.              *)
(***************************************************************************)
EXTENDS Integers, SequencesExt

Nowhere == -1

\* TemporalVadConfig.__post_init__
LegalConfig(cfg) ==
    /\ 0 < cfg.onset /\ cfg.onset <= 100 /\ 0 <= cfg.negative /\ cfg.negative < cfg.onset
    /\ cfg.silence >= 0 /\ cfg.pad >= 0 /\ cfg.longest >= 0

\* _validated_frames
Contiguous(frames) == \A i \in 1..(Len(frames) - 1) : frames[i + 1].from = frames[i].to

-----------------------------------------------------------------------------
(* Cores *)

\* What the scan holds: closed cores, the open one, and where its silence began.
Idle(cores) == [cores |-> cores, active |-> FALSE, from |-> 0, to |-> 0, silence |-> Nowhere]
Opened(cores, from, to) == [cores |-> cores, active |-> TRUE, from |-> from, to |-> to, silence |-> Nowhere]
Closed(scan, to) == IF to > scan.from THEN Append(scan.cores, << scan.from, to >>) ELSE scan.cores

\* A frame that crosses the longest end while there is still evidence.
Crosses(scan, frame, cfg) ==
    cfg.longest > 0 /\ frame.to > scan.from + cfg.longest /\ frame.p >= cfg.negative

\* Mutant: the tolerated silence stays in the core.
Quiet_Kept(scan, frame, cfg) ==
    LET began == IF scan.silence = Nowhere THEN frame.from ELSE scan.silence
    IN  IF frame.from - began >= cfg.silence THEN Idle(Closed(scan, frame.from))
        ELSE [scan EXCEPT !.silence = began]

\* A frame of low evidence: the core ends where silence began, once it is long enough.
Quiet(scan, frame, cfg) ==
    LET began == IF scan.silence = Nowhere THEN frame.from ELSE scan.silence
    IN  IF frame.from - began >= cfg.silence THEN Idle(Closed(scan, began))
        ELSE [scan EXCEPT !.silence = began]

\* One frame of _core_regions
Scanned(scan, frame, cfg) ==
    IF ~scan.active
      THEN IF frame.p >= cfg.onset THEN Opened(scan.cores, frame.from, frame.to) ELSE scan
    ELSE IF Crosses(scan, frame, cfg)
      THEN Opened(Closed(scan, scan.from + cfg.longest), scan.from + cfg.longest, frame.to)
    ELSE IF frame.p < cfg.negative THEN Quiet(scan, frame, cfg)
    ELSE [scan EXCEPT !.silence = Nowhere, !.to = frame.to]

\* _core_regions: at the end only what was not silent is core.
Cores(frames, cfg) ==
    LET end == FoldLeft(LAMBDA scan, frame : Scanned(scan, frame, cfg), Idle(<< >>), frames)
    IN  IF end.active THEN Closed(end, end.to) ELSE end.cores

-----------------------------------------------------------------------------
(* Regions *)

\* _padded_regions: neighbours share a gap that is too small for both pads.
Padded(cores, first, last, pad) ==
    LET Gap(k) == Max({0, cores[k + 1][1] - cores[k][2]})
        Shared(k) == k \in 1..(Len(cores) - 1) /\ Gap(k) < 2 * pad
    IN  [k \in DOMAIN cores |->
           [from |-> Max({first, cores[k][1] - IF Shared(k - 1) THEN Gap(k - 1) - Gap(k - 1) \div 2 ELSE pad}),
            to |-> Min({last, cores[k][2] + IF Shared(k) THEN Gap(k) \div 2 ELSE pad}),
            core |-> cores[k]]]

\* SileroTemporalPostprocessor on frames that are contiguous
Regions(frames, cfg) ==
    IF frames = << >> THEN << >>
    ELSE Padded(Cores(frames, cfg), frames[1].from, Last(frames).to, cfg.pad)

\* mark_vad_frames: the pieces of frames in regions, cut at the ends of cores.
Marks(frames, regions) ==
    UNION {LET a == Max({frames[i].from, regions[k].from})
               b == Min({frames[i].to, regions[k].to})
               cuts == {a, b} \cup {c \in {regions[k].core[1], regions[k].core[2]} : a < c /\ c < b}
           IN  IF a >= b THEN {}
               ELSE {[from |-> c, to |-> Min({d \in cuts : d > c}), region |-> k, p |-> frames[i].p,
                      core |-> regions[k].core[1] <= c /\ Min({d \in cuts : d > c}) <= regions[k].core[2]] :
                       c \in cuts \ {b}} :
             i \in DOMAIN frames, k \in DOMAIN regions}

-----------------------------------------------------------------------------
(* What cores are for *)

\* Frame i keeps up what frame j began: no silence in between is long enough.
KeepsUp(frames, j, i, cfg) ==
    /\ j <= i /\ frames[j].p >= cfg.onset /\ frames[i].p >= cfg.negative
    /\ \A k \in j..i : \A l \in k..i :
         (\A q \in k..l : frames[q].p < cfg.negative) => frames[l].from - frames[k].from < cfg.silence

\* The ticks of time heard as speech, without a scan.
Heard(frames, cfg) ==
    UNION {frames[j].from..(frames[i].to - 1) :
             << j, i >> \in {ji \in (DOMAIN frames) \X (DOMAIN frames) : KeepsUp(frames, ji[1], ji[2], cfg)}}

\* Cores cover what was heard, in order and apart; regions share the gaps between them and
\* marks tile the regions, core where the core is; a longest region is kept to when frames
\* and silences are short beside it.
RegionsAreHeard(frames, cfg) ==
    \A heard \in {Heard(frames, cfg)}, regions \in {Regions(frames, cfg)} :
    \A marks \in {Marks(frames, regions)} :
    LET Ticks(from, to) == from..(to - 1)
        first == frames[1].from
        last == Last(frames).to
    IN  /\ UNION {Ticks(r.core[1], r.core[2]) : r \in ToSet(regions)} = heard
        /\ \A k \in DOMAIN regions :
             /\ first <= regions[k].from /\ regions[k].from <= regions[k].core[1]
             /\ regions[k].core[1] < regions[k].core[2]
             /\ regions[k].core[2] <= regions[k].to /\ regions[k].to <= last
             /\ k < Len(regions) => regions[k].to <= regions[k + 1].from
             /\ \/ cfg.longest = 0 \/ regions[k].core[2] - regions[k].core[1] <= cfg.longest
                \/ \E i \in DOMAIN frames :
                     cfg.silence + 2 * (frames[i].to - frames[i].from) > cfg.longest
        /\ \A t \in Ticks(first, last) :
             LET over == {m \in marks : m.from <= t /\ t < m.to}
                 inside == {k \in DOMAIN regions : t \in Ticks(regions[k].from, regions[k].to)}
             IN  /\ {m.region : m \in over} = inside /\ Cardinality(over) = Cardinality(inside)
                 /\ \A m \in over : m.core <=> t \in heard

-----------------------------------------------------------------------------
(* Masks *)

ByTime(intervals) == SetToSortSeq(intervals, LAMBDA a, b : a[1] < b[1] \/ (a[1] = b[1] /\ a[2] < b[2]))

\* Runs of sorted intervals that are no further apart than the gap.
Joined(intervals, gap) ==
    FoldLeft(LAMBDA kept, next :
               IF kept = << >> \/ next[1] > Last(kept)[2] + gap THEN Append(kept, next)
               ELSE [kept EXCEPT ![Len(kept)] = << @[1], Max({@[2], next[2]}) >>],
             << >>, ByTime(intervals))

\* RuleEvidenceSegmentation._speech_regions of the frames that are speech
SpeechOf(frames, gap) == Joined({<< f.from, f.to >> : f \in frames}, gap)

\* clip_and_coalesce_speech_mask
Clipped(mask, duration) ==
    {c \in {<< Max({0, m[1]}), Min({duration, m[2]}) >> : m \in mask} : c[2] > c[1]}
Coalesced(mask, duration, gap) == Joined(Clipped(mask, duration), gap)

\* _probe_discontinuities: neighbours in time, of one dimension, that are far apart.
Discontinuities(probes, far) ==
    LET ordered == SetToSortSeq(probes, LAMBDA a, b : a.from < b.from \/ (a.from = b.from /\ a.id < b.id))
    IN  {ordered[k + 1].from : k \in {j \in 1..(Len(ordered) - 1) :
           ordered[j].size = ordered[j + 1].size /\ << ordered[j].id, ordered[j + 1].id >> \in far}}
=============================================================================
