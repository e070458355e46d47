------------------------ MODULE SegmentationEvidence ------------------------
(***************************************************************************)
(* Evidence of speech, overlap and change from a segmentation network that *)
(* sees a recording in windows (pyannote_segmentation_runtime.py).         *)
(*                                                                         *)
(* The network names the speakers of a window in an order of its own; a    *)
(* class is the set of them that speak, and a frame the class it is surely *)
(* of.  An evidence is a fraction << n, d >>.  A configuration is          *)
(* [window, shift, field, step, context, clean, purity, threshold, apart], *)
(* with thresholds in twentieths.                                          *)
(***************************************************************************)
EXTENDS Integers, SequencesExt

Locals == 1..3

\* _sample_to_us and _segment_samples, at 16 kHz
Micros == 1000000
Rate == 16000
SampleToUs(sample) == (sample * Micros + Rate \div 2) \div Rate
SegmentSamples(startUs, endUs, frames) ==
    LET start == Min({(startUs * Rate) \div Micros, frames})
        end == Min({frames, (endUs * Rate + Micros - 1) \div Micros})
    IN  IF startUs < 0 \/ endUs <= startUs \/ end <= start THEN << >> ELSE << start, end >>

-----------------------------------------------------------------------------
(* Windows *)

\* bounded_window_starts
WindowStarts(start, end, cfg) ==
    LET lastFull == end - cfg.window
        full == [k \in 1..(1 + (lastFull - start) \div cfg.shift) |-> start + (k - 1) * cfg.shift]
        next == Last(full) + cfg.shift
    IN  IF end - start <= cfg.window THEN << start >>
        ELSE IF next < end /\ Last(full) # lastFull THEN Append(full, next) ELSE full

\* _read_pcm16_window: samples of the recording in a window; the rest is silence.
Valid(start, end, cfg) == Min({cfg.window, end - start})

\* Frames of the network in a window, and its answer where the class of a sample is
\* given and the speakers are named by names.
FramesOf(cfg) == (cfg.window - cfg.field) \div cfg.step + 1
Inferred(class, start, end, names, cfg) ==
    [i \in 0..(FramesOf(cfg) - 1) |->
       LET sample == start + i * cfg.step
       IN  IF sample < end THEN {names[s] : s \in class[sample]} ELSE {}]

\* _infer
Speech(c) == IF c = {} THEN 0 ELSE 1
Overlap(c) == IF Cardinality(c) = 2 THEN 1 ELSE 0
Activity(c, s) == IF s \in c THEN 1 ELSE 0

-----------------------------------------------------------------------------
(* Change within a window *)

\* A clean frame has one speaker; the time each speaker has among the frames from to.
Clean(c) == Speech(c) * (1 - Overlap(c))
Time(frames, from, to, s) ==
    FoldSet(LAMBDA i, sum : sum + Activity(frames[i], s) * Clean(frames[i]), 0, from..to)
CleanTime(frames, from, to) == FoldSet(LAMBDA i, sum : sum + Clean(frames[i]), 0, from..to)

\* argmax takes the first of the largest.
Foremost(time) == Min({s \in Locals : \A t \in Locals : time[t] <= time[s]})
AtLeast(n, d, twentieths) == 20 * n >= twentieths * d
Abs(n) == IF n < 0 THEN -n ELSE n

\* Mutant: the foremost speaker need not be dominant.
PureEnough_Any(time, total, cfg) == TRUE

PureEnough(time, total, cfg) == AtLeast(Max({time[s] : s \in Locals}), total, cfg.purity)

\* conservative_within_window_change at frame i
Change(frames, i, cfg) ==
    LET n == cfg.context
        left == [s \in Locals |-> Time(frames, i - n, i - 1, s)]
        right == [s \in Locals |-> Time(frames, i, i + n - 1, s)]
        l == CleanTime(frames, i - n, i - 1)
        r == CleanTime(frames, i, i + n - 1)
        purest == Min({Max({left[s] * r : s \in Locals}), Max({right[s] * l : s \in Locals})})
        variation == FoldSet(LAMBDA s, sum : sum + Abs(left[s] * r - right[s] * l), 0, Locals)
    IN  IF /\ i >= n /\ i < FramesOf(cfg) - n /\ l > 0 /\ r > 0
           /\ AtLeast(l, n, cfg.clean) /\ AtLeast(r, n, cfg.clean)
           /\ Foremost(left) # Foremost(right)
           /\ PureEnough(left, l, cfg) /\ PureEnough(right, r, cfg)
        THEN << variation * Min({l, r}) * purest, 2 * l * r * n * l * r >>
        ELSE << 0, 1 >>

-----------------------------------------------------------------------------
(* The recording *)

\* Index of the first frame of a window, and its frames that hold some recording.
GlobalStart(window, start, cfg) == (window - start + cfg.step \div 2) \div cfg.step
LocalFrames(window, end, cfg) ==
    {i \in 0..(FramesOf(cfg) - 1) : i * cfg.step < Valid(window, end, cfg)}

MaxFrames(start, end, cfg) == (end - start + cfg.field + cfg.step - 1) \div cfg.step + 8

Weighted(x, y) == << x[1] * y[2] + y[1] * x[2], x[2] * y[2] >>

\* process_wav_with_trace: windows are given as [start, frames, names], where names is
\* what align_local_speakers chose; hamming weights are left out.  A frame is
\* [index, from, to, speech, overlap, change, support, padded].
Evidence(windows, start, end, cfg) ==
    LET At(k, g) == g - GlobalStart(windows[k].start, start, cfg)
        Hits(g) == {k \in DOMAIN windows : At(k, g) \in LocalFrames(windows[k].start, end, cfg)}
        Named(k) == [i \in DOMAIN windows[k].frames |->
                       {windows[k].names[s] : s \in windows[k].frames[i]}] @@ << >>
        aligned == [k \in DOMAIN windows |-> Named(k)] @@ << >>
        Frame(g, hits) ==
            [index |-> g, from |-> start + g * cfg.step,
             to |-> Min({end, start + g * cfg.step + cfg.field}),
             speech |-> MapThenSumSet(LAMBDA k : Speech(aligned[k][At(k, g)]), hits),
             overlap |-> MapThenSumSet(LAMBDA k : Overlap(aligned[k][At(k, g)]), hits),
             change |-> FoldSet(LAMBDA k, sum : Weighted(sum, Change(aligned[k], At(k, g), cfg)),
                                << 0, 1 >>, hits),
             support |-> Cardinality(hits),
             padded |-> Cardinality({k \in hits : Valid(windows[k].start, end, cfg) < cfg.window})]
        heard == {g \in 0..(MaxFrames(start, end, cfg) - 1) :
                    Hits(g) # {} /\ start + g * cfg.step < end}
    IN  FoldLeft(LAMBDA frames, g : Append(frames, Frame(g, Hits(g))), << >>, SetToSortSeq(heard, <))

Center(frame) == SampleToUs((frame.from + frame.to) \div 2)
Less(x, y) == x[1] * y[2] < y[1] * x[2]
Strength(frame) == << frame.change[1], frame.change[2] * frame.support >>

\* diagnostic_change_events
Candidates(frames, cfg) ==
    {k \in DOMAIN frames :
       /\ ~Less(Strength(frames[k]), << cfg.threshold, 20 >>)
       /\ k > 1 => ~Less(Strength(frames[k]), Strength(frames[k - 1]))
       /\ k < Len(frames) => ~Less(Strength(frames[k]), Strength(frames[k + 1]))}

Clear(k, kept, frames, cfg) ==
    \A e \in ToSet(kept) : Abs(Center(frames[k]) - Center(frames[e])) >= cfg.apart

Events(frames, cfg) ==
    LET Before(a, b) == \/ Less(Strength(frames[b]), Strength(frames[a]))
                        \/ ~Less(Strength(frames[a]), Strength(frames[b])) /\ a < b
    IN  ToSet(FoldLeft(LAMBDA kept, k : IF Clear(k, kept, frames, cfg) THEN Append(kept, k) ELSE kept,
                       << >>, SetToSortSeq(Candidates(frames, cfg), Before)))

-----------------------------------------------------------------------------
(* What the evidence promises *)

\* Frames follow one another from the start to within a step of the end of what the
\* network sees, are accounted for within the bound, and are where their windows put
\* them to half a step; at most one window is padded.
FramesAreAccounted(end, cfg) ==
    \A starts \in {WindowStarts(0, end, cfg)} :
    \A frames \in {Evidence([k \in DOMAIN starts |->
                     [start |-> starts[k], names |-> [s \in Locals |-> s],
                      frames |-> [i \in 0..(FramesOf(cfg) - 1) |-> {}]]], 0, end, cfg)} :
        /\ \A n \in 0..(end - 1) :
             \E k \in DOMAIN starts : starts[k] <= n /\ n < starts[k] + cfg.window
        /\ Cardinality({k \in DOMAIN starts : Valid(starts[k], end, cfg) < cfg.window}) <= 1
        /\ \A k \in DOMAIN frames : frames[k].index = k - 1 /\ frames[k].from < frames[k].to
        /\ \A n \in 0..(end - 1) : \/ \E k \in DOMAIN frames : frames[k].from <= n /\ n < frames[k].to
                                   \/ n >= end - cfg.field
        /\ \A k \in DOMAIN starts : \A i \in LocalFrames(starts[k], end, cfg) :
             LET g == GlobalStart(starts[k], 0, cfg) + i
             IN  /\ g < MaxFrames(0, end, cfg)
                 /\ 2 * Abs(g * cfg.step - (starts[k] + i * cfg.step)) <= cfg.step

\* Whatever the network calls the speakers of a window and however they are aligned, the
\* result is the same; events are strong, apart, and next to everything as strong.
NamesDoNotShow(class, cfg) ==
    \A end \in {Len(class)} : \A starts \in {WindowStarts(0, end, cfg)} :
      LET sound == [n \in 0..(end - 1) |-> class[n + 1]]
          plain == << 1, 2, 3 >>
          Result(names) ==
              Evidence([k \in DOMAIN starts |->
                          [start |-> starts[k], names |-> names[k],
                           frames |-> Inferred(sound, starts[k], end, plain, cfg)]], 0, end, cfg)
      IN  \A results \in {{Result(names) : names \in [DOMAIN starts -> {plain, << 3, 1, 2 >>}]}} :
          \A result \in results : \A events \in {Events(result, cfg)} :
            /\ results = {result}
            /\ \A a, b \in events : a # b => Abs(Center(result[a]) - Center(result[b])) >= cfg.apart
            /\ \A c \in Candidates(result, cfg) : \E e \in events :
                 /\ ~Less(Strength(result[e]), Strength(result[c]))
                 /\ e = c \/ Abs(Center(result[e]) - Center(result[c])) < cfg.apart
=============================================================================
