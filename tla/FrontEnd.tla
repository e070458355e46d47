------------------------------ MODULE FrontEnd ------------------------------
(***************************************************************************)
(* How audio reaches the models: WAV layout, decoding in blocks and by     *)
(* region, mixing and resampling (media.py), conversion to canonical audio *)
(* (production_orchestrator.py), frames of energy (vad.py), windows of the *)
(* Silero network (silero_runtime.py) and the global gain (audio_gain.py). *)
(*                                                                         *)
(* A frame is the sequence of its channels' samples, a sample an integer.  *)
(* Python's sequences start at 0 and take negative indexes from the end;   *)
(* ItemAt is that.                                                         *)
(***************************************************************************)
EXTENDS Integers, SequencesExt

Micros == 1000000
ItemAt(s, i) == s[IF i < 0 THEN Len(s) + i + 1 ELSE i + 1]
Slice(s, from, to) == SubSeq(s, from + 1, to)
SumOf(s) == FoldLeft(+, 0, s)
HalfUp(n, d) == (n + d \div 2) \div d

\* round(n / d) of Python: halves go to the even neighbour.
HalfEven(n, d) ==
    IF 2 * (n % d) = d THEN (n \div d) + ((n \div d) % 2) ELSE HalfUp(n, d)

\* Where the blocks of a sequence of n items start and end.
BlocksOf(n, size) ==
    [b \in 1..((n + size - 1) \div size) |-> << (b - 1) * size, Min({b * size, n}) >>]

-----------------------------------------------------------------------------
(* WAV files *)

\* _parse_wav_layout: chunks [type, size, fmt] after the RIFF header, in a file that ends
\* after fileSize bytes of them.  It stops once it has a format and data, keeps the last
\* of what it has seen before that, and pads odd sizes.
HeaderOfChunk == 8
ChunkStarts(chunks) ==
    [k \in DOMAIN chunks |->
       SumOf([j \in 1..(k - 1) |-> HeaderOfChunk + chunks[j].size + (chunks[j].size % 2)])]

Layout(chunks, fileSize) ==
    LET start == ChunkStarts(chunks)
        Complete(k) == {"fmt", "data"} \subseteq {chunks[j].type : j \in 1..k}
        seen == {k \in DOMAIN chunks : start[k] + HeaderOfChunk <= fileSize /\ ~Complete(k - 1)}
        LastOf(type) == Max({k \in seen : chunks[k].type = type})
        missing == \E type \in {"fmt", "data"} : ~\E k \in seen : chunks[k].type = type
    IN  IF (\E k \in seen : start[k] + HeaderOfChunk + chunks[k].size > fileSize) \/ missing THEN << >>
        ELSE LET fmt == chunks[LastOf("fmt")].fmt
                 data == LastOf("data")
             IN  IF \/ fmt.tag # "pcm" \/ fmt.channels <= 0 \/ fmt.rate <= 0
                    \/ fmt.align # fmt.channels * fmt.width \/ chunks[data].size % fmt.align # 0
                 THEN << >>
                 ELSE << [offset |-> start[data] + HeaderOfChunk, rate |-> fmt.rate,
                          channels |-> fmt.channels, frames |-> chunks[data].size \div fmt.align] >>

\* _metadata
DurationUs(frames, rate) == HalfUp(frames * Micros, rate)

\* read_mono_samples: frames from the start up to, not including, the end; all frames a
\* region touches.  << >> when it has none.
RegionFrames(startUs, endUs, rate, frames) ==
    LET first == (startUs * rate) \div Micros
        last == Min({frames, (endUs * rate + Micros - 1) \div Micros})
    IN  IF startUs < 0 \/ endUs <= startUs \/ last <= first THEN << >> ELSE << first, last >>

Mixed(frame) == SumOf(frame)        \* times the number of channels

-----------------------------------------------------------------------------
(* Resampling to targetRate *)

\* _mix_resample of a whole recording: linear, each sample times targetRate.
Resampled(mono, rate, targetRate) ==
    LET n == Len(mono)
        count == IF rate = targetRate THEN n ELSE Max({1, HalfUp(n * targetRate, rate)})
        Between(i) ==
          LET left == Min({(i * rate) \div targetRate, n - 1})
              right == Min({left + 1, n - 1})
              part == i * rate - left * targetRate
          IN  ItemAt(mono, left) * (targetRate - part) + ItemAt(mono, right) * part
    IN  [k \in 1..count |-> IF rate = targetRate THEN mono[k] * targetRate ELSE Between(k - 1)]

\* iter_open_chunks: a block of source frames, nearest frame at or before each target sample.
StreamBlock(mono, block, rate, targetRate) ==
    LET part == Slice(mono, block[1], block[2])
        from == HalfUp(block[1] * targetRate, rate)
        to == HalfUp(block[2] * targetRate, rate)
        Source(t) == Min({block[2] - 1, (t * rate) \div targetRate})
        startUs == HalfUp(block[1] * Micros, rate)
        endUs == HalfUp(block[2] * Micros, rate)
    IN  [from |-> from, to |-> to,
         samples |-> [k \in 1..(to - from) |-> ItemAt(part, Source(from + k - 1) - block[1])],
         warp |-> [viewFrom |-> from, viewTo |-> Max({from + 1, to}),
                   from |-> startUs, to |-> Max({startUs + 1, endUs})]]

Stream(mono, size, rate, targetRate) ==
    [b \in DOMAIN BlocksOf(Len(mono), size) |->
       StreamBlock(mono, BlocksOf(Len(mono), size)[b], rate, targetRate)]

\* TimeWarpSegment.source_us
SourceUs(warp, sample) ==
    warp.from + HalfUp((sample - warp.viewFrom) * (warp.to - warp.from), warp.viewTo - warp.viewFrom)

\* _integer_average; // and \div both round down, so that the mean of -1 and -1 is -2.
Average(a, b) == IF a + b >= 0 THEN (a + b + 1) \div 2 ELSE (a + b - 1) \div 2

\* Mutant: what came last is forgotten at the end of a block.
Expanded_Fresh(acc, block) ==
    FoldLeft(LAMBDA a, x : [previous |-> << x >>,
                            out |-> IF a.previous = << >> THEN a.out
                                    ELSE a.out \o << a.previous[1], Average(a.previous[1], x) >>],
             [acc EXCEPT !.previous = << >>], block)

\* One block of _resample_8k: each sample and its average with the next.
Expanded(acc, block) ==
    FoldLeft(LAMBDA a, x : [previous |-> << x >>,
                            out |-> IF a.previous = << >> THEN a.out
                                    ELSE a.out \o << a.previous[1], Average(a.previous[1], x) >>],
             acc, block)

\* _resample_8k in blocks, and the last sample twice.
Doubled(mono, size) ==
    LET blocks == BlocksOf(Len(mono), size)
        all == FoldLeft(LAMBDA acc, b : Expanded(acc, Slice(mono, b[1], b[2])),
                        [previous |-> << >>, out |-> << >>], blocks)
    IN  IF all.previous = << >> THEN all.out ELSE all.out \o all.previous \o all.previous

\* _copy_16k
Copied(mono, size) ==
    LET blocks == BlocksOf(Len(mono), size)
    IN  FlattenSeq([b \in DOMAIN blocks |-> Slice(mono, blocks[b][1], blocks[b][2])])

-----------------------------------------------------------------------------
(* Frames of evidence *)

\* EnergyVadBackend.infer: frames overlap when they are longer than a hop; one is speech
\* when its mean square is at least the threshold's.
EnergyFrames(samples, warp, frame, hop, threshold) ==
    LET starts == {k * hop : k \in 0..(Len(samples) \div hop)} \cap (0..(Len(samples) - 1))
        Frame(s) ==
          LET e == Min({Len(samples), s + frame})
              power == SumOf([k \in 1..(e - s) |-> samples[s + k] * samples[s + k]])
          IN  [from |-> SourceUs(warp, s), to |-> SourceUs(warp, e),
               speech |-> power >= threshold * threshold * (e - s)]
    IN  {f \in {Frame(s) : s \in starts} : f.from < f.to}

\* The network: what it says depends on everything it was shown in this file.
Shown(state, input) == Append(state, input)

\* A call gets the end of the last input before the block, and zeros after a short one.
Window(samples, from, window) ==
    [k \in 1..window |-> IF from + k <= Len(samples) THEN samples[from + k] ELSE 0]
Context(input, context) == SubSeq(input, Len(input) - context + 1, Len(input))
Silence(n) == [k \in 1..n |-> 0]

\* infer_samples: [from, to, seen] for each window.
SileroWhole(samples, window, context, rate) ==
    LET Step(acc, b) ==
          LET input == acc.context \o Window(samples, b[1], window)
              state == Shown(acc.state, input)
              frame == [from |-> HalfEven(b[1] * Micros, rate), to |-> HalfEven(b[2] * Micros, rate),
                        seen |-> state]
          IN  [state |-> state, context |-> Context(input, context),
               frames |-> IF frame.from < frame.to THEN Append(acc.frames, frame) ELSE acc.frames]
    IN  FoldLeft(Step, [state |-> << >>, context |-> Silence(context), frames |-> << >>],
                 BlocksOf(Len(samples), window)).frames

\* Whole windows of what is pending go to the network; the rest waits for the next block.
Drained(acc, window, context, rate) ==
    FoldLeft(LAMBDA a, b :
               LET input == a.context \o Slice(a.pending, 0, window)
                   state == Shown(a.state, input)
               IN  [state |-> state, context |-> Context(input, context),
                    pending |-> Slice(a.pending, window, Len(a.pending)),
                    processed |-> a.processed + window,
                    frames |-> Append(a.frames,
                                 [from |-> HalfEven(a.processed * Micros, rate),
                                  to |-> HalfEven((a.processed + window) * Micros, rate),
                                  seen |-> state])],
             acc, [b \in 1..(Len(acc.pending) \div window) |-> b])

\* infer_chunk_stream of blocks of a file
SileroStream(blocks, window, context, rate) ==
    LET all == FoldLeft(LAMBDA acc, block :
                          Drained([acc EXCEPT !.pending = @ \o block], window, context, rate),
                        [state |-> << >>, context |-> Silence(context), pending |-> << >>,
                         processed |-> 0, frames |-> << >>], blocks)
        input == all.context \o Window(all.pending, 0, window)
        frame == [from |-> HalfEven(all.processed * Micros, rate),
                  to |-> HalfEven((all.processed + Len(all.pending)) * Micros, rate),
                  seen |-> Shown(all.state, input)]
    IN  IF all.pending = << >> \/ frame.to <= frame.from THEN all.frames
        ELSE Append(all.frames, frame)

-----------------------------------------------------------------------------
(* Gain *)

\* Statistics of the blocks of a file, from one to the next.
Statistics(samples, size) ==
    FoldLeft(LAMBDA acc, b :
               LET part == Slice(samples, b[1], b[2])
                   Absolute(x) == IF x < 0 THEN -x ELSE x
               IN  [count |-> acc.count + Len(part),
                    squares |-> acc.squares + SumOf([k \in DOMAIN part |-> part[k] * part[k]]),
                    peak |-> Max({acc.peak} \cup {Absolute(part[k]) : k \in DOMAIN part})],
             [count |-> 0, squares |-> 0, peak |-> 0], BlocksOf(Len(samples), size))

\* analyze_pcm16_global_gain under [trigger, gain, ceiling, floor], amplitudes as samples are
\* and gains in hundredths: the gain as a ratio, and why.
Gain(samples, size, policy) ==
    LET s == Statistics(samples, size)
        limit == IF s.peak = 0 \/ policy.ceiling * 100 >= policy.gain * s.peak
                   THEN << policy.gain, 100 >>
                   ELSE << Max({policy.ceiling, s.peak}), s.peak >>
        None == << 1, 1 >>
    IN  IF s.squares >= policy.trigger * policy.trigger * s.count
          THEN [gain |-> None, reason |-> "RMS_AT_OR_ABOVE_TRIGGER"]
        ELSE IF limit[1] = limit[2] THEN [gain |-> None, reason |-> "LOW_RMS_PEAK_PREVENTS_BOOST"]
        ELSE IF limit[1] * 100 < policy.floor * limit[2]
          THEN [gain |-> None, reason |-> "LOW_RMS_GAIN_BELOW_ACTIVATION_FLOOR"]
        ELSE [gain |-> limit, reason |-> IF limit = << policy.gain, 100 >> THEN "LOW_RMS_MAX_BOOST"
                                         ELSE "LOW_RMS_PEAK_LIMITED_BOOST"]

-----------------------------------------------------------------------------
(* What blocks may not change *)

\* Each sample of the stream is that of the source frame at or before its time; but when a
\* chunk's first time was rounded down to one before it, the code takes a sample from the
\* chunk's end, and of these nothing is said.
StreamFollows(mono, size, rate, targetRate) ==
    \A b \in DOMAIN BlocksOf(Len(mono), size) :
      LET block == Stream(mono, size, rate, targetRate)[b]
      IN  \A k \in DOMAIN block.samples :
            LET time == (block.from + k - 1) * rate
            IN  \/ time < BlocksOf(Len(mono), size)[b][1] * targetRate
                \/ block.samples[k] = ItemAt(mono, time \div targetRate)

\* However a file is cut into blocks, its canonical samples, its stream, what the network is
\* shown and its gain are those of the whole file, and gain keeps under the ceiling.
BlocksAreInvisible(mono, size, window, context, rate, policy) ==
    LET n == Len(mono)
        cut == BlocksOf(n, size)
        blocks == [b \in DOMAIN cut |-> Slice(mono, cut[b][1], cut[b][2])]
    IN  /\ Copied(mono, size) = mono
        /\ Doubled(mono, size) =
             [k \in 1..(2 * n) |-> IF k % 2 = 1 \/ k = 2 * n THEN mono[(k + 1) \div 2]
                                  ELSE Average(mono[k \div 2], mono[(k \div 2) + 1])]
        /\ SileroStream(blocks, window, context, rate) = SileroWhole(mono, window, context, rate)
        /\ n > 0 =>
             \A limited \in {Gain(mono, size, policy)}, stream \in {Stream(mono, size, rate, 2)} :
               /\ limited = Gain(mono, n, policy)
               /\ \/ limited.gain = << 1, 1 >>
                  \/ limited.gain[1] * Statistics(mono, n).peak <= policy.ceiling * limited.gain[2]
               /\ StreamFollows(mono, size, rate, 2)
               /\ stream[1].from = 0
               /\ stream[Len(stream)].to = HalfUp(n * 2, rate)
               /\ \A b \in 1..(Len(stream) - 1) : stream[b].to = stream[b + 1].from

\* A region is read with every frame that it touches.
RegionIsRead(startUs, endUs, rate, frames) ==
    LET read == RegionFrames(startUs, endUs, rate, frames)
        touched == {f \in 0..(frames - 1) : f * Micros < endUs * rate /\ startUs * rate < (f + 1) * Micros}
    IN  startUs < endUs =>
          IF touched = {} THEN read = << >> ELSE read = << Min(touched), Max(touched) + 1 >>

\* Each canonical sample lies between the samples of the recording around it.
BetweenNeighbours(mono, size) ==
    LET out == Doubled(mono, size)
    IN  \A k \in DOMAIN out :
          LET here == mono[(k + 1) \div 2]
              next == IF (k + 1) \div 2 < Len(mono) THEN mono[((k + 1) \div 2) + 1] ELSE here
          IN  Min({here, next}) <= out[k] /\ out[k] <= Max({here, next})

=============================================================================
