--------------------------- MODULE EmbeddingBatches ---------------------------
(***************************************************************************)
(* Speaker embeddings of regions of speech, batch by batch                 *)
(* (wespeaker_runtime.py).                                                 *)
(*                                                                         *)
(* A region is [id, samples, says]: its windows have, in turn, the         *)
(* directions says gives, 1 and -1 being opposite and 0 no direction.  A   *)
(* feature is the sequence of its frames by number, and 0 a frame of       *)
(* nothing.  A configuration is [length, shift (of a frame), native,       *)
(* batch, exact, buffer, window, period, all, chosen].                     *)
(***************************************************************************)
EXTENDS Integers, SequencesExt

\* Options of __init__ that go together.
LegalOptions(cfg) ==
    /\ cfg.all => cfg.chosen = {}
    /\ cfg.exact => ~cfg.all /\ cfg.chosen = {}

\* Frames of a region: Kaldi's features refuse one shorter than a frame, and the
\* approximation fills it up.
FrameCount(samples, cfg) ==
    IF cfg.native /\ samples < cfg.length THEN 0
    ELSE 1 + Max({0, samples - cfg.length}) \div cfg.shift

\* numpy.resize repeats or cuts; of nothing it makes zeros.
Resized(frames, n) ==
    [k \in 1..n |-> IF frames = << >> THEN 0 ELSE frames[((k - 1) % Len(frames)) + 1]]

\* Where the windows of a region start, in frames of its time.
Starts(ticks, cfg) ==
    IF ticks <= cfg.window THEN << 0 >>
    ELSE LET last == ticks - cfg.window + cfg.period - 1
         IN  [k \in 1..(1 + last \div cfg.period) |-> (k - 1) * cfg.period]

\* _region_feature_windows; << >> for a region whose feature is refused.
Windows(region, split, cfg) ==
    LET count == FrameCount(region.samples, cfg)
        feature == [k \in 1..count |-> k]
        ticks == Max({1, region.samples \div cfg.shift})
        starts == Starts(ticks, cfg)
    IN  IF count = 0 THEN << >>
        ELSE IF ~split THEN << feature >>
        ELSE [k \in DOMAIN starts |->
                Resized(SubSeq(feature, starts[k] + 1,
                               Min({starts[k] + cfg.window, ticks, count})), cfg.window)]

\* A row of what the network is given, and the direction it answers with.
Row(region, windows, k, width) ==
    [id |-> region.id, frames |-> windows[k], width |-> width,
     way |-> region.says[((k - 1) % Len(region.says)) + 1]]

Result(region, reason, rows) == [id |-> region.id, reason |-> reason, rows |-> rows]
Rejected(region) == Result(region, "feature_window_rejected", << >>)

\* The mean of the unit vectors of a region's rows.
Pooled(region, rows) ==
    LET units == SelectSeq(rows, LAMBDA r : r.way # 0)
        sum == FoldLeft(LAMBDA s, r : s + r.way, 0, units)
    IN  IF units = << >> THEN Result(region, "zero_or_nonfinite_embedding", << >>)
        ELSE IF sum = 0 THEN Result(region, "inconsistent_window_embeddings", << >>)
        ELSE Result(region, "", units)

-----------------------------------------------------------------------------
(* Batches of regions, padded to the longest *)

\* Mutant: rows without a direction are not counted.
Taken_Kept(rows) == Len(SelectSeq(rows, LAMBDA r : r.way # 0))

\* valid_index moves over every row of a region.
Taken(rows) == Len(rows)

EmbedBatch(batch, windows, cfg) ==
    LET width == Max({0} \cup UNION {{Len(windows[k][w]) : w \in DOMAIN windows[k]} : k \in DOMAIN batch})
        rows == FlattenSeq([k \in DOMAIN batch |->
                  [w \in DOMAIN windows[k] |-> Row(batch[k], windows[k], w, width)]])
    IN  FoldLeftDomain(LAMBDA acc, k :
          IF windows[k] = << >> THEN [acc EXCEPT !.results = Append(@, Rejected(batch[k]))]
          ELSE LET own == SubSeq(rows, acc.next, acc.next + Len(windows[k]) - 1)
               IN  [results |-> Append(acc.results, Pooled(batch[k], own)),
                    next |-> acc.next + Taken(own)],
          [results |-> << >>, next |-> 1], batch).results

\* _embed_once
EmbedOnce(regions, chosen, cfg) ==
    LET batches == (Len(regions) + cfg.batch - 1) \div cfg.batch
        Batch(b) == SubSeq(regions, (b - 1) * cfg.batch + 1, Min({b * cfg.batch, Len(regions)}))
    IN  FlattenSeq([b \in 1..batches |->
          EmbedBatch(Batch(b), [k \in DOMAIN Batch(b) |->
                                  Windows(Batch(b)[k], cfg.all \/ Batch(b)[k].id \in chosen, cfg)], cfg)])

-----------------------------------------------------------------------------
(* Groups of regions of one length *)

\* The region that is answered with region i: within a buffer and a length, group by
\* group of at most a batch.
GroupOf(regions, i, cfg) ==
    LET first == ((i - 1) \div cfg.buffer) * cfg.buffer
        mates == {j \in first + 1..Min({first + cfg.buffer, Len(regions)}) :
                    FrameCount(regions[j].samples, cfg) = FrameCount(regions[i].samples, cfg)}
        place == Cardinality({j \in mates : j < i})
    IN  SelectSeq(SetToSortSeq(mates, <),
                  LAMBDA j : Cardinality({h \in mates : h < j}) \div cfg.batch = place \div cfg.batch)

\* _embed_exact_length_bounded: answers go back by the index of the region.
EmbedExact(regions, cfg) ==
    [i \in DOMAIN regions |->
       IF FrameCount(regions[i].samples, cfg) = 0 THEN Rejected(regions[i])
       ELSE LET group == GroupOf(regions, i, cfg)
                tensor == [k \in DOMAIN group |->
                             Row(regions[group[k]], Windows(regions[group[k]], FALSE, cfg), 1,
                                 FrameCount(regions[group[k]].samples, cfg))]
            IN  Pooled(regions[i], << tensor[CHOOSE k \in DOMAIN group : group[k] = i] >>)]

\* embed: the chosen regions are done again in windows, the others are as they were.
Embed(regions, cfg) ==
    LET chosen == SelectSeq(regions, LAMBDA r : r.id \in cfg.chosen)
        Replaced(baseline, again) ==
            [k \in DOMAIN baseline |->
               IF \E a \in again : a.id = baseline[k].id
               THEN CHOOSE a \in again : a.id = baseline[k].id
               ELSE baseline[k]]
    IN  IF cfg.exact THEN EmbedExact(regions, cfg)
        ELSE Replaced(EmbedOnce(regions, {}, cfg),
                      ToSet(IF chosen = << >> THEN << >> ELSE EmbedOnce(chosen, cfg.chosen, cfg)))

-----------------------------------------------------------------------------
(* What an embedding promises *)

\* What a result is made of, whatever it was padded to.
Unpadded(result) == [result EXCEPT !.rows = [k \in DOMAIN @ |-> [@[k] EXCEPT !.width = 0]]]

\* Each region has its result, in order, of all its own frames and nobody else's; its
\* company shows in the padding at most, and not even there when lengths are kept apart;
\* choosing some regions for windows leaves the others as they were.
EmbeddingsAreOwn(regions, cfg) ==
    \A results \in {Embed(regions, cfg)}, plain \in {EmbedOnce(regions, {}, cfg)} :
      /\ Len(results) = Len(regions)
      /\ \A i \in DOMAIN regions :
           \A mine \in {results[i]}, alone \in {Embed(<< regions[i] >>, cfg)} :
             LET held == UNION {ToSet(r.frames) : r \in ToSet(mine.rows)}
                 all == 1..FrameCount(regions[i].samples, cfg)
             IN  /\ mine.id = regions[i].id /\ \A r \in ToSet(mine.rows) : r.id = mine.id
                 /\ Unpadded(mine) = Unpadded(alone[1]) /\ (cfg.exact => mine = alone[1])
                 /\ mine.reason = "" /\ 0 \notin ToSet(regions[i].says) => held = all
                 /\ cfg.exact => Unpadded(mine) = Unpadded(plain[i])
                 /\ ~cfg.exact /\ regions[i].id \notin cfg.chosen => mine = plain[i]
=============================================================================
