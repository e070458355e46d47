------------------------------ MODULE Hypotheses -----------------------------
(***************************************************************************)
(* How many speakers there are (diarization.py): one and two centres are   *)
(* fitted to the anchors, and two are confirmed only when they are far     *)
(* enough apart, cost enough less, alternate, and stand without any block  *)
(* of the recording.  Then the opt-in recent centroid of a speaker, which  *)
(* follows a voice that drifts.  A vector is in the plane, of length Scale *)
(* up to rounding; ratios and distances are in parts of Scale.             *)
(***************************************************************************)
EXTENDS Integers, SequencesExt

CONSTANTS Scale, Cfg

Infinite == 1000000

Total(S, Of(_)) == FoldSet(LAMBDA x, sum : sum + Of(x), 0, S)
Least(s) == CHOOSE i \in DOMAIN s : \A j \in DOMAIN s : s[i] < s[j] \/ (s[i] = s[j] /\ i <= j)

RECURSIVE RootBetween(_, _, _)
RootBetween(n, low, high) ==
    LET mid == (low + high + 1) \div 2
    IN  IF low = high THEN low
        ELSE IF mid * mid <= n THEN RootBetween(n, mid, high) ELSE RootBetween(n, low, mid - 1)

\* _vector: brought to length Scale.
Unit(v) == LET norm == RootBetween(v[1] * v[1] + v[2] * v[2], 0, 40000)
           IN  << (v[1] * Scale) \div norm, (v[2] * Scale) \div norm >>

\* cosine_distance
Distance(u, v) == Scale - (u[1] * v[1] + u[2] * v[2]) \div Scale

\* _weighted_centroid of rows of a vector and a weight; of rows that cancel out, the first vector.
Centroid(rows) ==
    LET sum == FoldLeft(LAMBDA s, row : << s[1] + row.weight * row.vector[1], s[2] + row.weight * row.vector[2] >>,
                        << 0, 0 >>, rows)
    IN  IF sum = << 0, 0 >> THEN Unit(rows[1].vector) ELSE Unit(sum)

-----------------------------------------------------------------------------
(* A fit of k centres *)

\* select_anchor_evidence
Weight(a) == a.quality * Min({a.clean, Cfg.weightCap})
Row(a) == [vector |-> a.vector, weight |-> Weight(a)]

Distances(a, centers) == [k \in DOMAIN centers |-> Distance(a.vector, centers[k])]
ToNearest(a, centers) == LET d == Distances(a, centers) IN d[Least(d)]
Nearest(a, centers) == Least(Distances(a, centers))
Group(anchors, centers, k) == SelectSeq(anchors, LAMBDA a : Nearest(a, centers) = k)

Invalid == [valid |-> FALSE, constraints |-> FALSE, cost |-> Infinite]

\* The centres after at most n rounds, or << >> when one of them attracts no anchor.
RECURSIVE Moved(_, _, _)
Updated(groups) == [k \in DOMAIN groups |-> Centroid([i \in DOMAIN groups[k] |-> Row(groups[k][i])])]
MovedTo(anchors, centers, groups, n) ==
    IF \E k \in DOMAIN centers : groups[k] = << >> THEN << >>
    ELSE IF Updated(groups) = centers THEN centers
    ELSE Moved(anchors, Updated(groups), n - 1)
Moved(anchors, centers, n) ==
    IF n = 0 THEN centers
    ELSE MovedTo(anchors, centers, [k \in DOMAIN centers |-> Group(anchors, centers, k)], n)

\* _assign: a label for each anchor's id, 0 for an outlier.
Labels(anchors, centers) ==
    [id \in {anchors[i].id : i \in DOMAIN anchors} |->
       LET a == anchors[CHOOSE i \in DOMAIN anchors : anchors[i].id = id]
       IN  IF ToNearest(a, centers) <= Cfg.outlierDistance THEN Nearest(a, centers) ELSE 0]

\* What a fit says of the anchors of each centre (in), and of the others.
Judged(all, centers, labels, in) ==
    LET weight == Total(all, Weight)
        Dispersion(k) == Total(in[k], LAMBDA a : Weight(a) * Distance(a.vector, centers[k])) \div Total(in[k], Weight)
        outliers == Total({a \in all : labels[a.id] = 0}, Weight)
    IN  [valid |-> TRUE, centers |-> centers, labels |-> labels,
         cost |-> Total(all, LAMBDA a : Weight(a) * Min({ToNearest(a, centers), Cfg.outlierDistance})) \div weight,
         separation |-> IF Len(centers) = 2 THEN Distance(centers[1], centers[2]) ELSE 0,
         constraints |->
           /\ (Scale * outliers) \div weight <= Cfg.maxOutliers
           /\ \A k \in DOMAIN centers :
                /\ Dispersion(k) <= Cfg.maxDispersion
                /\ Len(centers) = 2 => /\ Cardinality({a.group : a \in in[k]}) >= Cfg.minBlocks
                                       /\ Total(in[k], LAMBDA a : a.clean) >= Cfg.minClean]

Labelled(all, centers, labels) ==
    IF \E k \in DOMAIN centers : \A a \in all : labels[a.id] # k THEN Invalid
    ELSE Judged(all, centers, labels, [k \in DOMAIN centers |-> {a \in all : labels[a.id] = k}])

\* robust_spherical_fit
FitAt(anchors, centers) ==
    IF centers = << >> THEN Invalid ELSE Labelled(ToSet(anchors), centers, Labels(anchors, centers))
Fit(anchors, seeds) ==
    IF Len(anchors) < Len(seeds) THEN Invalid ELSE FitAt(anchors, Moved(anchors, seeds, Cfg.maxIterations))

FitOne(anchors) == Fit(anchors, << Centroid([i \in DOMAIN anchors |-> Row(anchors[i])]) >>)

\* The one with the most of something, and of those the last by its id.
Foremost(anchors, Of(_)) ==
    CHOOSE a \in ToSet(anchors) : \A b \in ToSet(anchors) : Of(a) > Of(b) \/ (Of(a) = Of(b) /\ a.id >= b.id)
Farthest(a, anchors) == Foremost(anchors, LAMBDA b : Distance(a.vector, b.vector))

Starters(anchors, one) ==
    LET ordered == SortSeq(anchors, LAMBDA a, b : a.from < b.from \/ (a.from = b.from /\ a.id < b.id))
        n == Len(anchors)
    IN  << Foremost(anchors, Weight), Foremost(anchors, LAMBDA a : Distance(a.vector, one.centers[1])),
           ordered[1], ordered[n \div 4 + 1], ordered[n \div 2 + 1], ordered[(3 * n) \div 4 + 1] >>

\* The pairs of seeds, each pair of anchors once, as it first came.
SeedPairs(anchors, one) ==
    FoldLeft(LAMBDA pairs, a :
               LET b == Farthest(a, anchors)
               IN  IF a.id = b.id \/ \E p \in ToSet(pairs) : {p[1].id, p[2].id} = {a.id, b.id} THEN pairs
                   ELSE Append(pairs, << a, b >>),
             << >>, SubSeq(Starters(anchors, one), 1, Cfg.seeds))

Before(u, v) == u[1] < v[1] \/ (u[1] = v[1] /\ u[2] < v[2])
Cheaper(f, g) ==
    \/ f.cost < g.cost
    \/ f.cost = g.cost /\ \/ Before(f.centers[1], g.centers[1])
                          \/ f.centers[1] = g.centers[1] /\ ~Before(g.centers[2], f.centers[2])

\* fit_h2_once
Cheapest(fits) ==
    IF fits = {} THEN Invalid ELSE CHOOSE f \in fits : \A g \in fits : Cheaper(f, g)
Preferred(fits) ==
    Cheapest(IF \E f \in fits : f.constraints THEN {f \in fits : f.constraints} ELSE {f \in fits : f.valid})
FitFrom(anchors, pairs) == {Fit(anchors, << pairs[i][1].vector, pairs[i][2].vector >>) : i \in DOMAIN pairs}
Seeded(anchors, one) == IF one.valid THEN Preferred(FitFrom(anchors, SeedPairs(anchors, one))) ELSE Invalid
FitTwo(anchors) == IF Len(anchors) < 2 THEN Invalid ELSE Seeded(anchors, FitOne(anchors))

-----------------------------------------------------------------------------
(* Evidence for two *)

\* _permutation: which centre of the base each centre of the other is.
Matching(base, other) ==
    LET Apart(i, j) == Distance(base.centers[i], other.centers[j])
    IN  IF Apart(1, 1) + Apart(2, 2) <= Apart(1, 2) + Apart(2, 1) THEN << 1, 2 >> ELSE << 2, 1 >>

Median(s) ==
    LET sorted == SortSeq(s, <)
        n == Len(s)
    IN  IF n = 0 THEN 0
        ELSE IF n % 2 = 1 THEN sorted[n \div 2 + 1]
        ELSE (sorted[n \div 2] + sorted[n \div 2 + 1]) \div 2

\* Agreement and likeness of a fit without one block.
Agreement(base, refit, match, common) ==
    << IF common = {} THEN 0
       ELSE (Scale * Total({a \in common : base.labels[a.id] = match[refit.labels[a.id]]}, Weight))
              \div Total(common, Weight),
       Scale - Max({Distance(base.centers[k], refit.centers[match[k]]) : k \in 1..2}) >>
Compared(base, refit, rest) ==
    IF ~refit.valid THEN << 0, 0 >>
    ELSE Agreement(base, refit, Matching(base, refit),
                   {a \in rest : base.labels[a.id] # 0 /\ refit.labels[a.id] # 0})
Without(block, base, anchors) ==
    LET rest == SelectSeq(anchors, LAMBDA a : a.group # block)
    IN  Compared(base, FitTwo(rest), ToSet(rest))

\* _stability
Blocks(anchors) == SortSeq(SetToSeq({a.group : a \in ToSet(anchors)}), <)
Refits(base, anchors, blocks) ==
    LET first == SubSeq(blocks, 1, Min({Len(blocks), Cfg.stabilityBlocks}))
        useful == SelectSeq(first, LAMBDA b : Cardinality({a \in ToSet(anchors) : a.group # b}) >= 2)
    IN  [i \in DOMAIN useful |-> Without(useful[i], base, anchors)]
Medians(refits) ==
    [label |-> Median([i \in DOMAIN refits |-> refits[i][1]]),
     centroid |-> Median([i \in DOMAIN refits |-> refits[i][2]])]
Stability(base, anchors) == Medians(Refits(base, anchors, Blocks(anchors)))

\* _temporal_evidence
Inliers(base, anchors) ==
    SortSeq(SelectSeq(anchors, LAMBDA a : base.labels[a.id] # 0),
            LAMBDA a, b : a.from < b.from \/ (a.from = b.from /\ a.id < b.id))

\* As Interleaved, with one change of speaker enough.
Interleaved_OneWay(base, anchors) ==
    LET heard == Inliers(base, anchors)
    IN  \E i \in 2..Len(heard) : base.labels[heard[i-1].id] # base.labels[heard[i].id]

Interleaved(base, anchors) ==
    LET heard == Inliers(base, anchors)
        Follows(s, t) == \E i \in 2..Len(heard) : base.labels[heard[i-1].id] = s /\ base.labels[heard[i].id] = t
    IN  Follows(1, 2) /\ Follows(2, 1)
Conflict(base, anchors) ==
    LET heard == Inliers(base, anchors)
    IN  \E i \in 2..Len(heard) :
          /\ heard[i-1].group = heard[i].group /\ heard[i].scd < Cfg.minScd
          /\ base.labels[heard[i-1].id] # base.labels[heard[i].id]

\* _third_speaker_risk
ThirdRisk(base, anchors) ==
    LET residuals == SelectSeq(anchors, LAMBDA a : ToNearest(a, base.centers) > Cfg.residualDistance)
        center == Centroid([i \in DOMAIN residuals |-> Row(residuals[i])])
        all == ToSet(residuals)
    IN  /\ Cardinality({a.group : a \in all}) >= 2
        /\ Total(all, LAMBDA a : Weight(a) * Distance(a.vector, center)) \div Total(all, Weight)
             <= Cfg.residualDispersion
        /\ \A k \in 1..2 : Distance(center, base.centers[k]) >= Cfg.residualSeparation

Uncertain == [state |-> "UNCERTAIN_1_OR_2"]

\* evaluate_h2: the cost of two, and whether they may be confirmed.
Penalty(two, anchors) ==
    (IF Interleaved(two, anchors) THEN 0 ELSE 1) + (IF Conflict(two, anchors) THEN 1 ELSE 0)
CostOfTwo(two, stable, penalty) ==
    two.cost + Cfg.lambdaTwo + (Cfg.lambdaStability * (Scale - stable.label)) \div Scale
      + Cfg.lambdaCondition * penalty
Confirmed(two, anchors, stable, penalty) ==
    /\ two.constraints /\ penalty = 0 /\ ~ThirdRisk(two, anchors)
    /\ stable.label >= Cfg.minStability /\ stable.centroid >= Cfg.minStability

\* evaluate_hypotheses
Chosen(anchors, one, two, stable, penalty) ==
    IF /\ two.valid /\ two.separation >= Cfg.minSeparation
       /\ one.cost - CostOfTwo(two, stable, penalty) >= Cfg.minGain
      THEN IF Confirmed(two, anchors, stable, penalty) THEN [state |-> "H2_CONFIRMED", fit |-> two] ELSE Uncertain
    ELSE IF one.constraints THEN [state |-> "H1_CONFIRMED", fit |-> one]
    ELSE Uncertain
Evaluated(anchors, one, two) ==
    Chosen(anchors, one, two, Stability(two, anchors), Penalty(two, anchors))
Decide(anchors) ==
    IF anchors = << >> THEN Uncertain ELSE Evaluated(anchors, FitOne(anchors), FitTwo(anchors))

-----------------------------------------------------------------------------
(* Speakers, and the centre that follows a voice *)

\* speaker_states_from_decision: the first one heard comes first.
Speakers(decision, anchors) ==
    LET fit == decision.fit
        Heard(k) == Min({a.from : a \in {b \in ToSet(anchors) : fit.labels[b.id] = k}})
        order == SortSeq([k \in DOMAIN fit.centers |-> k], LAMBDA k, j : Heard(k) < Heard(j))
    IN  IF decision.state = "UNCERTAIN_1_OR_2" THEN << >>
        ELSE [i \in DOMAIN order |-> [stable |-> fit.centers[order[i]], recent |-> << >>, frozen |-> FALSE]]

\* _state_distances: the recent centre brings a voice nearer, by a bounded part of what it says.
Effective(vector, speaker) ==
    LET stable == Distance(vector, speaker.stable)
        benefit == Max({0, Min({Cfg.maxBenefit, stable - Distance(vector, speaker.recent)})})
    IN  IF speaker.recent = << >> THEN stable ELSE stable - (Cfg.blend * benefit) \div Scale

\* local_assignment of an anchor: the speaker's number and by how much it is nearer, or 0.
Assigned(vector, speakers) ==
    LET score == [k \in DOMAIN speakers |-> Effective(vector, speakers[k])]
        best == Least(score)
        stable == Distance(vector, speakers[best].stable)
        margin == IF Len(score) = 1 THEN Infinite ELSE score[3 - best] - score[best]
        poor == stable > Cfg.stableCeiling \/ score[best] > Cfg.absoluteMax \/ margin < Cfg.minMargin
    IN  IF poor THEN [who |-> 0] ELSE [who |-> best, stable |-> stable, margin |-> margin]

\* As Recent, with the drift measured from where the recent centre was.
Recent_FromLast(speaker, a, assigned, rivals) ==
    LET old == IF speaker.recent = << >> THEN speaker.stable ELSE speaker.recent
        proposal == Centroid(<< [vector |-> old, weight |-> Cfg.decay], [vector |-> a.vector, weight |-> 10] >>)
        own == Distance(proposal, old)
    IN  IF \/ speaker.frozen \/ rivals = {} \/ assigned.margin < Cfg.updateMargin
           \/ assigned.stable > Cfg.updateFit \/ a.quality < Cfg.updateQuality
        THEN speaker
        ELSE IF own > Cfg.radius THEN [speaker EXCEPT !.frozen = TRUE]
        ELSE IF \E rival \in rivals : Distance(proposal, rival.stable) - own < Cfg.rivalMargin THEN speaker
        ELSE [speaker EXCEPT !.recent = proposal]

\* maybe_update_recent
Recent(speaker, a, assigned, rivals) ==
    LET old == IF speaker.recent = << >> THEN speaker.stable ELSE speaker.recent
        proposal == Centroid(<< [vector |-> old, weight |-> Cfg.decay], [vector |-> a.vector, weight |-> 10] >>)
        own == Distance(proposal, speaker.stable)
    IN  IF \/ speaker.frozen \/ rivals = {} \/ assigned.margin < Cfg.updateMargin
           \/ assigned.stable > Cfg.updateFit \/ a.quality < Cfg.updateQuality
        THEN speaker
        ELSE IF own > Cfg.radius THEN [speaker EXCEPT !.frozen = TRUE]
        ELSE IF \E rival \in rivals : Distance(proposal, rival.stable) - own < Cfg.rivalMargin THEN speaker
        ELSE [speaker EXCEPT !.recent = proposal]

\* refine_recent_states
Refined(speakers, anchors) ==
    FoldLeft(LAMBDA now, a :
               LET assigned == Assigned(a.vector, now)
                   rivals == {now[k] : k \in DOMAIN now \ {assigned.who}}
               IN  IF assigned.who = 0 THEN now
                   ELSE [now EXCEPT ![assigned.who] = Recent(@, a, assigned, rivals)],
             speakers,
             SortSeq(anchors, LAMBDA a, b : a.from < b.from \/ (a.from = b.from /\ a.id < b.id)))

-----------------------------------------------------------------------------
(* Properties.  A voice is what an anchor really is of, 0 when that is not clear. *)

\* Anchors that are all nearer to each other than two speakers may be are never two speakers.
OneVoiceIsNotTwo(anchors, decision) ==
    (\A a, b \in ToSet(anchors) : Distance(a.vector, b.vector) < Cfg.minSeparation)
      => decision.state # "H2_CONFIRMED"

\* Two voices that differ clearly are confirmed when, and only when, both are heard in two blocks,
\* alternate and do not change within a block; and then every anchor has the label of its voice.
TwoVoicesAreToldApart(anchors, decision) ==
    LET all == ToSet(anchors)
        BlocksOf(v) == {a.group : a \in {b \in all : b.voice = v}}
        Follows(v, w) == \E i \in 2..Len(anchors) : anchors[i-1].voice = v /\ anchors[i].voice = w
    IN  {a.voice : a \in all} = {1, 2} =>
          /\ decision.state = "H2_CONFIRMED" <=>
               /\ \A v \in 1..2 : Cardinality(BlocksOf(v)) >= 2
               /\ Follows(1, 2) /\ Follows(2, 1) /\ BlocksOf(1) \cap BlocksOf(2) = {}
          /\ decision.state = "H2_CONFIRMED" =>
               \A a, b \in all : decision.fit.labels[a.id] = decision.fit.labels[b.id] <=> a.voice = b.voice

\* A recent centre stays by the stable one however long a voice drifts, and never gives a
\* tracklet to a speaker whose stable centre is not the nearest.
RecentStaysBounded(anchors, speakers) ==
    LET now == Refined(speakers, anchors)
    IN  /\ \A k \in DOMAIN now :
             /\ now[k].stable = speakers[k].stable
             /\ now[k].recent # << >> => Distance(now[k].recent, now[k].stable) <= Cfg.radius
        /\ \A a \in ToSet(anchors) :
             LET assigned == Assigned(a.vector, now)
             IN  assigned.who # 0 =>
                   \A k \in DOMAIN now :
                     Distance(a.vector, now[assigned.who].stable) <= Distance(a.vector, now[k].stable)

\* All of these, of a decision, of the speakers it makes and of speakers that are known.
DecisionHolds(anchors, decision) ==
    /\ OneVoiceIsNotTwo(anchors, decision)
    /\ TwoVoicesAreToldApart(anchors, decision)
    /\ decision.state = "H2_CONFIRMED" => RecentStaysBounded(anchors, Speakers(decision, anchors))
HypothesesHold(anchors, speakers) ==
    DecisionHolds(anchors, Decide(anchors)) /\ RecentStaysBounded(anchors, speakers)
=============================================================================
