----------------------------- MODULE Evaluation -----------------------------
(***************************************************************************)
(* The offline scorer (evaluation.py): a recording's reference and         *)
(* hypothesis turns are scored on the intervals of its UEM, recordings are *)
(* pooled, and manifests are kept apart by split.                          *)
(*                                                                         *)
(* A turn is [who, from, to] and an interval << from, to >>.  Labels are   *)
(* numbers, so that they can be sorted as names are; a label with a        *)
(* hypothesis name is never a reference name.  A ratio is a pair.          *)
(***************************************************************************)
EXTENDS Integers, SequencesExt

OverlapLabel == 90      \* "OVERLAP"
OtherLabel == 91        \* UNKNOWN, NON_SPEECH, SILENCE, ... on either side

Ratio(n, d) == IF d = 0 THEN << 0, 1 >> ELSE << n, d >>
Sum(S, Of(_)) == MapThenSumSet(Of, S)
Magnitude(x) == IF x < 0 THEN -x ELSE x
RangeOf(s) == {s[i] : i \in DOMAIN s}
SumOver(s, Of(_)) == FoldLeft(LAMBDA sum, x : sum + Of(x), 0, s)

-----------------------------------------------------------------------------
(* Intervals *)

\* _merge_intervals: touching intervals become one.
Merged(intervals) ==
    FoldLeft(LAMBDA kept, next :
               IF kept = << >> \/ next[1] > Last(kept)[2] THEN Append(kept, next)
               ELSE [kept EXCEPT ![Len(kept)] = << @[1], Max({@[2], next[2]}) >>],
             << >>,
             SetToSortSeq(intervals, LAMBDA a, b : a[1] < b[1] \/ (a[1] = b[1] /\ a[2] < b[2])))

\* _subtract_intervals of one interval: a cursor walks over the merged cuts.
Without(interval, cuts) ==
    LET walk == FoldLeft(LAMBDA acc, cut :
                  IF cut[2] <= acc.cursor \/ cut[1] >= interval[2] \/ acc.cursor >= interval[2] THEN acc
                  ELSE [kept |-> IF cut[1] > acc.cursor
                                   THEN acc.kept \cup {<< acc.cursor, Min({cut[1], interval[2]}) >>}
                                   ELSE acc.kept,
                        cursor |-> Max({acc.cursor, cut[2]})],
                  [kept |-> {}, cursor |-> interval[1]], Merged(cuts))
    IN  walk.kept \cup IF walk.cursor < interval[2] THEN {<< walk.cursor, interval[2] >>} ELSE {}

Inside(point, intervals) == \E i \in intervals : i[1] <= point /\ point < i[2]

\* _apply_collar around the ends of reference turns, _der_collar_boundaries
Collared(uem, reference, collar) ==
    LET points == {p \in UNION {{t.from, t.to} : t \in {r \in reference : r.who < OverlapLabel}} :
                     Inside(p, uem)}
    IN  IF collar <= 0 \/ points = {} THEN uem
        ELSE UNION {Without(i, {<< Max({0, p - collar}), p + collar >> : p \in points}) : i \in uem}

-----------------------------------------------------------------------------
(* Cells *)

\* Mutant: what is active is looked up by the whole turn and not by what is in the UEM.
Active_Unclipped(turns, interval, point) ==
    {t.who : t \in {u \in turns : u.from < interval[2] /\ u.to >= point}}

\* Labels with a turn over the point, of what is in the interval of each turn.
Active(turns, interval, point) ==
    {t.who : t \in {u \in turns : Max({u.from, interval[1]}) <= point
                                   /\ point < Min({u.to, interval[2]})}}

Speakers(labels) == {l \in labels : l < OverlapLabel}

\* _timeline_cells: between two neighbouring ends of turns nothing changes.
Cells(reference, hypothesis, intervals) ==
    UNION {LET points == {i[1], i[2]} \cup
                   {p \in UNION {{t.from, t.to} : t \in reference \cup hypothesis} :
                      i[1] < p /\ p < i[2]}
           IN  {LET refs == Active(reference, i, p)
                    hyps == Active(hypothesis, i, p)
                    next == Min({q \in points : q > p})
                IN  [from |-> p, to |-> next, refs |-> Speakers(refs), hyps |-> Speakers(hyps),
                     refOverlap |-> OverlapLabel \in refs, hypOverlap |-> OverlapLabel \in hyps] :
                  p \in points \ {i[2]}} :
             i \in intervals}

Long(cell) == cell.to - cell.from
RefLabels(cells) == UNION {c.refs : c \in cells}
HypLabels(cells) == UNION {c.hyps : c \in cells}
RefTime(cells, r) == Sum({c \in cells : r \in c.refs}, Long)
HypTime(cells, h) == Sum({c \in cells : h \in c.hyps}, Long)

-----------------------------------------------------------------------------
(* Mapping *)

Together(cells, pair) == Sum({c \in cells : pair[1] \in c.hyps /\ pair[2] \in c.refs}, Long)
Gain(cells, pairs) == MapThenSumSet(LAMBDA p : Together(cells, p), pairs)

\* Hypothesis labels paired one to one with reference labels, as many as there can be.
Pairings(hyps, refs) ==
    {pairs \in SUBSET (hyps \X refs) :
        /\ Cardinality(pairs) = Min({Cardinality(hyps), Cardinality(refs)})
        /\ \A p, q \in pairs : p # q => p[1] # q[1] /\ p[2] # q[2]}

\* Python's order of tuples of pairs.
Earlier(x, y) ==
    LET s == SetToSortSeq(x, LAMBDA a, b : a[1] < b[1])
        t == SetToSortSeq(y, LAMBDA a, b : a[1] < b[1])
    IN  \E i \in DOMAIN s : /\ SubSeq(s, 1, i - 1) = SubSeq(t, 1, i - 1)
                            /\ s[i][1] < t[i][1] \/ (s[i][1] = t[i][1] /\ s[i][2] < t[i][2])

\* _mapping_from_cells and optimal_speaker_mapping
Mapping(cells) ==
    LET all == Pairings(HypLabels(cells), RefLabels(cells))
        best == {m \in all : \A n \in all : Gain(cells, n) <= Gain(cells, m)}
    IN  IF RefLabels(cells) = {} \/ HypLabels(cells) = {} THEN {}
        ELSE CHOOSE m \in best : \A n \in best \ {m} : Earlier(m, n)

\* mapping.get(label, label)
Mapped(mapping, label) ==
    IF \E p \in mapping : p[1] = label THEN (CHOOSE p \in mapping : p[1] = label)[2] ELSE label

-----------------------------------------------------------------------------
(* Scores of a recording *)

\* _error_components
Components(cells, mapping, nonoverlap) ==
    LET scored == {c \in cells : ~nonoverlap \/ Cardinality(c.refs) <= 1}
        R(c) == Cardinality(c.refs)
        H(c) == Cardinality(c.hyps)
        correct(c) == Cardinality({h \in c.hyps : Mapped(mapping, h) \in c.refs})
    IN  [scored |-> Sum(scored, Long),
         reference |-> MapThenSumSet(LAMBDA c : R(c) * Long(c), scored),
         miss |-> MapThenSumSet(LAMBDA c : Max({0, R(c) - H(c)}) * Long(c), scored),
         falseAlarm |-> MapThenSumSet(LAMBDA c : Max({0, H(c) - R(c)}) * Long(c), scored),
         confusion |-> MapThenSumSet(LAMBDA c : (Min({R(c), H(c)}) - correct(c)) * Long(c), scored)]

Errors(c) == c.miss + c.falseAlarm + c.confusion

\* _jer: for each reference speaker, one minus intersection over union.
Jaccard(cells, mapping) ==
    [r \in RefLabels(cells) |->
       IF ~\E p \in mapping : p[2] = r THEN << 1, 1 >>
       ELSE LET h == (CHOOSE p \in mapping : p[2] = r)[1]
                both == Together(cells, << h, r >>)
                either == RefTime(cells, r) + HypTime(cells, h) - both
            IN  Ratio(either - both, either)]

\* _speaker_scores, of time with this one reference speaker.
SpeakerScores(cells, mapping, material) ==
    [r \in material |->
       LET alone == {c \in cells : c.refs = {r}}
       IN  [reference |-> Sum(alone, Long),
            assigned |-> Sum({c \in alone : c.hyps # {}}, Long),
            correct |-> Sum({c \in alone : \E h \in c.hyps : << h, r >> \in mapping}, Long)]]

\* _derive_change_boundaries: a turn starts of somebody who neither speaks then nor
\* was, when nobody does, the last to speak.
Changes(turns, uem) ==
    LET spoken == {t \in turns : t.who < OverlapLabel}
        Prior(p) ==
          LET active == {t.who : t \in {u \in spoken : u.from < p /\ p <= u.to}}
              ended == {t.to : t \in {u \in spoken : u.to <= p}}
          IN  IF active # {} \/ ended = {} THEN active
              ELSE {t.who : t \in {u \in spoken : u.to = Max(ended)}}
    IN  {p \in {t.from : t \in spoken} :
           /\ Prior(p) # {} /\ Inside(p, uem)
           /\ \E t \in spoken : t.from = p /\ t.who \notin Prior(p)}

\* Mutant: a prediction within the collar stays for the next boundary too.
Matches_Reused(refs, preds, collar) ==
    LET r == SetToSortSeq(refs, <) p == SetToSortSeq(preds, <)
        m[i \in 1..(Len(r) + 1), j \in 1..(Len(p) + 1)] ==
          IF i > Len(r) \/ j > Len(p) THEN 0
          ELSE IF p[j] < r[i] - collar THEN m[i, j + 1]
          ELSE IF p[j] > r[i] + collar THEN m[i + 1, j]
          ELSE 1 + m[i + 1, j]
    IN  m[1, 1]

\* score_boundaries: true positives of two sorted lists.
Matches(refs, preds, collar) ==
    LET r == SetToSortSeq(refs, <) p == SetToSortSeq(preds, <)
        m[i \in 1..(Len(r) + 1), j \in 1..(Len(p) + 1)] ==
          IF i > Len(r) \/ j > Len(p) THEN 0
          ELSE IF p[j] < r[i] - collar THEN m[i, j + 1]
          ELSE IF p[j] > r[i] + collar THEN m[i + 1, j]
          ELSE 1 + m[i + 1, j + 1]
    IN  m[1, 1]

Events(refs, preds, collar) ==
    LET tp == Matches(refs, preds, collar)
    IN  [tp |-> tp, fp |-> Cardinality(preds) - tp, fn |-> Cardinality(refs) - tp]

\* _overlap_metrics, when the reference has overlap or is known to be complete in it.
OverlapScores(cells, complete) ==
    LET Ref(c) == Cardinality(c.refs) >= 2 \/ c.refOverlap
        Hyp(c) == Cardinality(c.hyps) >= 2 \/ c.hypOverlap
    IN  IF ~complete /\ ~\E c \in cells : Ref(c) THEN << >>
        ELSE << [tp |-> Sum({c \in cells : Ref(c) /\ Hyp(c)}, Long),
                 fp |-> Sum({c \in cells : ~Ref(c) /\ Hyp(c)}, Long),
                 fn |-> Sum({c \in cells : Ref(c) /\ ~Hyp(c)}, Long)] >>

\* _mapped_prediction; 0 is None
Predicted(label, mapping) == IF label \in {0, OverlapLabel, OtherLabel} THEN 0 ELSE Mapped(mapping, label)

\* score_words: a word is [from, to, who, attributable, excluded, says].
WordScores(words, mapping) ==
    LET eligible == {w \in words : w.attributable /\ ~w.excluded /\ w.who \notin {0, OverlapLabel, OtherLabel}}
        assigned == {w \in eligible : Predicted(w.says, mapping) # 0}
        correct == {w \in assigned : Predicted(w.says, mapping) = w.who}
        excluded == {w \in words : w.excluded}
    IN  [eligible |-> Cardinality(eligible), assigned |-> Cardinality(assigned),
         correct |-> Cardinality(correct), excluded |-> Cardinality(excluded),
         forced |-> Cardinality({w \in excluded : Predicted(w.says, mapping) # 0})]

Material(time, floor) == {l \in DOMAIN time : time[l] >= floor}

\* What is scored once cells and mapping are there.
Scored(rec, cfg, uem, cells, collared, mapping) ==
    LET refs == Material([r \in RefLabels(cells) |-> RefTime(cells, r)], cfg.refFloor)
        hyps == Material([h \in HypLabels(cells) |-> HypTime(cells, h)], cfg.hypFloor)
        h1 == Cardinality(refs) = 1
        h2 == Cardinality(refs) = 2
        second == SetToSortSeq({<< HypTime(cells, h), h >> : h \in HypLabels(cells)},
                               LAMBDA a, b : a[1] > b[1] \/ (a[1] = b[1] /\ a[2] < b[2]))
    IN  [mapping |-> mapping,
         all |-> Components(collared, mapping, FALSE),
         nonoverlap |-> Components(collared, mapping, TRUE),
         jer |-> Jaccard(collared, mapping),
         refs |-> Cardinality(refs), hyps |-> Cardinality(hyps),
         merge |-> h2 /\ Cardinality(hyps) = 1,
         unsafe |-> h2 /\ Cardinality(hyps) = 1 /\ rec.status \in {"PASS_HIGH", "PASS_STANDARD"},
         falseH2 |-> h1 /\ Cardinality(hyps) = 2,
         secondary |-> IF h1 /\ Len(second) >= 2 THEN second[2][1] ELSE 0,
         countCorrect |-> (h1 \/ h2) /\ Cardinality(refs) = Cardinality(hyps),
         speakers |-> SpeakerScores(cells, mapping, refs),
         scd |-> Events(Changes(rec.reference, uem), Changes(rec.hypothesis, uem), cfg.scdCollar),
         overlap |-> OverlapScores(cells, rec.complete),
         words |-> WordScores(rec.words, mapping)]

\* Recordings that are refused rather than scored.
Refused(words, uem, cells) ==
    \/ Cardinality(RefLabels(cells)) > 2 \/ Cardinality(HypLabels(cells)) > 2
    \/ \E w \in words : ~\E i \in uem : i[1] <= w.from /\ w.to <= i[2]

ScoredCells(rec, cfg, uem, cells, collared) ==
    IF Refused(rec.words, uem, cells) THEN << >>
    ELSE << Scored(rec, cfg, uem, cells, collared, Mapping(collared)) >>

\* score_recording of [reference, hypothesis, uem, words, complete, status] under a
\* configuration [refFloor, hypFloor, derCollar, scdCollar]; << >> when it is refused.
Score(rec, cfg) ==
    LET uem == RangeOf(Merged(rec.uem))
    IN  ScoredCells(rec, cfg, uem, Cells(rec.reference, rec.hypothesis, uem),
                    Cells(rec.reference, rec.hypothesis, Collared(uem, rec.reference, cfg.derCollar)))

-----------------------------------------------------------------------------
(* Corpora *)

\* aggregate_recording_scores of a sequence of scores
Aggregate(scores) ==
    LET Count(Is(_)) == Len(SelectSeq(scores, Is))
        Pool(Of(_), field) == SumOver(scores, LAMBDA s : Of(s)[field])
        evaluated == SelectSeq(scores, LAMBDA s : s.overlap # << >>)
    IN  [files |-> Len(scores),
         all |-> [f \in {"scored", "reference", "miss", "falseAlarm", "confusion"} |->
                    Pool(LAMBDA s : s.all, f)],
         h2 |-> Count(LAMBDA s : s.refs = 2), h1 |-> Count(LAMBDA s : s.refs = 1),
         merges |-> Count(LAMBDA s : s.merge), unsafe |-> Count(LAMBDA s : s.unsafe),
         falseH2 |-> Count(LAMBDA s : s.falseH2),
         countCorrect |-> Count(LAMBDA s : s.countCorrect),
         scd |-> [f \in {"tp", "fp", "fn"} |-> Pool(LAMBDA s : s.scd, f)],
         overlap |-> IF evaluated = << >> THEN << >>
                     ELSE << [f \in {"tp", "fp", "fn"} |->
                                SumOver(evaluated, LAMBDA s : s.overlap[1][f])] >>,
         words |-> [f \in {"eligible", "assigned", "correct", "excluded", "forced"} |->
                      Pool(LAMBDA s : s.words, f)]]

\* _quantile at the fraction num / den of sorted values, times den.
Quantile(values, num, den) ==
    LET ordered == SortSeq(values, <)
        position == (Len(values) - 1) * num
        low == position \div den
        high == Min({low + 1, Len(values) - 1})
        part == position % den
    IN  ordered[low + 1] * (den - part) + ordered[high + 1] * part

\* bootstrap_recording_ci of a mean: a draw gives, for each place, which recording.
Interval(values, draws, tail, den) ==
    LET samples == [d \in DOMAIN draws |-> SumOver(draws[d], LAMBDA k : values[k])]
    IN  [point |-> SumOver(values, LAMBDA v : v) * den,
         lower |-> Quantile(samples, tail, den), upper |-> Quantile(samples, den - tail, den)]

\* score_safety: topology of files by the merged time of each label, without a UEM.
LegacyMaterial(turns, floor) ==
    {w \in {t.who : t \in turns} : w < OverlapLabel /\
        SumOver(Merged({<< t.from, t.to >> : t \in {u \in turns : u.who = w}}),
                LAMBDA i : i[2] - i[1]) >= floor}

Safety(rec, floor) ==
    LET refs == Cardinality(LegacyMaterial(rec.reference, floor))
        hyps == Cardinality(LegacyMaterial(rec.hypothesis, floor))
    IN  [merge |-> refs = 2 /\ hyps = 1,
         unsafe |-> refs = 2 /\ hyps = 1 /\ rec.status \in {"PASS_HIGH", "PASS_STANDARD"},
         falsePass |-> refs = 2 /\ hyps = 1
                         /\ rec.status \in {"PASS_HIGH", "PASS_STANDARD", "PASS_WITH_UNATTRIBUTED"},
         falseH2 |-> refs = 1 /\ hyps = 2, countCorrect |-> refs \in {1, 2} /\ refs = hyps]

\* validate_recording_session_splits: [id, session, split, speakers, source, augmentation],
\* with 0 for what is absent.
Keys(r) ==
    {<< "session", r.session >>, << "recording", r.id >>,
     << "source", IF r.source = 0 THEN r.id ELSE r.source >>}
    \cup (IF r.augmentation = 0 THEN {} ELSE {<< "augmentation", r.augmentation >>})
    \cup {<< "speaker", s >> : s \in r.speakers}

SplitsApart(manifests) ==
    /\ IsInjective([i \in DOMAIN manifests |-> manifests[i].id])
    /\ \A i, j \in DOMAIN manifests :
         Keys(manifests[i]) \cap Keys(manifests[j]) # {} => manifests[i].split = manifests[j].split

-----------------------------------------------------------------------------
(* What scores stand for *)

\* Ways to pair members of two finite sets one to one, some left out.
PartialPairings(X, Y, May(_, _)) ==
    {pairs \in SUBSET {xy \in X \X Y : May(xy[1], xy[2])} :
       \A p, q \in pairs : p # q => p[1] # q[1] /\ p[2] # q[2]}

\* The error components of the scored ticks of time, one by one.
TickErrors(rec, uem, collar, mapping) ==
    LET ends == UNION {{t.from, t.to} : t \in {r \in rec.reference : r.who < OverlapLabel}}
        scored == {t \in UNION {u[1]..(u[2] - 1) : u \in uem} :
                     ~\E e \in ends : Inside(e, uem) /\ e - collar <= t /\ t < e + collar}
        Who(turns, t) == {u.who : u \in {v \in turns : v.who < OverlapLabel /\ v.from <= t /\ t < v.to}}
        R(t) == Cardinality(Who(rec.reference, t))
        H(t) == Cardinality(Who(rec.hypothesis, t))
        Right(t) == Cardinality({h \in Who(rec.hypothesis, t) :
                                   \E r \in Who(rec.reference, t) : << h, r >> \in mapping})
    IN  [scored |-> Cardinality(scored),
         reference |-> MapThenSumSet(R, scored),
         miss |-> MapThenSumSet(LAMBDA t : R(t) - Min({R(t), H(t)}), scored),
         falseAlarm |-> MapThenSumSet(LAMBDA t : H(t) - Min({R(t), H(t)}), scored),
         confusion |-> MapThenSumSet(LAMBDA t : Min({R(t), H(t)}) - Right(t), scored)]

\* A score counts each tick once and no other relabelling of the hypothesis would have fewer
\* errors, changes of speaker are matched as often as they can be, and the topology agrees
\* with the older score_safety when the UEM leaves nothing out.
ScoreIsTrue(rec, cfg) ==
    LET hyps == {t.who : t \in {u \in rec.hypothesis : u.who < OverlapLabel}}
        refs == {t.who : t \in {u \in rec.reference : u.who < OverlapLabel}}
        Near(x, y) == Magnitude(x - y) <= cfg.scdCollar
    IN  \A uem \in {RangeOf(Merged(rec.uem))}, score \in ToSet(Score(rec, cfg)),
           old \in {Safety(rec, cfg.refFloor)} :
          /\ score.all = TickErrors(rec, uem, cfg.derCollar, score.mapping)
          /\ \A m \in PartialPairings(hyps, refs, LAMBDA x, y : TRUE) :
               Errors(score.all) <= Errors(TickErrors(rec, uem, cfg.derCollar, m))
          /\ score.scd.tp = Max({Cardinality(m) : m \in
               PartialPairings(Changes(rec.reference, uem), Changes(rec.hypothesis, uem), Near)})
          /\ /\ \A t \in rec.reference \cup rec.hypothesis :
                  \E u \in uem : u[1] <= t.from /\ t.to <= u[2]
             /\ cfg.refFloor = cfg.hypFloor
             => << score.merge, score.unsafe, score.falseH2, score.countCorrect >>
                  = << old.merge, old.unsafe, old.falseH2, old.countCorrect >>
=============================================================================
