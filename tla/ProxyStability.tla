--------------------------- MODULE ProxyStability ---------------------------
(***************************************************************************)
(* The audit of how stable a diarization is (proxy_stability.py): a        *)
(* variant's spans against the canonical ones, without a reference.  A     *)
(* span is [from, to, who, central] in ticks; who is a speaker, UNKNOWN    *)
(* or OVERLAP.  A ratio is << part, whole >>, << >> where the code says    *)
(* None.                                                                   *)
(***************************************************************************)
EXTENDS Integers, SequencesExt

Nobody == 0     \* UNKNOWN and its other names
Several == 9    \* OVERLAP
MaxLabels == 2  \* MAX_ASSIGNED_LABELS

Assigned(span) == span.who \notin {Nobody, Several}
Spoken(span) == span.who # Nobody
Length(span) == span.to - span.from
TimeOf(spans) == FoldLeft(LAMBDA sum, s : sum + Length(s), 0, spans)

-----------------------------------------------------------------------------
(* _extract_spans: in order of time, apart from each other, of few speakers *)

InOrder(spans) ==
    SetToSortSeq(spans, LAMBDA a, b : a.from < b.from \/ (a.from = b.from /\ a.to < b.to))

Refused(sorted) ==
    \/ \E k \in 2..Len(sorted) : sorted[k].from < sorted[k - 1].to
    \/ Cardinality({s.who : s \in {x \in ToSet(sorted) : Assigned(x)}}) > MaxLabels

-----------------------------------------------------------------------------
(* Sweeps: _pair_durations, _speech_intersection and _central_retention    *)
(* walk two timelines with two indexes, the same way.                      *)

RECURSIVE Sweep(_, _, _, _)
Sweep(a, b, i, j) ==
    IF i > Len(a) \/ j > Len(b) THEN {}
    ELSE {<< i, j >>} \cup Sweep(a, b, IF a[i].to <= b[j].to THEN i + 1 ELSE i,
                                       IF b[j].to <= a[i].to THEN j + 1 ELSE j)

Common(s, t) == Max({0, Min({s.to, t.to}) - Max({s.from, t.from})})

\* Ticks that a sweep sees in pairs of spans of some kind.
Met(a, b, Kind(_, _)) ==
    MapThenSumSet(LAMBDA p : Common(a[p[1]], b[p[2]]),
                  {p \in Sweep(a, b, 1, 1) : Kind(a[p[1]], b[p[2]])})

PairTime(a, b, c, v) == Met(a, b, LAMBDA s, t : s.who = c /\ t.who = v)

\* Pairs of speakers that are in the table at all.
Pairs(a, b) ==
    {<< a[p[1]].who, b[p[2]].who >> :
       p \in {q \in Sweep(a, b, 1, 1) : /\ Common(a[q[1]], b[q[2]]) > 0
                                         /\ Assigned(a[q[1]]) /\ Assigned(b[q[2]])}}

-----------------------------------------------------------------------------
(* _permutation *)

Candidates(variants, references) ==
    IF variants = {} \/ references = {} THEN {<< >>}
    ELSE IF Cardinality(variants) = 1 THEN [variants -> references]
    ELSE IF Cardinality(references) = 2
      THEN {f \in [variants -> references] : \A v, w \in variants : f[v] = f[w] => v = w}
    ELSE [variants -> references]

\* The one that sorts first, whatever it agrees with.
Mapping_First(a, b) ==
    LET pairs == Pairs(a, b)
        variants == {p[2] : p \in pairs}
        all == Candidates(variants, {p[1] : p \in pairs})
    IN  CHOOSE f \in all : variants # {} => \A g \in all : f[Min(variants)] <= g[Min(variants)]

\* The largest agreement; among equals the one that sorts first.
Mapping(a, b) ==
    LET pairs == Pairs(a, b)
        variants == {p[2] : p \in pairs}
        all == Candidates(variants, {p[1] : p \in pairs})
        Value(f) == MapThenSumSet(LAMBDA p : PairTime(a, b, p[1], p[2]), {p \in pairs : f[p[2]] = p[1]})
        best == {f \in all : \A g \in all : Value(g) <= Value(f)}
    IN  CHOOSE f \in best : variants # {} => \A g \in best : f[Min(variants)] <= g[Min(variants)]

Maps(mapping, s, t) == t.who \in DOMAIN mapping /\ mapping[t.who] = s.who

-----------------------------------------------------------------------------
(* The metrics of audit *)

Boundaries(spans) ==
    {spans[k].from : k \in 2..Len(spans)} \cup {spans[k].to : k \in 1..(Len(spans) - 1)}

\* Points within the tolerance are matched from left to right.
RECURSIVE Matched(_, _, _)
Matched(reference, predicted, tolerance) ==
    IF reference = {} \/ predicted = {} THEN 0
    ELSE LET r == Min(reference)  p == Min(predicted)
         IN  IF p < r - tolerance THEN Matched(reference, predicted \ {p}, tolerance)
             ELSE IF p > r + tolerance THEN Matched(reference \ {r}, predicted, tolerance)
             ELSE 1 + Matched(reference \ {r}, predicted \ {p}, tolerance)

Ratio(part, whole) == IF whole = 0 THEN << >> ELSE << part, whole >>

\* _central_retention
Central(a, b, mapping) == Met(a, b, LAMBDA s, t : s.central /\ Assigned(s) /\ Maps(mapping, s, t))

Metrics(a, b, tolerance) ==
    IF a = << >> \/ b = << >> THEN << >>
    ELSE
    LET mapping == Mapping(a, b)
        retained == Met(a, b, LAMBDA s, t : Assigned(s) /\ Maps(mapping, s, t))
        both == Met(a, b, LAMBDA s, t : Spoken(s) /\ Spoken(t))
        own == TimeOf(SelectSeq(a, Assigned))
    IN  [coassigned |-> Ratio(retained, Met(a, b, LAMBDA s, t : Assigned(s) /\ Assigned(t))),
         flips |-> Ratio(own - retained, own),
         retention |-> Ratio(retained, own),
         unknown |-> << Ratio(TimeOf(b) - TimeOf(SelectSeq(b, Spoken)), TimeOf(b)),
                        Ratio(TimeOf(a) - TimeOf(SelectSeq(a, Spoken)), TimeOf(a)) >>,
         speech |-> Ratio(both, TimeOf(SelectSeq(a, Spoken)) + TimeOf(SelectSeq(b, Spoken)) - both),
         boundaries |-> IF Boundaries(a) = {} /\ Boundaries(b) = {} THEN << 1, 1 >>
                        ELSE Ratio(2 * Matched(Boundaries(a), Boundaries(b), tolerance),
                                   Cardinality(Boundaries(a)) + Cardinality(Boundaries(b))),
         central |-> Ratio(Central(a, b, mapping),
                           TimeOf(SelectSeq(a, LAMBDA s : s.central /\ Assigned(s))))]

-----------------------------------------------------------------------------
(* What they are for *)

Ticks(spans) == UNION {s.from..(s.to - 1) : s \in ToSet(spans)}
SpanAt(spans, t) == CHOOSE s \in ToSet(spans) : s.from <= t /\ t < s.to
Who(spans, t) == IF t \in Ticks(spans) THEN SpanAt(spans, t).who ELSE Nobody
Named(spans) == {s.who : s \in {x \in ToSet(spans) : Assigned(x)}}

\* Ways to name the variant's speakers that are ever heard with a canonical one: no two the
\* same, unless only one canonical speaker is heard with them.
Namings(a, b) ==
    LET heard == {<< Who(a, t), Who(b, t) >> : t \in Ticks(a) \cap Ticks(b)} \cap (Named(a) \X Named(b))
        variants == {p[2] : p \in heard}
        references == {p[1] : p \in heard}
    IN  {f \in [variants -> references] :
           Cardinality(references) > 1 => \A v, w \in variants : f[v] = f[w] => v = w}

\* Most pairs that can be made of points no further apart than the tolerance.
RECURSIVE Matchable(_, _, _)
Matchable(reference, predicted, tolerance) ==
    IF reference = {} THEN 0
    ELSE LET r == Min(reference)
         IN  Max({Matchable(reference \ {r}, predicted, tolerance)} \cup
                 {1 + Matchable(reference \ {r}, predicted \ {p}, tolerance) :
                    p \in {x \in predicted : x - r \in (-tolerance)..tolerance}})

\* Tick by tick: what is retained is the most that a renaming can retain, speech is shared
\* where both speak, no boundary is left that could be matched, and names do not matter.
AuditIsTrue(canonical, variant, tolerance) ==
    LET a == InOrder(canonical)  b == InOrder(variant)
    IN  /\ Refused(b) = ((\E s, t \in variant : s # t /\ Common(s, t) > 0)
                           \/ Cardinality(Named(b)) > MaxLabels)
        /\ ~Refused(a) /\ ~Refused(b) /\ a # << >> /\ b # << >> =>
             \A m \in {Metrics(a, b, tolerance)} :
             LET both == Ticks(a) \cap Ticks(b)
                 speech == {t \in both : Who(a, t) # Nobody /\ Who(b, t) # Nobody}
                 either == {t \in Ticks(a) : Who(a, t) # Nobody} \cup {t \in Ticks(b) : Who(b, t) # Nobody}
                 agreeing == {Cardinality({t \in both : /\ Who(b, t) \in DOMAIN f
                                                          /\ f[Who(b, t)] = Who(a, t)}) : f \in Namings(a, b)}
             IN  /\ m.retention # << >> => m.retention[1] = Max(agreeing)
                 /\ m.speech = Ratio(Cardinality(speech), Cardinality(either))
                 /\ (Boundaries(a) \cup Boundaries(b) # {} =>
                      m.boundaries[1] = 2 * Matchable(Boundaries(a), Boundaries(b), tolerance))
                 /\ LET swapped == {[s EXCEPT !.who = CASE @ = 1 -> 2 [] @ = 2 -> 1 [] OTHER -> @] : s \in variant}
                        other == Metrics(a, InOrder(swapped), tolerance)
                    IN  \A name \in DOMAIN m \ {"central"} : other[name] = m[name]
                 /\ LET self == Metrics(a, a, tolerance)
                    IN  /\ \A name \in {"coassigned", "retention", "speech", "central", "boundaries"} :
                             self[name] # << >> => self[name][1] = self[name][2]
                        /\ self.unknown[1] = self.unknown[2]
=============================================================================
