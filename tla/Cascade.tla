------------------------------- MODULE Cascade -------------------------------
(***************************************************************************)
(* The oracle of a draft / refiner cascade (stt_cascade_experimental.py):  *)
(* which segments a refiner should redo within a share of the recording,   *)
(* by two exact solvers, and the curve of what that saves.                 *)
(*                                                                         *)
(* A segment is [from, to, draft, refiner, hard, reference, refined]: the  *)
(* edit counts of both, "yes" / "no" / "unmarked", and lengths in          *)
(* characters (-1 when they were not given).                               *)
(***************************************************************************)
EXTENDS Integers, SequencesExt

CONSTANT MitmLimit,         \* MAX_MITM_CANDIDATES
         MaxSegments, MaxTotal, MaxStates

Duration(s) == s.to - s.from
SavedBy(s) == s.draft - s.refiner
Amount(S, Of(_)) == MapThenSumSet(Of, S)

\* A selection of row numbers, as the ascending tuple that ties are broken by.
Tuple(selection) == SetToSortSeq(selection, <)
Precedes(x, y) ==
    LET s == Tuple(x) t == Tuple(y)
    IN  \E i \in 1..Len(t) : /\ i <= Len(s) + 1 /\ SubSeq(s, 1, i - 1) = SubSeq(t, 1, i - 1)
                             /\ i <= Len(s) => s[i] < t[i]

\* _better_subset, of [gain, picks]
Better(a, b) == IF a.gain # b.gain THEN a.gain > b.gain ELSE Precedes(a.picks, b.picks)
BestOf(S) == CHOOSE a \in S : \A b \in S \ {a} : Better(a, b)

Chosen(rows, picks) == [gain |-> Amount(picks, LAMBDA i : SavedBy(rows[i])), picks |-> picks]
TimeOf(rows, picks) == Amount(picks, LAMBDA i : Duration(rows[i]))
Helpful(rows) == {i \in DOMAIN rows : rows[i].draft > rows[i].refiner}

\* _knapsack_mitm: subsets of the first half, each with the best of the second half
\* that still fits.
Mitm(rows, capacity) ==
    LET helpful == Tuple(Helpful(rows))
        split == Len(helpful) \div 2
        left == {helpful[k] : k \in 1..split}
        right == Helpful(rows) \ left
        Fitting(half, room) == {p \in SUBSET half : TimeOf(rows, p) <= room}
    IN  IF capacity <= 0 \/ helpful = << >> THEN {}
        ELSE BestOf({Chosen(rows,
                            p \cup BestOf({Chosen(rows, q) :
                                             q \in Fitting(right, capacity - TimeOf(rows, p))}).picks) :
                       p \in Fitting(left, capacity)}).picks

\* Mutant: whether there is room is looked at before the row is added.
Grown_Late(states, rows, i, capacity) ==
    LET grown == {[gain |-> s.gain + SavedBy(rows[i]), picks |-> s.picks \cup {i}] :
                    s \in {t \in states : TimeOf(rows, t.picks) <= capacity}}
        all == states \cup grown
    IN  {BestOf({s \in all : TimeOf(rows, s.picks) = d}) : d \in {TimeOf(rows, s.picks) : s \in all}}

\* One row of the sparse solver: for each duration the best selection of that duration.
Grown(states, rows, i, capacity) ==
    LET grown == {[gain |-> s.gain + SavedBy(rows[i]), picks |-> s.picks \cup {i}] :
                    s \in {t \in states : TimeOf(rows, t.picks) + Duration(rows[i]) <= capacity}}
        all == states \cup grown
    IN  {BestOf({s \in all : TimeOf(rows, s.picks) = d}) : d \in {TimeOf(rows, s.picks) : s \in all}}

\* The states after the first n rows; each of them is one entry of the dictionary.
SparseStates(rows, n, capacity) ==
    FoldLeft(LAMBDA states, i :
               IF SavedBy(rows[i]) <= 0 THEN states ELSE Grown(states, rows, i, capacity),
             {[gain |-> 0, picks |-> {}]}, [i \in 1..n |-> i])

\* _knapsack_sparse, when no row leaves more than MaxStates
SparseRefused(rows, capacity) ==
    \E n \in Helpful(rows) : Cardinality(SparseStates(rows, n, capacity)) > MaxStates
Sparse(rows, capacity) == BestOf(SparseStates(rows, Len(rows), capacity)).picks

\* _duration_selection
Selection(rows, capacity) ==
    IF Cardinality(Helpful(rows)) <= MitmLimit THEN Mitm(rows, capacity) ELSE Sparse(rows, capacity)

-----------------------------------------------------------------------------
(* The curve *)

Share(n, d) == IF d = 0 THEN << 0, 1 >> ELSE << n, d >>

\* _segments: in order of time, and without overlap.
InOrder(rows) == SortSeq(rows, LAMBDA a, b : a.from < b.from \/ (a.from = b.from /\ a.to < b.to))
Disjoint(rows) == \A i \in 1..(Len(rows) - 1) : rows[i].to <= rows[i + 1].from

\* _budget_values
LegalBudgets(budgets) ==
    /\ budgets # << >> /\ ToSet(budgets) \subseteq 1..100
    /\ \A i \in 1..(Len(budgets) - 1) : budgets[i] < budgets[i + 1]

Hard(rows) ==
    IF \E i \in DOMAIN rows : rows[i].hard # "unmarked" THEN {i \in DOMAIN rows : rows[i].hard = "yes"}
    ELSE Helpful(rows)

\* _risk of losing text, without explicit marks of the segments
DeletionRisk(rows, picks) ==
    LET counted == {i \in picks : rows[i].reference >= 0 /\ rows[i].refined >= 0}
    IN  IF counted # {}
        THEN Share(Amount(counted, LAMBDA i : Max({0, rows[i].reference - rows[i].refined})),
                   Amount(counted, LAMBDA i : rows[i].reference))
        ELSE Share(Amount(picks, LAMBDA i : Max({0, -SavedBy(rows[i])})),
                   Amount(picks, LAMBDA i : Max({rows[i].draft, rows[i].refiner})))

Total(rows) == TimeOf(rows, DOMAIN rows)
Target(rows, percent) == (Total(rows) * percent) \div 100

\* _curve_row
CurveRow(rows, picks, percent) ==
    LET errors == Amount(DOMAIN rows, LAMBDA i : rows[i].draft) - Chosen(rows, picks).gain
    IN  [target |-> Target(rows, percent), time |-> TimeOf(rows, picks), errors |-> errors,
         count |-> Cardinality(picks),
         againstFull |-> errors - Amount(DOMAIN rows, LAMBDA i : rows[i].refiner),
         recall |-> Share(Cardinality(picks \cap Hard(rows)), Cardinality(Hard(rows))),
         hardTime |-> Share(TimeOf(rows, picks \cap Hard(rows)), TimeOf(rows, Hard(rows))),
         deletion |-> DeletionRisk(rows, picks)]

\* The diagnostic curve takes a number of segments, whatever they last.
Ranked(rows) ==
    SortSeq(Tuple(Helpful(rows)),
            LAMBDA i, j : \/ SavedBy(rows[i]) > SavedBy(rows[j])
                          \/ SavedBy(rows[i]) = SavedBy(rows[j]) /\ rows[i].draft > rows[j].draft
                          \/ SavedBy(rows[i]) = SavedBy(rows[j]) /\ rows[i].draft = rows[j].draft /\ i < j)
Counted(rows, percent) ==
    LET most == (Len(rows) * percent + 99) \div 100
    IN  {Ranked(rows)[k] : k \in 1..Min({most, Len(Ranked(rows))})}

\* analyze_stt_cascade_oracle: << >> when it is refused.
Analyzed(segments, budgets) ==
    LET rows == InOrder(segments)
        refused == \/ Len(rows) \notin 1..MaxSegments \/ ~Disjoint(rows) \/ ~LegalBudgets(budgets)
                   \/ Total(rows) > MaxTotal
                   \/ /\ Cardinality(Helpful(rows)) > MitmLimit
                      /\ \E k \in DOMAIN budgets : SparseRefused(rows, Target(rows, budgets[k]))
    IN  IF refused THEN << >>
        ELSE << [curve |-> [k \in DOMAIN budgets |->
                              CurveRow(rows, Selection(rows, Target(rows, budgets[k])), budgets[k])],
                 counts |-> [k \in DOMAIN budgets |->
                               CurveRow(rows, Counted(rows, budgets[k]), budgets[k])]] >>

-----------------------------------------------------------------------------
(* What the curve promises *)

\* Both solvers find the same selection: the first of those that fit and save the most.
\* Along the curve no point costs more time than its target, more errors than the one
\* before it, or more errors than the count-based curve when that costs no more time.
CascadeIsOptimal(segments, budgets) ==
    \A rows \in {InOrder(segments)} :
      /\ \A capacity \in {Target(rows, budgets[k]) : k \in DOMAIN budgets} :
           LET fits == {p \in SUBSET Helpful(rows) : TimeOf(rows, p) <= capacity}
           IN  {Mitm(rows, capacity), Sparse(rows, capacity)}
                 = {BestOf({Chosen(rows, p) : p \in fits}).picks}
      /\ \A analysis \in ToSet(Analyzed(segments, budgets)) :
           LET curve == analysis.curve counts == analysis.counts
           IN  \A k \in DOMAIN curve :
                 /\ curve[k].time <= curve[k].target
                 /\ k > 1 => curve[k].errors <= curve[k - 1].errors
                 /\ counts[k].time <= curve[k].target => curve[k].errors <= counts[k].errors

=============================================================================
